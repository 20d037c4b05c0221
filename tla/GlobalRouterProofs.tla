------------------------- MODULE GlobalRouterProofs -------------------------
(***************************************************************************)
(* Proofs about two steps of GlobalRouter::route: the batches getBatches   *)
(* makes (BatchScheduler), for lists and boxes of every size, and the maze *)
(* stage on the GPU with the guides written after it (GPURouter), for      *)
(* grids, nets and routes of every size.                                   *)
(***************************************************************************)
EXTENDS BatchScheduler, GPURouter, FiniteSums, TLAPS

-----------------------------------------------------------------------------
(* Part 1: BatchScheduler.                                                 *)

Assigned(p) == batchOf[p] # Unassigned
Scheduling == pc \in {"batch", "scan", "seed"}

(* The nets of the batch under construction are the ones in the R-tree;    *)
(* batches are numbered as they are opened.                                *)
TreeInv ==
  /\ \A p \in Pos : batchOf[p] <= numBatches
  /\ pc \in {"scan", "seed"} =>
       numBatches >= 1 /\ rtree = {p \in Pos : batchOf[p] = numBatches}

(* The scan has left nothing behind that is smaller than what may follow.  *)
ScanInv ==
  /\ pc = "start" => lastUnroute = 0
  /\ lastUnroute <= numNets
  /\ \A p \in Pos : p < lastUnroute => Assigned(p)
  /\ pc = "batch" => AtEnd(lastUnroute) \/ ~Assigned(lastUnroute)
  /\ pc = "scan" =>
       /\ ~AtEnd(lastUnroute)
       /\ lastUnroute <= i /\ i <= numNets
       /\ i = lastUnroute =>
            rtree = {} /\ lastMetric = INT_MAX /\ ~Assigned(lastUnroute)
       /\ i > lastUnroute => rtree # {}
       /\ \A p \in Pos : p < i => Assigned(p) \/ lastMetric <= Metric(p)
  /\ pc = "seed" => rtree # {}

(* Once a batch is closed it keeps the nets it was closed with. *)
NonEmpty ==
  /\ pc \in {"batch", "scan", "seed", "done"} =>
       \A k \in 1 .. numBatches :
         (pc = "scan" => k < numBatches) => \E p \in Pos : batchOf[p] = k
  /\ pc = "done" => AtEnd(lastUnroute)

(* With one thread the scheduler is never entered. *)
OneThread ==
  /\ pc = "start" => numBatches = 0 /\ \A p \in Pos : ~Assigned(p)
  /\ Scheduling => numofThreads # 1
  /\ pc = "done" /\ numofThreads = 1 =>
       numBatches = 1 /\ \A p \in Pos : batchOf[p] = 1

IInv ==
  /\ TypeOK
  /\ OneThread
  /\ numofThreads # 1 => TreeInv /\ ScanInv /\ NonEmpty /\ ConflictFree /\ OrderEq
----------------------------------------------------------------------------

(* The router's inputs never change. *)
LEMMA InputFixed ==
  [BatchNext]_batchVars => /\ numofThreads' = numofThreads /\ numNets' = numNets
                 /\ box' = box /\ Pos' = Pos
<1> SUFFICES ASSUME [BatchNext]_batchVars
             PROVE  numofThreads' = numofThreads /\ numNets' = numNets /\ box' = box
  BY DEF Pos
<1>1. QED
  BY DEF BatchNext, Step, Returned, batchVars, input, SingleBatch, Schedule, NewBatch, Done,
         ScanAssigned, CanScan, ScanBreak, ScanConflict, ScanPlace, ScanEnd,
         SeedAssigned, SeedFound

(* The half perimeters are integers that lastMetric's INT_MAX bounds. *)
LEMMA MetricBound ==
  ASSUME TypeOK
  PROVE  \A p \in Pos : Metric(p) \in Int /\ Metric(p) <= INT_MAX
<1>1. \A b \in Boxes : hp(b) \in Int
  BY SchedulerAssumption DEF BoxType, hp
<1>2. QED
  BY <1>1, SchedulerAssumption DEF TypeOK, Metric

(* Whether two boxes meet does not depend on the order they are named in. *)
LEMMA IntersectsSymmetric == \A b, c : Intersects(b, c) <=> Intersects(c, b)
BY DEF Intersects

(* Every step keeps the types. *)
LEMMA TypeStep == TypeOK /\ [BatchNext]_batchVars => TypeOK'
<1> SUFFICES ASSUME TypeOK, [BatchNext]_batchVars
             PROVE  TypeOK'
  OBVIOUS
<1>1. numNets \in Nat /\ Pos \subseteq Nat /\ numNets' = numNets /\ Pos' = Pos
  BY InputFixed DEF TypeOK, Pos
<1>2. numofThreads' \in Nat /\ numNets' \in Nat /\ box' \in [Pos' -> Boxes]
  BY InputFixed DEF TypeOK
<1>3. CASE SingleBatch
  BY <1>1, <1>2, <1>3 DEF SingleBatch, TypeOK
<1>4. CASE Schedule
  BY <1>1, <1>2, <1>4 DEF Schedule, TypeOK
<1>5. CASE NewBatch
  BY <1>1, <1>2, <1>5, SchedulerAssumption DEF NewBatch, TypeOK
<1>6. CASE Done
  BY <1>1, <1>2, <1>6 DEF Done, TypeOK
<1>7. CASE ScanAssigned
  BY <1>1, <1>2, <1>7 DEF ScanAssigned, TypeOK
<1>8. CASE ScanBreak
  BY <1>1, <1>2, <1>8 DEF ScanBreak, CanScan, TypeOK
<1>9. CASE ScanConflict \/ ScanPlace
  <2>1. i \in Pos
    BY <1>9 DEF ScanConflict, ScanPlace, CanScan, AtEnd, TypeOK, Pos
  <2>2. Metric(i) \in Int
    BY <2>1, MetricBound
  <2>3. CASE ScanConflict
    BY <1>1, <1>2, <2>2, <2>3 DEF ScanConflict, CanScan, TypeOK
  <2>4. CASE ScanPlace
    BY <1>1, <1>2, <2>1, <2>4 DEF ScanPlace, CanScan, TypeOK
  <2>5. QED
    BY <1>9, <2>3, <2>4
<1>10. CASE ScanEnd
  BY <1>1, <1>2, <1>10 DEF ScanEnd, TypeOK
<1>11. CASE SeedAssigned
  BY <1>1, <1>2, <1>11 DEF SeedAssigned, TypeOK
<1>12. CASE SeedFound
  BY <1>1, <1>2, <1>12 DEF SeedFound, TypeOK
<1>13. CASE UNCHANGED batchVars
  BY <1>1, <1>13 DEF batchVars, input, TypeOK
<1>14. QED
  BY <1>3, <1>4, <1>5, <1>6, <1>7, <1>8, <1>9, <1>10, <1>11, <1>12, <1>13
     DEF BatchNext, Step, Returned

(* The types hold at first. *)
LEMMA TypeInit == BatchInit => TypeOK
BY SchedulerAssumption DEF BatchInit, TypeOK, Unassigned

(* The scheduler's state is well typed for every list of nets. *)
THEOREM TypeCorrect == BatchSpec => []TypeOK
<1>1. QED
  BY TypeInit, TypeStep, PTL DEF BatchSpec
----------------------------------------------------------------------------
(* The invariant holds at first. *)
LEMMA InvInit == BatchInit => IInv
<1> SUFFICES ASSUME BatchInit
             PROVE  IInv
  OBVIOUS
<1>1. TypeOK
  BY TypeInit
<1>2. \A p \in Pos : batchOf[p] = Unassigned
  BY DEF BatchInit
<1>3. OneThread
  BY <1>2 DEF BatchInit, OneThread, Assigned, Scheduling
<1>4. TreeInv
  BY <1>2 DEF BatchInit, TreeInv, Unassigned
<1>5. ScanInv
  BY <1>1, <1>2 DEF BatchInit, ScanInv, TypeOK, Pos
<1>6. NonEmpty
  BY DEF BatchInit, NonEmpty
<1>7. ConflictFree /\ OrderEq
  BY <1>2 DEF ConflictFree, Concurrent, OrderEq
<1>8. QED
  BY <1>1, <1>3, <1>4, <1>5, <1>6, <1>7 DEF IInv

(* With one thread all nets are put into one batch at once. *)
LEMMA OneThreadStep ==
  ASSUME IInv, [BatchNext]_batchVars
  PROVE  OneThread'
<1> USE DEF IInv, OneThread, Assigned, Scheduling
<1>1. numofThreads' = numofThreads /\ Pos' = Pos
  BY InputFixed
<1>2. CASE SingleBatch
  BY <1>1, <1>2 DEF SingleBatch
<1>3. CASE Schedule
  BY <1>1, <1>3 DEF Schedule
<1>4. CASE NewBatch \/ Done
  BY <1>1, <1>4 DEF NewBatch, Done
<1>5. CASE ScanAssigned \/ ScanBreak \/ ScanConflict \/ ScanPlace \/ ScanEnd
  BY <1>1, <1>5 DEF ScanAssigned, ScanBreak, ScanConflict, ScanPlace, ScanEnd, CanScan
<1>6. CASE SeedAssigned \/ SeedFound
  BY <1>1, <1>6 DEF SeedAssigned, SeedFound
<1>7. CASE UNCHANGED batchVars
  BY <1>1, <1>7 DEF batchVars
<1>8. QED
  BY <1>2, <1>3, <1>4, <1>5, <1>6, <1>7 DEF BatchNext, Step, Returned

(* What the several-thread steps are, once the one-thread step is out. *)
LEMMA ThreadedStep ==
  ASSUME numofThreads # 1, [BatchNext]_batchVars
  PROVE  \/ Schedule \/ NewBatch \/ Done
         \/ ScanAssigned \/ ScanBreak \/ ScanConflict \/ ScanPlace \/ ScanEnd
         \/ SeedAssigned \/ SeedFound \/ UNCHANGED batchVars
BY DEF BatchNext, Step, Returned, SingleBatch

(* The R-tree keeps holding the nets of the batch being filled. *)
LEMMA TreeStep ==
  ASSUME TypeOK, TreeInv, numofThreads # 1, [BatchNext]_batchVars
  PROVE  TreeInv'
<1>1. Pos' = Pos
  BY InputFixed
<1>2. CASE NewBatch
  <2>1. numBatches' = numBatches + 1 /\ rtree' = {} /\ batchOf' = batchOf
    BY <1>2 DEF NewBatch
  <2>2. \A p \in Pos : batchOf[p] \in Nat /\ batchOf[p] <= numBatches
    BY DEF TypeOK, TreeInv
  <2>3. numBatches \in Nat
    BY DEF TypeOK
  <2>4. QED
    BY <1>1, <2>1, <2>2, <2>3 DEF TreeInv
<1>3. CASE ScanPlace
  <2>1. /\ pc = "scan" /\ pc' = pc /\ i \in Pos
        /\ batchOf' = [batchOf EXCEPT ![i] = numBatches]
        /\ rtree' = rtree \cup {i} /\ numBatches' = numBatches
    BY <1>3 DEF ScanPlace, CanScan, AtEnd, Pos, TypeOK
  <2>2. \A p \in Pos : batchOf'[p] = IF p = i THEN numBatches ELSE batchOf[p]
    BY <2>1 DEF TypeOK
  <2>3. numBatches \in Nat
    BY DEF TypeOK
  <2>4. QED
    BY <1>1, <2>1, <2>2, <2>3 DEF TreeInv
<1>4. CASE Schedule \/ Done \/ SeedFound \/ SeedAssigned \/ UNCHANGED batchVars
  BY <1>1, <1>4 DEF Schedule, Done, SeedFound, SeedAssigned, batchVars, TreeInv
<1>5. CASE ScanAssigned \/ ScanBreak \/ ScanConflict \/ ScanEnd
  BY <1>1, <1>5 DEF ScanAssigned, ScanBreak, ScanConflict, ScanEnd, CanScan, TreeInv
<1>6. QED
  BY <1>2, <1>3, <1>4, <1>5, ThreadedStep

(* The nets a scan has passed are placed or wait for the next batch. *)
LEMMA ScanStep ==
  ASSUME TypeOK, OneThread, TreeInv, ScanInv, numofThreads # 1, [BatchNext]_batchVars
  PROVE  ScanInv'
<1> USE DEF AtEnd
<1>1. Pos' = Pos /\ numNets' = numNets /\ box' = box
  BY InputFixed
<1>2. \A p \in Pos : Metric(p) \in Int /\ Metric(p) <= INT_MAX /\ Metric(p)' = Metric(p)
  BY MetricBound, <1>1 DEF Metric
<1>3. numNets \in Nat /\ lastUnroute \in Nat /\ i \in Nat /\ lastMetric \in Int
  BY DEF TypeOK
<1>4. \A p : p \in Pos <=> p \in Nat /\ p < numNets
  BY <1>3 DEF Pos
<1>5. CASE Schedule
  BY <1>1, <1>3, <1>4, <1>5 DEF Schedule, ScanInv, OneThread, Assigned
<1>6. CASE NewBatch
  BY <1>1, <1>2, <1>3, <1>4, <1>6 DEF NewBatch, ScanInv, Assigned
<1>7. CASE Done
  BY <1>1, <1>7 DEF Done, ScanInv, Assigned
<1>8. CASE ScanAssigned
  <2>1. /\ pc = "scan" /\ pc' = pc /\ i < numNets /\ Assigned(i) /\ i' = i + 1
        /\ UNCHANGED <<batchOf, rtree, lastUnroute, lastMetric>>
    BY <1>3, <1>8 DEF ScanAssigned, Assigned
  <2>2. i # lastUnroute
    BY <2>1 DEF ScanInv
  <2>3. QED
    BY <1>1, <1>2, <1>3, <1>4, <2>1, <2>2 DEF ScanInv, Assigned
<1>9. CASE ScanBreak
  <2>1. /\ pc = "scan" /\ pc' = "seed" /\ i \in Pos /\ Metric(i) > lastMetric
        /\ UNCHANGED <<batchOf, rtree, lastUnroute>>
    BY <1>3, <1>4, <1>9 DEF ScanBreak, CanScan
  <2>2. i # lastUnroute
    BY <1>2, <2>1, SchedulerAssumption DEF ScanInv
  <2>3. QED
    BY <1>1, <1>3, <2>1, <2>2 DEF ScanInv, Assigned
<1>10. CASE ScanConflict
  <2>1. /\ pc = "scan" /\ pc' = pc /\ i \in Pos /\ Metric(i) <= lastMetric
        /\ rtree # {} /\ lastMetric' = Metric(i) /\ i' = i + 1
        /\ UNCHANGED <<batchOf, rtree, lastUnroute>>
    BY <1>3, <1>4, <1>10 DEF ScanConflict, CanScan, hasConflict
  <2>2. i # lastUnroute
    BY <2>1 DEF ScanInv
  <2>3. \A p \in Pos : p < i' => Assigned(p) \/ lastMetric' <= Metric(p)
    BY <1>2, <1>3, <1>4, <2>1 DEF ScanInv
  <2>4. QED
    BY <1>1, <1>2, <1>3, <1>4, <2>1, <2>2, <2>3 DEF ScanInv, Assigned
<1>11. CASE ScanPlace
  <2>1. /\ pc = "scan" /\ pc' = pc /\ i \in Pos
        /\ batchOf' = [batchOf EXCEPT ![i] = numBatches]
        /\ rtree' = rtree \cup {i} /\ i' = i + 1
        /\ UNCHANGED <<lastUnroute, lastMetric>>
    BY <1>3, <1>4, <1>11 DEF ScanPlace, CanScan
  <2>2. numBatches \in Nat /\ numBatches >= 1
    BY <2>1 DEF TreeInv, TypeOK
  <2>3. \A p \in Pos : Assigned(p) \/ p = i => Assigned(p)'
    BY <1>1, <2>1, <2>2 DEF TypeOK, Assigned, Unassigned
  <2>4. \A p \in Pos : p < i' => Assigned(p)' \/ lastMetric' <= Metric(p)'
    BY <1>2, <1>3, <1>4, <2>1, <2>3 DEF ScanInv
  <2>5. QED
    BY <1>1, <1>2, <1>3, <1>4, <2>1, <2>3, <2>4 DEF ScanInv
<1>12. CASE ScanEnd
  BY <1>1, <1>3, <1>12 DEF ScanEnd, ScanInv, Assigned
<1>13. CASE SeedAssigned
  BY <1>1, <1>3, <1>4, <1>13 DEF SeedAssigned, ScanInv, Assigned
<1>14. CASE SeedFound
  BY <1>1, <1>14 DEF SeedFound, ScanInv, Assigned
<1>15. CASE UNCHANGED batchVars
  BY <1>1, <1>2, <1>15 DEF batchVars, ScanInv, Assigned
<1>16. QED
  BY <1>5, <1>6, <1>7, <1>8, <1>9, <1>10, <1>11, <1>12, <1>13, <1>14, <1>15, ThreadedStep

(* A batch that was closed loses no net, and none is closed empty. *)
LEMMA NonEmptyStep ==
  ASSUME TypeOK, OneThread, TreeInv, ScanInv, NonEmpty, numofThreads # 1, [BatchNext]_batchVars
  PROVE  NonEmpty'
<1>1. Pos' = Pos /\ numNets' = numNets
  BY InputFixed
<1>2. numBatches \in Nat
  BY DEF TypeOK
<1>3. CASE Schedule \/ Done \/ SeedFound \/ SeedAssigned \/ UNCHANGED batchVars
  <2>1. CASE Schedule
    BY <1>1, <1>2, <2>1 DEF Schedule, NonEmpty, OneThread
  <2>2. QED
    BY <1>1, <1>3, <2>1 DEF Done, SeedFound, SeedAssigned, batchVars, NonEmpty, AtEnd
<1>4. CASE NewBatch
  BY <1>1, <1>2, <1>4 DEF NewBatch, NonEmpty
<1>5. CASE ScanAssigned \/ ScanConflict
  BY <1>1, <1>5 DEF ScanAssigned, ScanConflict, CanScan, NonEmpty
<1>6. CASE ScanPlace
  <2>1. /\ pc = "scan" /\ pc' = pc /\ i \in Pos /\ numBatches' = numBatches
        /\ batchOf' = [batchOf EXCEPT ![i] = numBatches] /\ batchOf[i] = Unassigned
    BY <1>6 DEF ScanPlace, CanScan, AtEnd, Pos, TypeOK
  <2>2. \A p \in Pos : p # i => batchOf'[p] = batchOf[p]
    BY <2>1 DEF TypeOK
  <2>3. \A k \in 1 .. numBatches : k < numBatches => \E p \in Pos : p # i /\ batchOf[p] = k
    BY <1>2, <2>1 DEF NonEmpty, Unassigned
  <2>4. QED
    BY <1>1, <2>1, <2>2, <2>3 DEF NonEmpty
<1>7. CASE ScanBreak \/ ScanEnd
  <2>1. /\ pc = "scan" /\ pc' = "seed" /\ UNCHANGED <<batchOf, numBatches, rtree>>
    BY <1>7 DEF ScanBreak, ScanEnd, CanScan
  <2>2. rtree' # {}
    BY <1>7, ScanStep, <2>1 DEF ScanInv
  <2>3. \E p \in Pos : batchOf[p] = numBatches
    BY <2>1, <2>2 DEF TreeInv
  <2>4. QED
    BY <1>1, <1>2, <2>1, <2>3 DEF NonEmpty
<1>8. QED
  BY <1>3, <1>4, <1>5, <1>6, <1>7, ThreadedStep
----------------------------------------------------------------------------
(* The one step that schedules a net: what it changes. *)
LEMMA PlaceFacts ==
  ASSUME TypeOK, TreeInv, numofThreads # 1, [BatchNext]_batchVars
  PROVE  \/ UNCHANGED <<box, batchOf>> /\ Pos' = Pos
         \/ /\ i \in Pos /\ pc = "scan" /\ Metric(i) <= lastMetric
            /\ batchOf[i] = Unassigned
            /\ \A q \in rtree : q # i => ~Intersects(box[q], box[i])
            /\ numBatches \in Nat /\ numBatches >= 1
            /\ box' = box /\ Pos' = Pos
            /\ \A p \in Pos : batchOf'[p] = IF p = i THEN numBatches ELSE batchOf[p]
<1>1. box' = box /\ Pos' = Pos
  BY InputFixed
<1>2. CASE ScanPlace
  <2>1. /\ i \in Pos /\ pc = "scan" /\ Metric(i) <= lastMetric /\ ~hasConflict(i)
        /\ batchOf[i] = Unassigned
        /\ batchOf' = [batchOf EXCEPT ![i] = numBatches]
    BY <1>2 DEF ScanPlace, CanScan, AtEnd, Pos, TypeOK
  <2>2. numBatches \in Nat /\ numBatches >= 1
    BY <2>1 DEF TreeInv, TypeOK
  <2>3. \A q \in rtree : q # i => ~Intersects(box[q], box[i])
    BY <2>1 DEF hasConflict
  <2>4. \A p \in Pos : batchOf'[p] = IF p = i THEN numBatches ELSE batchOf[p]
    BY <2>1 DEF TypeOK
  <2>5. QED
    BY <1>1, <2>1, <2>2, <2>3, <2>4
<1>3. CASE ~ScanPlace
  <2>1. batchOf' = batchOf
    BY <1>3, ThreadedStep DEF Schedule, NewBatch, Done, ScanAssigned, ScanBreak,
       ScanConflict, ScanEnd, CanScan, SeedAssigned, SeedFound, batchVars
  <2>2. QED
    BY <1>1, <2>1
<1>4. QED
  BY <1>2, <1>3

(* A net placed meets no box of its batch. *)
LEMMA ConflictStep ==
  ASSUME TypeOK, TreeInv, ConflictFree, numofThreads # 1, [BatchNext]_batchVars
  PROVE  ConflictFree'
<1>1. CASE UNCHANGED <<box, batchOf>> /\ Pos' = Pos
  BY <1>1 DEF ConflictFree, Concurrent
<1>2. CASE /\ i \in Pos /\ pc = "scan" /\ batchOf[i] = Unassigned
           /\ \A q \in rtree : q # i => ~Intersects(box[q], box[i])
           /\ box' = box /\ Pos' = Pos
           /\ \A p \in Pos : batchOf'[p] = IF p = i THEN numBatches ELSE batchOf[p]
  <2>1. rtree = {p \in Pos : batchOf[p] = numBatches}
    BY <1>2 DEF TreeInv
  <2> SUFFICES ASSUME NEW p \in Pos, NEW q \in Pos, Concurrent(p, q)'
               PROVE  ~Intersects(box[p], box[q])
    BY <1>2 DEF ConflictFree
  <2>2. p # q /\ batchOf'[p] # Unassigned /\ batchOf'[p] = batchOf'[q]
    BY DEF Concurrent
  <2>3. CASE p # i /\ q # i
    BY <1>2, <2>2, <2>3 DEF ConflictFree, Concurrent
  <2>4. CASE p = i
    <3>1. q \in rtree /\ q # i
      BY <1>2, <2>1, <2>2, <2>4
    <3>2. QED
      BY <1>2, <2>4, <3>1, IntersectsSymmetric
  <2>5. CASE q = i
    <3>1. p \in rtree /\ p # i
      BY <1>2, <2>1, <2>2, <2>5
    <3>2. QED
      BY <1>2, <2>5, <3>1
  <2>6. QED
    BY <2>3, <2>4, <2>5
<1>3. QED
  BY <1>1, <1>2, PlaceFacts

(* A net put into a batch leaves no smaller one before it behind. *)
LEMMA OrderStep ==
  ASSUME TypeOK, TreeInv, ScanInv, OrderEq, numofThreads # 1, [BatchNext]_batchVars
  PROVE  OrderEq'
<1>1. CASE UNCHANGED <<box, batchOf>> /\ Pos' = Pos
  BY <1>1 DEF OrderEq, Metric
<1>2. CASE /\ i \in Pos /\ pc = "scan" /\ Metric(i) <= lastMetric
           /\ batchOf[i] = Unassigned
           /\ \A q \in rtree : q # i => ~Intersects(box[q], box[i])
           /\ numBatches \in Nat /\ numBatches >= 1
           /\ box' = box /\ Pos' = Pos
           /\ \A p \in Pos : batchOf'[p] = IF p = i THEN numBatches ELSE batchOf[p]
  <2> SUFFICES ASSUME NEW p \in Pos, NEW q \in Pos, p < q, Metric(p) < Metric(q),
                      batchOf'[q] # Unassigned
               PROVE  /\ batchOf'[p] # Unassigned
                      /\ batchOf'[p] <= batchOf'[q]
                      /\ Intersects(box[p], box[q]) => batchOf'[p] < batchOf'[q]
    BY <1>2 DEF OrderEq, Metric
  <2>1. /\ rtree = {r \in Pos : batchOf[r] = numBatches}
        /\ \A r \in Pos : batchOf[r] \in Nat /\ batchOf[r] <= numBatches
    BY <1>2 DEF TreeInv, TypeOK
  <2>2. p \in Int /\ q \in Int /\ p # q
    BY DEF Pos, TypeOK
  <2>3. CASE q = i
    <3>1. Metric(p) \in Int /\ Metric(q) \in Int /\ lastMetric \in Int
      BY MetricBound DEF TypeOK
    <3>2. batchOf[p] # Unassigned
      BY <1>2, <2>3, <3>1 DEF ScanInv, Assigned
    <3>3. batchOf'[p] = batchOf[p] /\ batchOf'[q] = numBatches
      BY <1>2, <2>2, <2>3
    <3>4. Intersects(box[p], box[q]) => batchOf[p] # numBatches
      BY <1>2, <2>1, <2>2, <2>3
    <3>5. QED
      BY <1>2, <2>1, <3>2, <3>3, <3>4
  <2>4. CASE q # i
    <3>1. batchOf'[q] = batchOf[q] /\ batchOf[q] # Unassigned
      BY <1>2, <2>4
    <3>2. /\ batchOf[p] # Unassigned /\ batchOf[p] <= batchOf[q]
          /\ Intersects(box[p], box[q]) => batchOf[p] < batchOf[q]
      BY <3>1 DEF OrderEq
    <3>3. batchOf'[p] = batchOf[p]
      BY <1>2, <3>2
    <3>4. QED
      BY <3>1, <3>2, <3>3
  <2>5. QED
    BY <2>3, <2>4
<1>3. QED
  BY <1>1, <1>2, PlaceFacts

(* IInv is an inductive invariant. *)
THEOREM Invariant == BatchSpec => []IInv
<1>1. IInv /\ [BatchNext]_batchVars => IInv'
  <2> SUFFICES ASSUME IInv, [BatchNext]_batchVars
               PROVE  IInv'
    OBVIOUS
  <2>1. TypeOK' /\ OneThread' /\ numofThreads' = numofThreads
    BY TypeStep, OneThreadStep, InputFixed DEF IInv
  <2>2. ASSUME numofThreads # 1
        PROVE  TreeInv' /\ ScanInv' /\ NonEmpty' /\ ConflictFree' /\ OrderEq'
    BY <2>2, TreeStep, ScanStep, NonEmptyStep, ConflictStep, OrderStep DEF IInv
  <2>3. QED
    BY <2>1, <2>2 DEF IInv
<1>2. QED
  BY InvInit, <1>1, PTL DEF BatchSpec

(* Nets of one batch never meet, whatever the boxes and their order: the   *)
(* jobs that run concurrently write disjoint parts of the grid graph, as   *)
(* far as they stay inside their boxes.                                    *)
THEOREM BatchesConflictFree == BatchSpec => []ConflictFree
<1>1. IInv => ConflictFree
  BY DEF IInv, ConflictFree, Concurrent
<1>2. QED
  BY Invariant, <1>1, PTL

(* No net overtakes a smaller one that the list puts before it.            *)
THEOREM OrderKept == BatchSpec => []OrderEq
<1>1. IInv => OrderEq
  BY DEF IInv, OrderEq
<1>2. QED
  BY Invariant, <1>1, PTL

(* Every net is in exactly one of the returned batches, none of them empty. *)
THEOREM EveryNetScheduled == BatchSpec => []AllScheduled
<1>1. IInv => AllScheduled
  <2> SUFFICES ASSUME IInv, pc = "done"
               PROVE  /\ \A p \in Pos : batchOf[p] \in 1 .. numBatches
                      /\ numofThreads # 1 =>
                           \A k \in 1 .. numBatches : \E p \in Pos : batchOf[p] = k
    BY DEF AllScheduled
  <2>1. numBatches \in Nat /\ \A p \in Pos : batchOf[p] \in Nat
    BY DEF IInv, TypeOK
  <2>2. CASE numofThreads = 1
    BY <2>1, <2>2 DEF IInv, OneThread
  <2>3. CASE numofThreads # 1
    <3>1. \A p \in Pos : p < lastUnroute
      BY <2>3 DEF IInv, NonEmpty, AtEnd, Pos, TypeOK
    <3>2. \A p \in Pos : batchOf[p] # Unassigned /\ batchOf[p] <= numBatches
      BY <2>3, <3>1 DEF IInv, ScanInv, TreeInv, Assigned
    <3>3. \A k \in 1 .. numBatches : \E p \in Pos : batchOf[p] = k
      BY <2>3 DEF IInv, NonEmpty
    <3>4. QED
      BY <2>1, <2>3, <3>2, <3>3 DEF Unassigned
  <2>4. QED
    BY <2>2, <2>3
<1>2. QED
  BY Invariant, <1>1, PTL

-----------------------------------------------------------------------------
(* Part 2: GPURouter.                                                      *)

-----------------------------------------------------------------------------
(* Helpers of the model.                                                   *)

(* The value of a set of one is its element. *)
LEMMA OnlyOne == \A v : Only({v}) = v
BY DEF Only

(* The least element of a nonempty set of numbers is one of it. *)
LEMMA MinElement ==
  ASSUME NEW S, S \subseteq Nat, S # {}
  PROVE  Min(S) \in S /\ \A m \in S : Min(S) <= m
<1>1. \E n \in S : \A m \in S : n <= m
  BY LeastNumber, Zenon
<1>2. QED
  BY <1>1, Zenon DEF Min

(* A record of the router of one net. *)
NetState(net) ==
  /\ net = [pins |-> net.pins, routed |-> net.routed, mark |-> net.mark, routes |-> net.routes]
  /\ IsFiniteSet(DOMAIN net.routes)

(* One pass of a pin adds finitely many routes. *)
LEMMA ConnectShape ==
  ASSUME NEW net, NEW even, NEW odd, NEW numTurns \in Nat, NetState(net)
  PROVE  /\ NetState(Connect(net, even, odd, numTurns))
         /\ Connect(net, even, odd, numTurns).pins = net.pins
<1> DEFINE s == Turns(even, odd, net.mark, numTurns)
           found == Nearest([c \in DOMAIN even |-> s[numTurns][c].dist], net.pins, net.routed)
           pin == CHOOSE q \in found : TRUE
           way == Way(s, numTurns, net.pins[pin])
           new == Traced(net, pin, even, odd, way, numTurns)
<1>1. Connect(net, even, odd, numTurns) = IF found = {} THEN net ELSE new
  BY OnlyOne, ZenonT(30) DEF Connect, Connected
<1>2. NetState(new) /\ new.pins = net.pins
  <2> HIDE DEF pin, way
  <2> DEFINE moved == Moved(way, numTurns)
             keys == {pin} \X moved
  <2>1. IsFiniteSet(keys)
    <3>1. moved \subseteq 0 .. numTurns - 1
      BY DEF Moved
    <3>2. IsFiniteSet(moved)
      <4> HIDE DEF moved
      <4>1. IsFiniteSet(0 .. numTurns - 1)
        BY FS_Interval
      <4>2. QED
        BY <3>1, <4>1, FS_Subset, Zenon
    <3>3. QED
      BY <3>2, FS_Singleton, FS_Product, Zenon
  <2>2. DOMAIN new.routes = DOMAIN net.routes \cup keys
    BY DEF Traced
  <2>3. IsFiniteSet(DOMAIN new.routes)
    <3> HIDE DEF keys, new
    <3>1. QED
      BY <2>1, <2>2, FS_Union, Zenon DEF NetState
  <2>4. new = [pins |-> new.pins, routed |-> new.routed, mark |-> new.mark, routes |-> new.routes]
        /\ new.pins = net.pins
    BY DEF Traced
  <2>5. QED
    <3> HIDE DEF keys, new
    <3>1. QED
      BY <2>3, <2>4 DEF NetState
<1>3. QED
  <2> HIDE DEF found, new
  <2>1. QED
    BY <1>1, <1>2
-----------------------------------------------------------------------------
(* The demands of the device.                                              *)

NetsInv ==
  /\ problem \in Problems
  /\ routes = [n \in Nets |-> routes[n]]
  /\ \A n \in Nets : IsFiniteSet(DOMAIN routes[n])
  /\ todo \subseteq Nets /\ isOverflow \subseteq Nets
  /\ phase = "ripup" => todo = isOverflow /\ work = Idle
  /\ work # Idle =>
       /\ phase = "route"
       /\ work = [net |-> work.net, boxes |-> work.boxes, round |-> work.round, fine |-> work.fine]
       /\ work.net \in todo
       /\ NetState(work.fine)

DemandInv == NetsInv /\ devDemand \in [Edges -> Int] /\ DeviceDemandExact

(* The nets are numbered, and their trees are sequences. *)
LEMMA NetsFinite ==
  ASSUME problem \in Problems
  PROVE  /\ Nets \subseteq Nat \ {0} /\ IsFiniteSet(Nets)
         /\ \A n \in Nets : /\ problem.nets[n] \in NetRecord
                            /\ problem.nets[n].tree.pairs \in Seq([u : Points, v : Points])
                            /\ IsFiniteSet(DOMAIN problem.nets[n].tree.pairs)
                            /\ problem.nets[n].tree.root \in Points
<1>1. problem.nets \in Seq(NetRecord)
  BY ProblemsAssumption
<1> DEFINE len == Len(problem.nets)
<1>2. Nets = 1 .. len /\ len \in Nat
  BY <1>1 DEF Nets
<1>3. IsFiniteSet(Nets)
  BY <1>2, FS_Interval
<1>4. ASSUME NEW n \in Nets
      PROVE  /\ problem.nets[n] \in NetRecord
             /\ problem.nets[n].tree.pairs \in Seq([u : Points, v : Points])
             /\ IsFiniteSet(DOMAIN problem.nets[n].tree.pairs)
             /\ problem.nets[n].tree.root \in Points
  <2>1. problem.nets[n] \in NetRecord
    BY <1>1, <1>2
  <2>2. /\ problem.nets[n].tree.pairs \in Seq([u : Points, v : Points])
        /\ problem.nets[n].tree.root \in Points
    BY <2>1 DEF NetRecord
  <2>3. DOMAIN problem.nets[n].tree.pairs = 1 .. Len(problem.nets[n].tree.pairs)
    BY <2>2
  <2>4. Len(problem.nets[n].tree.pairs) \in Nat
    BY <2>2, SMTT(20)
  <2>5. QED
    BY <2>1, <2>2, <2>3, <2>4, FS_Interval
<1>5. Nets \subseteq Nat \ {0}
  <2> HIDE DEF len
  <2>1. QED
    BY <1>2
<1>6. QED
  BY <1>3, <1>4, <1>5, Zenon

(* What a route takes of an edge is a number. *)
LEMMA DevDemandType == \A s, e : DevDemand(s, e) \in Nat
<1> TAKE s, e
<1>1. DevViaDemand(s, e[1]) \in {1, 2} /\ NonStackDemand(e[1], s.u.c) \in {1, 2}
  BY DEF DevViaDemand, NonStackDemand
<1>2. DevViaDemand(s, e[1]) * NonStackDemand(e[1], s.u.c) \in Nat
  BY <1>1
<1>3. QED
  BY <1>2 DEF DevDemand

(* So is what the routes of a net take. *)
LEMMA DevUsageType ==
  ASSUME NEW r, IsFiniteSet(DOMAIN r), NEW e
  PROVE  DevUsage(r, e) \in Nat
<1> DEFINE f == [k \in DOMAIN r |-> DevDemand(r[k], e)]
<1>1. DOMAIN f = DOMAIN r /\ \A k \in DOMAIN f : f[k] \in Nat
  BY DevDemandType
<1>2. SumFunction(f) \in Nat
  <2> HIDE DEF f
  <2>1. QED
    BY <1>1, SumType
<1>3. QED
  BY <1>2 DEF DevUsage

(* And what the pairs of a tree take. *)
LEMMA UsageNumber ==
  ASSUME NEW pairs, IsFiniteSet(DOMAIN pairs), NEW e
  PROVE  Usage(pairs, e) \in Nat
<1> DEFINE f == [k \in DOMAIN pairs |->
                   IF e \in SegmentEdges(pairs[k]) THEN SegmentDemand(pairs[k], e) ELSE 0]
<1>1. DOMAIN f = DOMAIN pairs /\ \A k \in DOMAIN f : f[k] \in Nat
  BY DEF SegmentDemand, NonStackDemand
<1>2. SumFunction(f) \in Nat
  <2> HIDE DEF f
  <2>1. QED
    BY <1>1, SumType
<1>3. QED
  BY <1>2 DEF Usage

(* The sum over some nets of what their routes take. *)
LEMMA RoutesSum ==
  ASSUME NEW nets, IsFiniteSet(nets), NEW r, \A n \in nets : IsFiniteSet(DOMAIN r[n]), NEW e
  PROVE  SumFunction([n \in nets |-> DevUsage(r[n], e)]) \in Nat
<1> DEFINE f == [n \in nets |-> DevUsage(r[n], e)]
<1>1. DOMAIN f = nets /\ \A n \in DOMAIN f : f[n] \in Nat
  BY DevUsageType
<1>2. SumFunction(f) \in Nat
  <2> HIDE DEF f
  <2>1. QED
    BY <1>1, SumType
<1>3. QED
  BY <1>2

(* And of what their first trees take. *)
LEMMA FirstTreesSum ==
  ASSUME problem \in Problems, NEW e
  PROVE  SumFunction([n \in Nets |-> Usage(problem.nets[n].tree.pairs, e)]) \in Nat
<1> DEFINE f == [n \in Nets |-> Usage(problem.nets[n].tree.pairs, e)]
<1>1. DOMAIN f = Nets /\ \A n \in DOMAIN f : f[n] \in Nat
  BY NetsFinite, UsageNumber
<1>2. SumFunction(f) \in Nat
  <2> HIDE DEF f
  <2>1. QED
    BY <1>1, NetsFinite, SumType
<1>3. QED
  BY <1>2

(* The constructor puts the same trees on the host and the device. *)
LEMMA DemandInit == Init => DemandInv
<1> SUFFICES ASSUME Init
             PROVE  DemandInv
  OBVIOUS
<1>0. problem \in Problems
  BY Zenon DEF Init
<1>1. /\ routes = [n \in Nets |-> FirstRoutes(n)]
      /\ \A n \in Nets : tree[n] = problem.nets[n].tree
  BY Zenon DEF Init, FirstRoutes
<1>2. \A n \in Nets : IsFiniteSet(DOMAIN routes[n])
  BY <1>0, <1>1, NetsFinite DEF FirstRoutes
<1>3. isOverflow \subseteq Nets
  BY Zenon DEF Init, markOverflowNet
<1>4. NetsInv
  BY <1>0, <1>1, <1>2, <1>3, Zenon DEF Init, NetsInv
<1>5. ASSUME NEW e \in Edges
      PROVE  /\ devDemand[e] = SumFunction([n \in Nets |-> Usage(problem.nets[n].tree.pairs, e)])
             /\ devDemand[e] \in Nat
             /\ SumFunction([n \in Nets |-> DevUsage(routes[n], e)])
                  = SumFunction([n \in Nets |-> DevUsage(FirstRoutes(n), e)])
             /\ SumFunction([n \in Nets |-> DevUsage(routes[n], e)]) \in Nat
  <2>1. [n \in Nets |-> Usage(tree[n].pairs, e)] = [n \in Nets |-> Usage(problem.nets[n].tree.pairs, e)]
    BY <1>1
  <2>0. devDemand[e] = SumFunction([n \in Nets |-> Usage(tree[n].pairs, e)])
    BY Zenon DEF Init
  <2>2. devDemand[e] = SumFunction([n \in Nets |-> Usage(problem.nets[n].tree.pairs, e)])
    BY <2>0, <2>1
  <2>3. [n \in Nets |-> DevUsage(routes[n], e)] = [n \in Nets |-> DevUsage(FirstRoutes(n), e)]
    BY <1>1
  <2>6. SumFunction([n \in Nets |-> DevUsage(routes[n], e)]) \in Nat
    BY <1>0, <1>2, NetsFinite, RoutesSum, Zenon
  <2>7. SumFunction([n \in Nets |-> Usage(problem.nets[n].tree.pairs, e)]) \in Nat
    BY <1>0, FirstTreesSum
  <2>8. QED
    BY <2>2, <2>3, <2>6, <2>7
<1>6. placed = Nets
  BY Zenon DEF Init, placed
<1>7. devDemand \in [Edges -> Int]
  <2>1. devDemand = [e \in Edges |-> devDemand[e]] /\ \A e \in Edges : devDemand[e] \in Int
    <3>1. devDemand = [e \in Edges |-> devDemand[e]]
      BY Zenon DEF Init
    <3>2. \A e \in Edges : devDemand[e] \in Nat
      BY <1>5, Zenon
    <3>3. QED
      BY <3>1, <3>2
  <2>2. QED
    BY <2>1
<1>8. DeviceDemandExact
  BY <1>5, <1>6 DEF DeviceDemandExact
<1>9. QED
  BY <1>4, <1>7, <1>8 DEF DemandInv

(* The steps that change neither demands, routes, nor whose are placed. *)
LEMMA DemandKept ==
  ASSUME DemandInv, UNCHANGED <<problem, devDemand, routes>>, placed' = placed
  PROVE  DeviceDemandExact'
BY Zenon DEF DemandInv, DeviceDemandExact, FirstRoutes, Nets

(* Every action keeps what NetsInv says. *)
LEMMA NetsStep == NetsInv /\ [Next]_vars => NetsInv'
<1> SUFFICES ASSUME NetsInv, [Next]_vars
             PROVE  NetsInv'
  OBVIOUS
<1> USE DEF NetsInv
<1>0. Nets' = Nets /\ problem' \in Problems
  BY DEF Next, vars, RipUp, Prepare, RoutePin, CommitNet, MarkOverflow, Apply, Write, Finished, Nets
<1>1. CASE RipUp
  BY <1>0, <1>1 DEF RipUp
<1>2. CASE Prepare
  <2>1. Min(todo) \in todo
    BY <1>2, NetsFinite, MinElement, Zenon DEF Prepare
  <2>2. PICK boxes, order : work' = [net |-> Min(todo), boxes |-> boxes, round |-> 1,
                                      fine |-> Unrouted(order)]
    BY <1>2, Zenon DEF Prepare
  <2>3. NetState(Unrouted(order))
    BY FS_EmptySet DEF NetState, Unrouted
  <2>4. UNCHANGED <<routes, todo, isOverflow, phase>> /\ phase = "route"
    BY <1>2 DEF Prepare
  <2>5. QED
    BY <1>0, <2>1, <2>2, <2>3, <2>4
<1>3. CASE RoutePin
  <2> DEFINE points == {[l |-> l, c |-> c] : l \in Layers, c \in GuideCells(work.boxes)}
             vias == [p \in points |-> ViaSegment(p)]
             wires == [p \in points |-> Wire(work.boxes, p)]
             fine == Connect(work.fine, vias, wires, FineTurns)
  <2>1. work' = [work EXCEPT !.round = @ + 1, !.fine = fine] /\ work # Idle
    BY <1>3 DEF RoutePin
  <2>2. NetState(fine)
    BY <2>1, TurnsAssumption, ConnectShape
  <2>3. UNCHANGED <<routes, todo, isOverflow, phase>>
    BY <1>3 DEF RoutePin
  <2> HIDE DEF fine
  <2>4. work' = [net |-> work.net, boxes |-> work.boxes, round |-> work.round + 1, fine |-> fine]
    BY <2>1, Zenon
  <2>5. QED
    BY <1>0, <2>1, <2>2, <2>3, <2>4, Zenon
<1>4. CASE CommitNet
  <2> DEFINE r == [k \in DOMAIN work.fine.routes |->
                     Ordered(work.fine.routes[k][1], work.fine.routes[k][2])]
  <2>1. /\ routes' = [routes EXCEPT ![work.net] = r]
        /\ work' = Idle /\ todo' = todo \ {work.net} /\ work # Idle
        /\ UNCHANGED <<isOverflow, phase>>
    BY <1>4 DEF CommitNet
  <2>2. IsFiniteSet(DOMAIN r)
    BY <2>1 DEF NetState
  <2> HIDE DEF r
  <2>3. \A n \in Nets : IsFiniteSet(DOMAIN routes'[n])
    BY <2>1, <2>2
  <2>4. QED
    BY <1>0, <2>1, <2>3
<1>5. CASE MarkOverflow
  <2>1. isOverflow' \subseteq Nets
    BY <1>5 DEF MarkOverflow, markOverflowNet
  <2>2. QED
    BY <1>0, <1>5, <2>1 DEF MarkOverflow
<1>6. CASE Apply
  <2>1. /\ todo' \subseteq todo /\ phase = "apply"
        /\ UNCHANGED <<routes, isOverflow, work, phase>>
    BY <1>6 DEF Apply
  <2>2. QED
    BY <1>0, <2>1
<1>7. CASE Write
  BY <1>0, <1>7 DEF Write
<1>8. CASE UNCHANGED vars
  BY <1>0, <1>8 DEF vars
<1>9. QED
  BY <1>1, <1>2, <1>3, <1>4, <1>5, <1>6, <1>7, <1>8 DEF Next, Finished

(* The rip-up takes away what the routes of the ripped nets take. *)
LEMMA DemandRipUp ==
  ASSUME DemandInv, RipUp
  PROVE  devDemand' \in [Edges -> Int] /\ DeviceDemandExact'
<1> DEFINE rest == Nets \ todo
           Ripping(e) == SumFunction([n \in todo |-> DevUsage(routes[n], e)])
           Keeping(e) == SumFunction([n \in rest |-> DevUsage(routes[n], e)])
           All(e) == SumFunction([n \in Nets |-> DevUsage(routes[n], e)])
<1>1. /\ devDemand' = Ripped(devDemand, todo, routes)
      /\ placed = Nets /\ placed' = rest
      /\ UNCHANGED <<problem, routes>> /\ Nets' = Nets
  BY DEF DemandInv, NetsInv, RipUp, placed, Nets
<1>2. devDemand \in [Edges -> Int] /\ DeviceDemandExact
  BY DEF DemandInv
<1>3. /\ IsFiniteSet(todo) /\ IsFiniteSet(rest) /\ todo \cap rest = {} /\ todo \cup rest = Nets
      /\ \A n \in Nets : IsFiniteSet(DOMAIN routes[n])
  BY NetsFinite, FS_Subset DEF DemandInv, NetsInv
<1> HIDE DEF rest
<1>4. ASSUME NEW e \in Edges
      PROVE  /\ devDemand'[e] = devDemand[e] - Ripping(e) /\ devDemand[e] \in Int
             /\ Ripping(e) \in Nat /\ Keeping(e) \in Nat
             /\ All(e) = Ripping(e) + Keeping(e)
  <2>1. devDemand'[e] = devDemand[e] - Ripping(e) /\ devDemand[e] \in Int
    BY <1>1, <1>2 DEF Ripped
  <2> DEFINE f == [n \in Nets |-> DevUsage(routes[n], e)]
             g == [n \in todo |-> DevUsage(routes[n], e)]
             h == [n \in rest |-> DevUsage(routes[n], e)]
  <2>2. \A n \in Nets : DevUsage(routes[n], e) \in Nat
    BY <1>3, DevUsageType
  <2>3. /\ DOMAIN g = todo /\ DOMAIN h = rest /\ DOMAIN f = DOMAIN g \cup DOMAIN h
        /\ DOMAIN g \cap DOMAIN h = {} /\ IsFiniteSet(DOMAIN g) /\ IsFiniteSet(DOMAIN h)
        /\ \A x \in DOMAIN g : g[x] \in Nat /\ f[x] = g[x]
        /\ \A x \in DOMAIN h : h[x] \in Nat /\ f[x] = h[x]
    BY <1>3, <2>2
  <2>4. /\ SumFunction(f) = SumFunction(g) + SumFunction(h)
        /\ SumFunction(g) \in Nat /\ SumFunction(h) \in Nat
    <3> HIDE DEF f, g, h
    <3>1. SumFunction(f) = SumFunction(g) + SumFunction(h)
      BY <2>3, SumSplit
    <3>2. SumFunction(g) \in Nat /\ SumFunction(h) \in Nat
      BY <2>3, SumType
    <3>3. QED
      BY <3>1, <3>2
  <2>5. QED
    BY <2>1, <2>4
<1> HIDE DEF Ripping, Keeping, All
<1>5. devDemand' \in [Edges -> Int]
  <2>1. devDemand' = [e \in Edges |-> devDemand'[e]]
    BY <1>1 DEF Ripped
  <2>2. \A e \in Edges : devDemand'[e] \in Int
    BY <1>4
  <2>3. QED
    BY <2>1, <2>2
<1>6. ASSUME NEW e \in Edges
      PROVE  devDemand'[e] - Keeping(e) = devDemand[e] - All(e)
  BY <1>4
<1>7. DeviceDemandExact'
  BY <1>1, <1>2, <1>6, Zenon DEF DeviceDemandExact, FirstRoutes, Keeping, All
<1>8. QED
  BY <1>5, <1>7

(* Committing a net adds what its new routes take. *)
LEMMA DemandCommit ==
  ASSUME DemandInv, CommitNet
  PROVE  devDemand' \in [Edges -> Int] /\ DeviceDemandExact'
<1> DEFINE r == [k \in DOMAIN work.fine.routes |->
                   Ordered(work.fine.routes[k][1], work.fine.routes[k][2])]
           n == work.net
<1>1. /\ work # Idle /\ phase = "route" /\ n \in todo /\ n \in Nets
      /\ routes' = [routes EXCEPT ![n] = r]
      /\ devDemand' = Committed(devDemand, r)
      /\ placed = Nets \ todo /\ placed' = placed \cup {n}
      /\ problem' = problem /\ Nets' = Nets
  BY DEF DemandInv, NetsInv, CommitNet, placed, Nets
<1>2. IsFiniteSet(DOMAIN r)
  BY <1>1 DEF DemandInv, NetsInv, NetState
<1> HIDE DEF r, n
<1>3. devDemand \in [Edges -> Int] /\ DeviceDemandExact
  BY DEF DemandInv
<1>4. ASSUME NEW e \in Edges
      PROVE  /\ devDemand'[e] = devDemand[e] + DevUsage(r, e)
             /\ DevUsage(r, e) \in Nat
             /\ SumFunction([m \in placed |-> DevUsage(routes[m], e)]) \in Nat
             /\ SumFunction([m \in placed' |-> DevUsage(routes'[m], e)])
                  = SumFunction([m \in placed |-> DevUsage(routes[m], e)]) + DevUsage(r, e)
  <2> DEFINE f == [m \in placed |-> DevUsage(routes[m], e)]
             g == [m \in placed' |-> DevUsage(routes'[m], e)]
  <2>1. devDemand'[e] = devDemand[e] + DevUsage(r, e)
    BY <1>1 DEF Committed
  <2>2. DevUsage(r, e) \in Nat
    BY <1>2, DevUsageType
  <2>3. IsFiniteSet(placed) /\ n \notin placed /\ placed \subseteq Nets
    BY <1>1, NetsFinite, FS_Subset DEF DemandInv, NetsInv
  <2>4. \A m \in placed : DevUsage(routes[m], e) \in Nat
    BY <2>3, DevUsageType DEF DemandInv, NetsInv
  <2>5. \A m \in placed : routes'[m] = routes[m]
    BY <1>1, <2>3 DEF DemandInv, NetsInv
  <2>6. routes'[n] = r
    BY <1>1 DEF DemandInv, NetsInv
  <2>7. /\ DOMAIN f = placed /\ DOMAIN g = placed \cup {n} /\ g[n] = DevUsage(r, e)
        /\ \A m \in placed : f[m] \in Nat /\ g[m] = f[m]
    BY <1>1, <2>4, <2>5, <2>6
  <2>8. SumFunction(f) \in Nat /\ SumFunction(g) = SumFunction(f) + DevUsage(r, e)
    <3> HIDE DEF f, g
    <3>1. QED
      BY <2>2, <2>3, <2>7, SumAdd, SumType
  <2>9. QED
    BY <2>1, <2>2, <2>8
<1>5. devDemand' \in [Edges -> Int]
  <2>1. devDemand' = [e \in Edges |-> devDemand'[e]]
    BY <1>1 DEF Committed
  <2>2. ASSUME NEW e \in Edges
        PROVE  devDemand'[e] \in Int
    <3>1. devDemand'[e] = devDemand[e] + DevUsage(r, e) /\ DevUsage(r, e) \in Nat
          /\ devDemand[e] \in Int
      BY <1>3, <1>4, Zenon
    <3>2. QED
      BY <3>1
  <2>3. QED
    BY <2>1, <2>2
<1>6. ASSUME NEW e \in Edges
      PROVE  devDemand'[e] - SumFunction([m \in placed' |-> DevUsage(routes'[m], e)])
               = devDemand[e] - SumFunction([m \in placed |-> DevUsage(routes[m], e)])
  <2> DEFINE before == SumFunction([m \in placed |-> DevUsage(routes[m], e)])
             after == SumFunction([m \in placed' |-> DevUsage(routes'[m], e)])
  <2>1. /\ devDemand'[e] = devDemand[e] + DevUsage(r, e) /\ after = before + DevUsage(r, e)
        /\ DevUsage(r, e) \in Nat /\ before \in Nat /\ devDemand[e] \in Int
    BY <1>3, <1>4, Zenon
  <2> HIDE DEF before, after
  <2>2. devDemand'[e] - after = devDemand[e] - before
    BY <2>1
  <2>3. QED
    BY <2>2 DEF before, after
<1>7. DeviceDemandExact'
  BY <1>1, <1>3, <1>6, ZenonT(30) DEF DeviceDemandExact, FirstRoutes
<1>8. QED
  BY <1>5, <1>7

(* The other steps leave the device's demands alone. *)
LEMMA DemandStep == DemandInv /\ [Next]_vars => DemandInv'
<1> SUFFICES ASSUME DemandInv, [Next]_vars
             PROVE  DemandInv'
  OBVIOUS
<1>1. NetsInv'
  BY NetsStep DEF DemandInv
<1>2. devDemand' \in [Edges -> Int] /\ DeviceDemandExact'
  <2>1. CASE RipUp
    BY <2>1, DemandRipUp
  <2>2. CASE CommitNet
    BY <2>2, DemandCommit
  <2>3. CASE Prepare \/ RoutePin \/ MarkOverflow \/ Apply \/ Write \/ UNCHANGED vars
    <3>1. UNCHANGED <<problem, devDemand, routes>> /\ Nets' = Nets
      BY <2>3 DEF Prepare, RoutePin, MarkOverflow, Apply, Write, vars, Nets
    <3>2. placed' = placed
      <4>1. CASE Prepare \/ RoutePin \/ UNCHANGED vars
        <5>1. UNCHANGED <<phase, todo>>
          BY <4>1 DEF Prepare, RoutePin, vars
        <5>2. QED
          BY <3>1, <5>1 DEF placed
      <4>2. CASE MarkOverflow
        BY <3>1, <4>2 DEF MarkOverflow, placed
      <4>3. CASE Apply \/ Write
        BY <3>1, <4>3 DEF Apply, Write, placed
      <4>4. QED
        BY <2>3, <4>1, <4>2, <4>3
    <3>3. QED
      BY <3>1, <3>2, DemandKept DEF DemandInv
  <2>4. QED
    BY <2>1, <2>2, <2>3 DEF Next, Finished
<1>3. QED
  BY <1>1, <1>2 DEF DemandInv

(* The demands of the device are at all times what the placed routes and   *)
(* the first difference make them, whichever nets could not be routed.     *)
THEOREM DeviceDemandIsExact == Spec => []DeviceDemandExact
<1>1. Init => DemandInv
  BY DemandInit
<1>2. DemandInv /\ [Next]_vars => DemandInv'
  BY DemandStep
<1>3. DemandInv => DeviceDemandExact
  BY DEF DemandInv
<1>4. QED
  BY <1>1, <1>2, <1>3, PTL DEF Spec
-----------------------------------------------------------------------------
(* The sweeps of Gamer, on lines of any kind.                              *)

(* Every cell is on its line, whose cells are cells and have positions.    *)
GoodLines(f, P) ==
  /\ DOMAIN f = P
  /\ \A c \in P :
       /\ \E len \in Nat : DOMAIN f[c].cells = 1 .. len
       /\ f[c].index \in DOMAIN f[c].cells
       /\ f[c].cells[f[c].index] = c
       /\ \A j \in DOMAIN f[c].cells : f[c].cells[j] \in P /\ f[c].at[j] \in Nat

(* The greatest element of a nonempty set of bounded numbers is one of it. *)
LEMMA MaxElement ==
  ASSUME NEW S, NEW b \in Nat, S \subseteq 0 .. b, S # {}
  PROVE  Max(S) \in S /\ \A m \in S : m <= Max(S)
<1> DEFINE R == {n \in Nat : b - n \in S}
<1>1. R \subseteq Nat /\ R # {}
  <2>1. PICK x \in S : TRUE
    BY Zenon
  <2>2. b - x \in Nat /\ b - (b - x) = x
    BY <2>1
  <2>3. b - x \in R
    BY <2>1, <2>2
  <2>4. QED
    BY <2>3, Zenon
<1>2. PICK n \in R : \A m \in R : n <= m
  <2> HIDE DEF R
  <2>1. QED
    BY <1>1, LeastNumber, Zenon
<1>3. b - n \in S
  BY <1>2
<1>4. ASSUME NEW m \in S
      PROVE  m <= b - n
  <2>1. m \in 0 .. b
    OBVIOUS
  <2>2. b - m \in Nat /\ b - (b - m) = m
    BY <2>1
  <2>3. b - m \in R
    BY <2>2
  <2>4. n <= b - m /\ n \in Nat
    BY <1>2, <2>3
  <2>5. QED
    BY <2>1, <2>4
<1>5. \A m \in S : b - n >= m
  <2>1. \A m \in S : m \in Nat
    OBVIOUS
  <2>2. QED
    BY <1>2, <1>4, <2>1
<1>6. Max(S) \in S /\ \A m \in S : Max(S) >= m
  <2> HIDE DEF R
  <2>1. QED
    BY <1>3, <1>5, Zenon DEF Max
<1>7. QED
  BY <1>6

(* Distances are numbers. *)
LEMMA DistanceType == \A a, b \in Int : Distance(a, b) \in Nat
BY DEF Distance

(* w is the least of what line l offers, from a cell that has been reached. *)
LeastOn(l, dist, w) ==
  /\ \A k \in DOMAIN l.cells : dist[l.cells[k]] < Infinity => w.dist <= Reach(l, dist, k)
  /\ w.dist < Infinity =>
       \E j \in DOMAIN l.cells :
         /\ dist[l.cells[j]] < Infinity
         /\ w.prev = l.cells[j] /\ w.dist = Reach(l, dist, j)

(* A sweep gives a cell the least of what its line offers, from a cell of  *)
(* the line that has been reached.                                         *)
LEMMA SweptFacts ==
  ASSUME NEW P, NEW f, GoodLines(f, P), NEW dist \in [P -> Nat], NEW c \in P,
         NEW w, w = Swept(f[c], dist)
  PROVE  /\ w.dist \in Nat /\ w.prev \in P
         /\ w = [dist |-> w.dist, prev |-> w.prev]
         /\ LeastOn(f[c], dist, w)
<1> DEFINE l == f[c]
           from == {j \in DOMAIN l.cells : dist[l.cells[j]] < Infinity}
           best == {j \in from : \A k \in from : Reach(l, dist, j) <= Reach(l, dist, k)}
           left == {j \in best : j <= l.index}
           right == {j \in best : l.index <= j}
           j0 == IF right = {} \/ (left # {} /\ l.index <= l.half) THEN Max(left) ELSE Min(right)
<1>1. PICK len \in Nat : DOMAIN l.cells = 1 .. len
  BY DEF GoodLines
<1>2. \A j \in DOMAIN l.cells : l.cells[j] \in P /\ l.at[j] \in Nat
  BY DEF GoodLines
<1>3. l.index \in DOMAIN l.cells /\ l.cells[l.index] = c
  BY DEF GoodLines
<1>4. \A j \in DOMAIN l.cells : Reach(l, dist, j) \in Nat
  <2> TAKE j \in DOMAIN l.cells
  <2>1. l.at[j] \in Int /\ l.at[l.index] \in Int /\ l.cells[j] \in P
    BY <1>2, <1>3
  <2> HIDE DEF l
  <2>2. dist[l.cells[j]] \in Nat /\ Distance(l.at[j], l.at[l.index]) \in Nat
    BY <2>1, DistanceType, Zenon
  <2>3. QED
    BY <2>2 DEF Reach
<1>5. w = IF from = {} THEN [dist |-> Infinity, prev |-> l.cells[l.index]]
          ELSE [dist |-> Reach(l, dist, j0), prev |-> l.cells[j0]]
  BY DEF Swept
<1>6. Infinity \in Nat
  BY InfinityAssumption
<1>7. CASE from = {}
  <2> HIDE DEF l, j0, best, left, right
  <2>1. w.dist = Infinity /\ w.prev = c /\ w = [dist |-> w.dist, prev |-> w.prev]
    BY <1>3, <1>5, <1>7
  <2>2. \A k \in DOMAIN l.cells : ~(dist[l.cells[k]] < Infinity)
    BY <1>7
  <2>3. QED
    BY <1>6, <2>1, <2>2 DEF l, LeastOn
<1>8. CASE from # {}
  <2>1. best # {}
    <3> DEFINE R == {n \in Nat : \E j \in from : n = Reach(l, dist, j)}
    <3>1. R \subseteq Nat /\ R # {}
      <4>1. PICK j \in from : TRUE
        BY <1>8
      <4>2. Reach(l, dist, j) \in R
        BY <1>4, <4>1
      <4>3. QED
        BY <4>2
    <3>2. PICK n \in R : \A m \in R : n <= m
      <4> HIDE DEF R
      <4>1. QED
        BY <3>1, LeastNumber, Zenon
    <3>3. PICK j \in from : n = Reach(l, dist, j)
      BY <3>2
    <3>4. \A k \in from : Reach(l, dist, j) <= Reach(l, dist, k)
      BY <1>4, <3>2, <3>3
    <3>5. QED
      BY <3>3, <3>4
  <2>2. j0 \in best
    <3>1. best \subseteq Nat /\ left \subseteq 0 .. len /\ right \subseteq Nat
      BY <1>1
    <3>2. left # {} \/ right # {}
      <4>1. PICK j \in best : TRUE
        BY <2>1
      <4>2. j \in Int /\ l.index \in Int
        BY <1>1, <1>3, <3>1, <4>1
      <4>3. j <= l.index \/ l.index <= j
        BY <4>2
      <4>4. QED
        BY <4>1, <4>3
    <3> DEFINE lower == right = {} \/ (left # {} /\ l.index <= l.half)
    <3>3. left \subseteq best /\ right \subseteq best
      OBVIOUS
    <3>4. CASE lower
      <4>1. left # {} /\ j0 = Max(left)
        BY <3>2, <3>4
      <4> HIDE DEF left, right, best, lower, j0
      <4>2. QED
        BY <3>1, <3>3, <4>1, MaxElement, Zenon
    <3>5. CASE ~lower
      <4>1. right # {} /\ j0 = Min(right)
        BY <3>5
      <4> HIDE DEF left, right, best, lower, j0
      <4>2. QED
        BY <3>1, <3>3, <4>1, MinElement, Zenon
    <3>6. QED
      BY <3>4, <3>5
  <2> HIDE DEF j0
  <2>3. j0 \in DOMAIN l.cells /\ dist[l.cells[j0]] < Infinity
    BY <2>2
  <2>4. \A k \in DOMAIN l.cells :
          dist[l.cells[k]] < Infinity => Reach(l, dist, j0) <= Reach(l, dist, k)
    BY <2>2
  <2>5. w = [dist |-> Reach(l, dist, j0), prev |-> l.cells[j0]]
    <3> HIDE DEF from
    <3>1. QED
      BY <1>5, <1>8
  <2> HIDE DEF from, best, left, right
  <2>6. w.dist = Reach(l, dist, j0) /\ w.prev = l.cells[j0] /\ w = [dist |-> w.dist, prev |-> w.prev]
    BY <2>5
  <2>7. w.dist \in Nat /\ w.prev \in P
    BY <1>2, <1>4, <2>3, <2>6
  <2>8. QED
    BY <2>3, <2>4, <2>6, <2>7 DEF LeastOn
<1>9. QED
  BY <1>7, <1>8

(* The cells and distances of a state.                                     *)
States(P) == [P -> [dist : Nat, prev : P]]

(* A sweep of good lines leads from a state to a state. *)
LEMMA SweepType ==
  ASSUME NEW P, NEW f, GoodLines(f, P), NEW state \in States(P)
  PROVE  /\ Sweep(f, state) \in States(P)
         /\ \A c \in P : Sweep(f, state)[c] = Swept(f[c], [x \in P |-> state[x].dist])
<1> DEFINE dist == [x \in P |-> state[x].dist]
<1>1. dist \in [P -> Nat]
  BY DEF States
<1>2. DOMAIN f = P
  BY DEF GoodLines
<1>3. Sweep(f, state) = [c \in P |-> Swept(f[c], dist)]
  BY <1>2 DEF Sweep
<1>4. \A c \in P : Swept(f[c], dist) \in [dist : Nat, prev : P]
  <2> TAKE c \in P
  <2> HIDE DEF dist
  <2>1. PICK w : w = Swept(f[c], dist)
    OBVIOUS
  <2>2. w.dist \in Nat /\ w.prev \in P /\ w = [dist |-> w.dist, prev |-> w.prev]
    BY <1>1, <2>1, SweptFacts
  <2>3. w \in [dist : Nat, prev : P]
    BY <2>2
  <2>4. QED
    BY <2>1, <2>3
<1> HIDE DEF dist
<1>5. Sweep(f, state) \in States(P)
  BY <1>3, <1>4 DEF States
<1>6. QED
  BY <1>3, <1>5 DEF dist

(* The turn before sweeps this kind of lines.                              *)
Kind(even, odd, t) == IF t % 2 = 0 THEN even ELSE odd

(* The turns as their recursion says: CleanDist, and sweep after sweep. *)
LEMMA TurnsEquation ==
  ASSUME NEW even, NEW odd, NEW mark, NEW numTurns \in Nat
  PROVE  LET s == Turns(even, odd, mark, numTurns)
         IN /\ DOMAIN s = 0 .. numTurns
            /\ s[0] = CleanDist(DOMAIN even, mark)
            /\ \A t \in 0 .. numTurns - 1 : s[t + 1] = Sweep(Kind(even, odd, t), s[t])
<1> DEFINE Swp(t, x) == Only({Sweep(IF t % 2 = 1 THEN even ELSE odd, state) : state \in {x}})
           first == CleanDist(DOMAIN even, mark)
           Eq(g, n) == g = [t \in 0 .. n |-> IF t = 0 THEN first ELSE Swp(t, g[t - 1])]
           F == {n \in Nat : \E g : Eq(g, n)}
<1>1. 0 \in F
  <2> HIDE DEF first, Swp
  <2> DEFINE g == [t \in 0 .. 0 |-> first]
  <2>1. Eq(g, 0)
    OBVIOUS
  <2>2. QED
    BY <2>1, Zenon
<1>2. ASSUME NEW n \in Nat, n \in F
      PROVE  n + 1 \in F
  <2> HIDE DEF first, Swp
  <2>1. PICK g : Eq(g, n)
    BY <1>2
  <2> DEFINE h == [t \in 0 .. n + 1 |-> IF t = n + 1 THEN Swp(n + 1, g[n]) ELSE g[t]]
  <2>2. \A t \in 0 .. n + 1 : h[t] = IF t = 0 THEN first ELSE Swp(t, h[t - 1])
    <3> TAKE t \in 0 .. n + 1
    <3>1. CASE t = 0
      BY <2>1, <3>1
    <3>2. CASE t = n + 1
      BY <3>2
    <3>3. CASE t # 0 /\ t # n + 1
      <4>1. t \in 0 .. n /\ t - 1 \in 0 .. n
        BY <3>3
      <4>2. h[t] = g[t] /\ h[t - 1] = g[t - 1]
        BY <3>3, <4>1
      <4>3. g[t] = Swp(t, g[t - 1])
        BY <2>1, <3>3, <4>1
      <4>4. QED
        BY <3>3, <4>2, <4>3
    <3>4. QED
      BY <3>1, <3>2, <3>3
  <2>3. Eq(h, n + 1)
    <3>1. h = [t \in 0 .. n + 1 |-> h[t]]
      OBVIOUS
    <3> HIDE DEF h
    <3>2. QED
      BY <2>2, <3>1, Zenon
  <2> HIDE DEF h, Eq
  <2>4. QED
    BY <2>3
<1>3. numTurns \in F
  <2> HIDE DEF F
  <2>1. QED
    BY <1>1, <1>2, GrowingNumbers
<1> DEFINE g == CHOOSE g : Eq(g, numTurns)
<1>4. Eq(g, numTurns)
  <2> HIDE DEF Swp, first
  <2>1. QED
    BY <1>3, Zenon
<1>5. Turns(even, odd, mark, numTurns) = [t \in 0 .. numTurns |-> g[t]]
  BY DEF Turns
<1> HIDE DEF g
<1>6. g[0] = first
  <2> HIDE DEF Swp, first
  <2>1. QED
    BY <1>4
<1>7. ASSUME NEW t \in 0 .. numTurns - 1
      PROVE  g[t + 1] = Sweep(Kind(even, odd, t), g[t])
  <2>1. t + 1 \in 0 .. numTurns /\ t + 1 # 0 /\ t + 1 - 1 = t
    OBVIOUS
  <2>2. g[t + 1] = Swp(t + 1, g[t])
    <3> HIDE DEF Swp, first
    <3>1. QED
      BY <1>4, <2>1
  <2>3. (t + 1) % 2 = 1 <=> t % 2 = 0
    OBVIOUS
  <2>4. Swp(t + 1, g[t]) = Sweep(IF (t + 1) % 2 = 1 THEN even ELSE odd, g[t])
    BY OnlyOne, Zenon
  <2> HIDE DEF Swp
  <2>5. QED
    BY <2>2, <2>3, <2>4 DEF Kind
<1>8. QED
  <2> HIDE DEF first
  <2>1. \A t \in 0 .. numTurns - 1 : t \in 0 .. numTurns /\ t + 1 \in 0 .. numTurns
    OBVIOUS
  <2>2. QED
    BY <1>5, <1>6, <1>7, <2>1 DEF first

(* Turns of good lines lead from state to state. *)
LEMMA TurnsType ==
  ASSUME NEW P, NEW even, NEW odd, GoodLines(even, P), GoodLines(odd, P),
         NEW mark, NEW numTurns \in Nat
  PROVE  \A t \in 0 .. numTurns : Turns(even, odd, mark, numTurns)[t] \in States(P)
<1> DEFINE s == Turns(even, odd, mark, numTurns)
           F == {t \in Nat : t <= numTurns => s[t] \in States(P)}
<1>1. /\ s[0] = CleanDist(P, mark)
      /\ \A t \in 0 .. numTurns - 1 : s[t + 1] = Sweep(Kind(even, odd, t), s[t])
  BY TurnsEquation DEF GoodLines
<1> HIDE DEF s
<1>2. CleanDist(P, mark) \in States(P)
  <2>1. \A c \in P : [dist |-> IF c \in mark THEN 0 ELSE Infinity, prev |-> c] \in [dist : Nat, prev : P]
    BY InfinityAssumption
  <2>2. QED
    BY <2>1 DEF CleanDist, States
<1>3. 0 \in F
  BY <1>1, <1>2
<1>4. ASSUME NEW t \in Nat, t \in F
      PROVE  t + 1 \in F
  <2>1. CASE t + 1 <= numTurns
    <3>1. s[t] \in States(P) /\ t \in 0 .. numTurns - 1
      BY <1>4, <2>1
    <3>2. s[t + 1] = Sweep(Kind(even, odd, t), s[t]) /\ GoodLines(Kind(even, odd, t), P)
      BY <1>1, <3>1 DEF Kind
    <3>3. s[t + 1] \in States(P)
      BY <3>1, <3>2, SweepType
    <3>4. QED
      BY <3>3
  <2>2. QED
    BY <2>1
<1>5. Nat \subseteq F
  <2> HIDE DEF F
  <2>1. QED
    BY <1>3, <1>4, GrowingNumbers
<1>6. QED
  <2>1. \A t \in 0 .. numTurns : t \in Nat /\ t <= numTurns
    OBVIOUS
  <2>2. QED
    BY <1>5, <2>1 DEF s

(* What one turn does to one cell. *)
LEMMA TurnFacts ==
  ASSUME NEW P, NEW even, NEW odd, GoodLines(even, P), GoodLines(odd, P),
         NEW mark, NEW numTurns \in Nat, NEW t \in 0 .. numTurns - 1, NEW c \in P
  PROVE  LET s == Turns(even, odd, mark, numTurns)
             l == Kind(even, odd, t)[c]
         IN /\ s[t][c].dist \in Nat /\ s[t + 1][c].dist \in Nat /\ s[t + 1][c].prev \in P
            /\ \A k \in DOMAIN l.cells :
                 s[t][l.cells[k]].dist < Infinity =>
                   s[t + 1][c].dist <= s[t][l.cells[k]].dist + Distance(l.at[k], l.at[l.index])
            /\ s[t + 1][c].dist < Infinity =>
                 \E j \in DOMAIN l.cells :
                   /\ s[t][l.cells[j]].dist < Infinity
                   /\ s[t + 1][c].prev = l.cells[j]
                   /\ s[t + 1][c].dist = s[t][l.cells[j]].dist + Distance(l.at[j], l.at[l.index])
            /\ s[t][c].dist < Infinity => s[t + 1][c].dist <= s[t][c].dist
<1> DEFINE s == Turns(even, odd, mark, numTurns)
           f == Kind(even, odd, t)
           l == f[c]
           dist == [x \in P |-> s[t][x].dist]
<1>1. s[t] \in States(P) /\ s[t + 1] = Sweep(f, s[t]) /\ GoodLines(f, P)
  <2>1. t \in 0 .. numTurns
    OBVIOUS
  <2>2. QED
    BY <2>1, TurnsType, TurnsEquation DEF Kind
<1> HIDE DEF s, f
<1>2. s[t + 1][c] = Swept(l, dist)
  BY <1>1, SweepType
<1>3. dist \in [P -> Nat]
  BY <1>1 DEF States
<1>4. \A k \in DOMAIN l.cells : l.cells[k] \in P /\ l.at[k] \in Nat
  BY <1>1 DEF GoodLines
<1>5. l.index \in DOMAIN l.cells /\ l.cells[l.index] = c
  BY <1>1 DEF GoodLines
<1>6. \A k \in DOMAIN l.cells :
        Reach(l, dist, k) = s[t][l.cells[k]].dist + Distance(l.at[k], l.at[l.index])
  BY <1>4 DEF Reach
<1>7. \A k \in DOMAIN l.cells : dist[l.cells[k]] = s[t][l.cells[k]].dist
  BY <1>4
<1> HIDE DEF dist
<1>8. /\ s[t + 1][c].dist \in Nat /\ s[t + 1][c].prev \in P
      /\ \A k \in DOMAIN l.cells : dist[l.cells[k]] < Infinity => s[t + 1][c].dist <= Reach(l, dist, k)
      /\ s[t + 1][c].dist < Infinity =>
           \E j \in DOMAIN l.cells :
             /\ dist[l.cells[j]] < Infinity
             /\ s[t + 1][c].prev = l.cells[j] /\ s[t + 1][c].dist = Reach(l, dist, j)
  <2>1. PICK w : w = Swept(f[c], dist)
    OBVIOUS
  <2>2. w = s[t + 1][c]
    BY <1>2, <2>1
  <2>3. GoodLines(f, P)
    BY <1>1
  <2>4. w.dist \in Nat /\ w.prev \in P /\ LeastOn(f[c], dist, w)
    BY <1>3, <2>1, <2>3, SweptFacts
  <2>5. QED
    BY <2>2, <2>4 DEF LeastOn
<1>9. s[t][c].dist \in Nat
  BY <1>1 DEF States
<1>10. s[t][c].dist < Infinity => s[t + 1][c].dist <= s[t][c].dist
  <2>1. Distance(l.at[l.index], l.at[l.index]) = 0
    BY <1>4, <1>5 DEF Distance
  <2>2. Reach(l, dist, l.index) = s[t][c].dist /\ dist[l.cells[l.index]] = s[t][c].dist
    BY <1>5, <1>6, <1>7, <1>9, <2>1
  <2>3. QED
    BY <1>5, <1>8, <2>2
<1>11. QED
  <2>1. /\ s[t][c].dist \in Nat /\ s[t + 1][c].dist \in Nat /\ s[t + 1][c].prev \in P
        /\ \A k \in DOMAIN l.cells :
             s[t][l.cells[k]].dist < Infinity =>
               s[t + 1][c].dist <= s[t][l.cells[k]].dist + Distance(l.at[k], l.at[l.index])
        /\ s[t + 1][c].dist < Infinity =>
             \E j \in DOMAIN l.cells :
               /\ s[t][l.cells[j]].dist < Infinity
               /\ s[t + 1][c].prev = l.cells[j]
               /\ s[t + 1][c].dist = s[t][l.cells[j]].dist + Distance(l.at[j], l.at[l.index])
        /\ s[t][c].dist < Infinity => s[t + 1][c].dist <= s[t][c].dist
    <3> HIDE DEF l
    <3>1. QED
      BY <1>6, <1>7, <1>8, <1>9, <1>10
  <2>2. QED
    BY <2>1 DEF s, f

(* A cell that has been reached does not get farther away. *)
LEMMA NeverFarther ==
  ASSUME NEW P, NEW even, NEW odd, GoodLines(even, P), GoodLines(odd, P),
         NEW mark, NEW numTurns \in Nat, NEW c \in P, NEW t \in 0 .. numTurns,
         Turns(even, odd, mark, numTurns)[t][c].dist < Infinity
  PROVE  Turns(even, odd, mark, numTurns)[numTurns][c].dist
           <= Turns(even, odd, mark, numTurns)[t][c].dist
<1> DEFINE s == Turns(even, odd, mark, numTurns)
           F == {k \in Nat : t + k <= numTurns => s[t + k][c].dist <= s[t][c].dist}
<1>1. \A k \in 0 .. numTurns : s[k][c].dist \in Nat
  BY TurnsType DEF States
<1>2. \A k \in 0 .. numTurns - 1 : s[k][c].dist < Infinity => s[k + 1][c].dist <= s[k][c].dist
  BY TurnFacts
<1>3. s[t][c].dist < Infinity
  OBVIOUS
<1> HIDE DEF s
<1>4. 0 \in F
  BY <1>1
<1>5. ASSUME NEW k \in Nat, k \in F
      PROVE  k + 1 \in F
  <2>1. SUFFICES ASSUME t + (k + 1) <= numTurns
                 PROVE  s[t + (k + 1)][c].dist <= s[t][c].dist
    OBVIOUS
  <2>2. t + k \in 0 .. numTurns - 1 /\ t + (k + 1) = (t + k) + 1
    BY <2>1
  <2>3. s[t + k][c].dist <= s[t][c].dist
    BY <1>5, <2>2
  <2>4. s[t + k][c].dist \in Nat /\ s[t][c].dist \in Nat /\ s[(t + k) + 1][c].dist \in Nat
    BY <1>1, <2>2
  <2>5. s[t + k][c].dist < Infinity
    BY <1>3, <2>3, <2>4, InfinityAssumption
  <2>6. QED
    BY <1>2, <2>2, <2>3, <2>4, <2>5
<1>6. numTurns - t \in F
  <2> HIDE DEF F
  <2>1. numTurns - t \in Nat
    OBVIOUS
  <2>2. QED
    BY <1>4, <1>5, <2>1, GrowingNumbers
<1>7. QED
  BY <1>6 DEF s
-----------------------------------------------------------------------------
(* The way back.                                                           *)

(* It follows prev, from the last turn to the first. *)
LEMMA WayEquation ==
  ASSUME NEW s, NEW numTurns \in Nat, NEW c
  PROVE  LET way == Way(s, numTurns, c)
         IN /\ way[numTurns] = c
            /\ \A t \in 0 .. numTurns - 1 : way[t] = s[t + 1][way[t + 1]].prev
<1> DEFINE Eq(g, k) == g = [t \in k .. numTurns |-> IF t = numTurns THEN c
                                                  ELSE s[t + 1][g[t + 1]].prev]
           F == {k \in Nat : k <= numTurns => \E g : Eq(g, numTurns - k)}
<1>1. 0 \in F
  <2> DEFINE g == [t \in numTurns .. numTurns |-> c]
  <2>1. g = [t \in numTurns .. numTurns |-> IF t = numTurns THEN c ELSE s[t + 1][g[t + 1]].prev]
    OBVIOUS
  <2>2. numTurns - 0 = numTurns
    OBVIOUS
  <2> HIDE DEF g
  <2>3. QED
    BY <2>1, <2>2
<1>2. ASSUME NEW k \in Nat, k \in F
      PROVE  k + 1 \in F
  <2>1. SUFFICES ASSUME k + 1 <= numTurns
                 PROVE  \E g : Eq(g, numTurns - (k + 1))
    OBVIOUS
  <2> DEFINE m == numTurns - (k + 1)
  <2>2. m \in Nat /\ numTurns - k = m + 1 /\ m < numTurns
    BY <2>1
  <2> HIDE DEF m
  <2>3. PICK g : Eq(g, m + 1)
    BY <1>2, <2>1, <2>2
  <2> DEFINE h == [t \in m .. numTurns |-> IF t = m THEN s[m + 1][g[m + 1]].prev ELSE g[t]]
  <2>4. \A t \in m .. numTurns : h[t] = IF t = numTurns THEN c ELSE s[t + 1][h[t + 1]].prev
    <3> TAKE t \in m .. numTurns
    <3>1. CASE t = m
      <4>1. m + 1 \in m .. numTurns /\ m + 1 # m
        BY <2>2
      <4>2. h[m + 1] = g[m + 1]
        BY <4>1
      <4>3. QED
        BY <2>2, <3>1, <4>2, SMTT(20)
    <3>2. CASE t # m /\ t = numTurns
      BY <2>2, <2>3, <3>2
    <3>3. CASE t # m /\ t # numTurns
      <4>1. t \in m + 1 .. numTurns /\ t + 1 \in m .. numTurns /\ t + 1 # m
        BY <2>2, <3>3
      <4>2. h[t] = g[t] /\ h[t + 1] = g[t + 1]
        BY <3>3, <4>1
      <4>3. g[t] = s[t + 1][g[t + 1]].prev
        BY <2>3, <3>3, <4>1, Zenon
      <4>4. QED
        BY <3>3, <4>2, <4>3
    <3>4. QED
      BY <3>1, <3>2, <3>3, Zenon
  <2>5. h = [t \in m .. numTurns |-> h[t]]
    OBVIOUS
  <2> HIDE DEF h
  <2>6. Eq(h, m)
    BY <2>4, <2>5, Zenon
  <2> HIDE DEF Eq
  <2>7. QED
    BY <2>6 DEF m
<1>3. \E g : Eq(g, 0)
  <2>1. numTurns \in F
    <3> HIDE DEF F
    <3>1. QED
      BY <1>1, <1>2, GrowingNumbers
  <2>2. numTurns - numTurns = 0
    OBVIOUS
  <2> HIDE DEF Eq
  <2>3. QED
    BY <2>1, <2>2
<1> DEFINE g == CHOOSE g : Eq(g, 0)
<1>4. Eq(g, 0)
  <2> HIDE DEF Eq
  <2>1. QED
    BY <1>3
<1>5. Way(s, numTurns, c) = [t \in 0 .. numTurns |-> g[t]]
  BY DEF Way
<1> HIDE DEF g
<1>6. g[numTurns] = c
  BY <1>4
<1>7. ASSUME NEW t \in 0 .. numTurns - 1
      PROVE  g[t] = s[t + 1][g[t + 1]].prev
  <2>1. t \in 0 .. numTurns /\ t # numTurns
    OBVIOUS
  <2>2. QED
    BY <1>4, <2>1
<1>8. QED
  <2>1. numTurns \in 0 .. numTurns /\ \A t \in 0 .. numTurns - 1 : t \in 0 .. numTurns /\ t + 1 \in 0 .. numTurns
    OBVIOUS
  <2>2. QED
    BY <1>5, <1>6, <1>7, <2>1

(* Lines that all their cells agree on, and whose positions increase. *)
OneLine(f) ==
  \A c \in DOMAIN f : \A j \in DOMAIN f[c].cells :
    LET q == f[c].cells[j]
    IN f[q].cells = f[c].cells /\ f[q].at = f[c].at /\ f[q].index = j
Increasing(f) ==
  \A c \in DOMAIN f : \A k, j \in DOMAIN f[c].cells : k < j => f[c].at[k] < f[c].at[j]

(* A way leads back along lines and adds up the distances. *)
LedBack(P, even, odd, numTurns, s, way) ==
  /\ \A t \in 0 .. numTurns :
       /\ way[t] \in P /\ s[t][way[t]].dist \in Nat
       /\ s[t][way[t]].dist < Infinity
       /\ s[t][way[t]].dist <= s[numTurns][way[numTurns]].dist
  /\ \A t \in 0 .. numTurns - 1 :
       LET l == Kind(even, odd, t)[way[t + 1]]
       IN \E j \in DOMAIN l.cells :
            /\ way[t] = l.cells[j]
            /\ s[t + 1][way[t + 1]].dist
                 = s[t][way[t]].dist + Distance(l.at[j], l.at[l.index])

(* The way of a cell that was reached starts in a marked cell, moves along *)
(* lines, and adds up its distances.                                       *)
LEMMA WayFacts ==
  ASSUME NEW P, NEW even, NEW odd, GoodLines(even, P), GoodLines(odd, P),
         NEW mark, NEW numTurns \in Nat, NEW c \in P,
         Turns(even, odd, mark, numTurns)[numTurns][c].dist < Infinity
  PROVE  LET s == Turns(even, odd, mark, numTurns)
             way == Way(s, numTurns, c)
         IN way[numTurns] = c /\ way[0] \in mark /\ LedBack(P, even, odd, numTurns, s, way)
<1> DEFINE s == Turns(even, odd, mark, numTurns)
           way == Way(s, numTurns, c)
           d == s[numTurns][c].dist
           A(t) == /\ way[t] \in P /\ s[t][way[t]].dist \in Nat
                   /\ s[t][way[t]].dist < Infinity
                   /\ s[t][way[t]].dist <= d
           B(t) == LET l == Kind(even, odd, t)[way[t + 1]]
                   IN \E j \in DOMAIN l.cells :
                        /\ way[t] = l.cells[j]
                        /\ s[t + 1][way[t + 1]].dist
                             = s[t][way[t]].dist + Distance(l.at[j], l.at[l.index])
           F == {k \in Nat : k <= numTurns => A(numTurns - k)}
<1>1. way[numTurns] = c /\ \A t \in 0 .. numTurns - 1 : way[t] = s[t + 1][way[t + 1]].prev
  BY WayEquation
<1>2. \A t \in 0 .. numTurns : s[t] \in States(P)
  BY TurnsType
<1>3. ASSUME NEW t \in 0 .. numTurns - 1, A(t + 1)
      PROVE  A(t) /\ B(t)
  <2> DEFINE x == way[t + 1]
             l == Kind(even, odd, t)[x]
  <2>1. x \in P /\ s[t + 1][x].dist < Infinity /\ s[t + 1][x].dist <= d /\ way[t] = s[t + 1][x].prev
    BY <1>1, <1>3
  <2> HIDE DEF x, d
  <2>2. /\ s[t + 1][x].dist \in Nat /\ s[t + 1][x].prev \in P
        /\ s[t + 1][x].dist < Infinity =>
             \E j \in DOMAIN l.cells :
               /\ s[t][l.cells[j]].dist < Infinity
               /\ s[t + 1][x].prev = l.cells[j]
               /\ s[t + 1][x].dist = s[t][l.cells[j]].dist + Distance(l.at[j], l.at[l.index])
    BY <2>1, TurnFacts, SMTT(20)
  <2>3. GoodLines(Kind(even, odd, t), P)
    BY DEF Kind
  <2> HIDE DEF s
  <2>4. PICK j \in DOMAIN l.cells :
          /\ s[t][l.cells[j]].dist < Infinity
          /\ s[t + 1][x].prev = l.cells[j]
          /\ s[t + 1][x].dist = s[t][l.cells[j]].dist + Distance(l.at[j], l.at[l.index])
    BY <2>1, <2>2
  <2>5. l.at[j] \in Int /\ l.at[l.index] \in Int /\ l.cells[j] \in P
    <3> DEFINE f == Kind(even, odd, t)
    <3>1. GoodLines(f, P) /\ l = f[x] /\ j \in DOMAIN l.cells
      BY <2>3
    <3> HIDE DEF f, l
    <3>2. /\ l.index \in DOMAIN l.cells
          /\ \A k \in DOMAIN l.cells : l.cells[k] \in P /\ l.at[k] \in Nat
      BY <2>1, <3>1, Zenon DEF GoodLines
    <3>3. QED
      BY <3>1, <3>2
  <2>6. Distance(l.at[j], l.at[l.index]) \in Nat
    BY <2>5, DistanceType, Zenon
  <2> DEFINE y == l.cells[j]
             step == Distance(l.at[j], l.at[l.index])
  <2>7. /\ way[t] = y /\ y \in P /\ s[t][y].dist < Infinity /\ step \in Nat
        /\ s[t + 1][x].dist = s[t][y].dist + step
    BY <2>1, <2>4, <2>5, <2>6
  <2>8. s[t][y].dist \in Nat
    <3>1. t \in 0 .. numTurns
      OBVIOUS
    <3>2. s[t] \in States(P)
      BY <1>2, <3>1
    <3> HIDE DEF y
    <3>3. QED
      BY <2>7, <3>2 DEF States
  <2>9. d \in Nat
    <3>1. numTurns \in 0 .. numTurns
      OBVIOUS
    <3>2. s[numTurns] \in States(P)
      BY <1>2, <3>1
    <3>3. QED
      BY <3>2 DEF States, d
  <2>10. A(t)
    <3> HIDE DEF y, step
    <3>1. QED
      BY <2>1, <2>2, <2>7, <2>8, <2>9
  <2>11. B(t)
    BY <2>4, <2>7, Zenon DEF x
  <2>12. QED
    BY <2>10, <2>11, Zenon
<1>4. 0 \in F
  <2>1. numTurns \in 0 .. numTurns /\ numTurns - 0 = numTurns
    OBVIOUS
  <2>2. s[numTurns] \in States(P)
    BY <1>2, <2>1
  <2>3. s[numTurns][c].dist \in Nat /\ s[numTurns][c].dist < Infinity
    <3>1. s[numTurns][c].dist < Infinity
      OBVIOUS
    <3> HIDE DEF s
    <3>2. QED
      BY <2>2, <3>1 DEF States
  <2> HIDE DEF s
  <2>4. A(numTurns)
    BY <1>1, <2>3
  <2> HIDE DEF A
  <2>5. QED
    BY <2>1, <2>4
<1>5. ASSUME NEW k \in Nat, k \in F
      PROVE  k + 1 \in F
  <2>1. CASE k + 1 <= numTurns
    <3> DEFINE t == numTurns - (k + 1)
    <3>1. t \in 0 .. numTurns - 1 /\ numTurns - k = t + 1
      BY <2>1
    <3>2. A(t + 1)
      <4> HIDE DEF A, t
      <4>1. QED
        BY <1>5, <2>1, <3>1
    <3>3. A(t)
      <4> HIDE DEF A, B, t
      <4>1. QED
        BY <1>3, <3>1, <3>2
    <3> HIDE DEF A
    <3>4. QED
      BY <3>3
  <2> HIDE DEF A
  <2>2. QED
    BY <2>1
<1>6. \A t \in 0 .. numTurns : A(t)
  <2> HIDE DEF A
  <2>1. Nat \subseteq F
    <3> HIDE DEF F
    <3>1. QED
      BY <1>4, <1>5, GrowingNumbers
  <2> TAKE t \in 0 .. numTurns
  <2>2. numTurns - t \in Nat /\ numTurns - t <= numTurns /\ numTurns - (numTurns - t) = t
    OBVIOUS
  <2>3. numTurns - t \in F
    BY <2>1, <2>2
  <2>4. QED
    BY <2>2, <2>3
<1>7. \A t \in 0 .. numTurns - 1 : B(t)
  <2> HIDE DEF A, B
  <2> TAKE t \in 0 .. numTurns - 1
  <2>1. t + 1 \in 0 .. numTurns
    OBVIOUS
  <2>2. QED
    BY <1>3, <1>6, <2>1
<1>8. way[0] \in mark
  <2>1. 0 \in 0 .. numTurns
    OBVIOUS
  <2>2. way[0] \in P /\ s[0][way[0]].dist < Infinity
    <3> HIDE DEF way, s
    <3>1. QED
      BY <1>6, <2>1
  <2>3. s[0] = CleanDist(P, mark)
    BY TurnsEquation DEF GoodLines
  <2> HIDE DEF way, s
  <2>4. s[0][way[0]].dist = IF way[0] \in mark THEN 0 ELSE Infinity
    BY <2>2, <2>3 DEF CleanDist
  <2>5. QED
    BY <2>2, <2>4, InfinityAssumption
<1>9. /\ way[numTurns] = c /\ way[0] \in mark
      /\ \A t \in 0 .. numTurns : A(t)
      /\ \A t \in 0 .. numTurns - 1 : B(t)
  <2> HIDE DEF A, B, way
  <2>1. QED
    BY <1>1, <1>6, <1>7, <1>8
<1>10. LedBack(P, even, odd, numTurns, s, way)
  <2> HIDE DEF s, way
  <2>1. QED
    BY <1>9 DEF LedBack
<1>11. QED
  BY <1>9, <1>10

(* The cells between two of a line are those at the indices between. *)
LEMMA BetweenFacts ==
  ASSUME NEW P, NEW f, GoodLines(f, P), OneLine(f), NEW c \in P,
         NEW j \in DOMAIN f[c].cells
  PROVE  /\ f[c].index \in Nat /\ j \in Nat
         /\ \A x \in Between(f[c], f[c].cells[j]) :
              \E k \in DOMAIN f[c].cells :
                /\ x = f[c].cells[k] /\ k \in Nat
                /\ (j <= k /\ k <= f[c].index) \/ (f[c].index <= k /\ k <= j)
         /\ f[c].cells[j] \in Between(f[c], f[c].cells[j])
         /\ c \in Between(f[c], f[c].cells[j])
<1> DEFINE l == f[c]
           own == l.index
<1>1. PICK len \in Nat : DOMAIN l.cells = 1 .. len
  BY Zenon DEF GoodLines
<1>2. own \in 1 .. len /\ l.cells[own] = c /\ j \in 1 .. len
  BY <1>1 DEF GoodLines
<1>3. (CHOOSE k \in DOMAIN l.cells : l.cells[k] = l.cells[j]) = j
  <2>1. \A k \in DOMAIN l.cells : l.cells[k] = l.cells[j] => k = j
    BY Zenon DEF OneLine, GoodLines
  <2>2. QED
    BY <2>1
<1>4. /\ Min({j, own}) = IF j <= own THEN j ELSE own
      /\ Max({j, own}) = IF j <= own THEN own ELSE j
  <2>1. Min({j, own}) \in {j, own} /\ \A m \in {j, own} : Min({j, own}) <= m
    <3> HIDE DEF own
    <3>1. {j, own} \subseteq Nat /\ {j, own} # {}
      BY <1>2
    <3>2. QED
      BY <3>1, MinElement
  <2>2. Max({j, own}) \in {j, own} /\ \A m \in {j, own} : m <= Max({j, own})
    <3> HIDE DEF own
    <3>1. {j, own} \subseteq 0 .. len /\ {j, own} # {}
      BY <1>2
    <3>2. QED
      BY <3>1, MaxElement
  <2> HIDE DEF own
  <2>3. own \in Nat /\ j \in Nat
    BY <1>2
  <2>4. QED
    BY <2>1, <2>2, <2>3
<1>5. Between(l, l.cells[j]) = {l.cells[k] : k \in Min({j, own}) .. Max({j, own})}
  <2> HIDE DEF l
  <2>1. QED
    BY <1>3, Zenon DEF Between, own
<1> HIDE DEF own
<1>6. ASSUME NEW x \in Between(l, l.cells[j])
      PROVE  \E k \in DOMAIN l.cells :
               x = l.cells[k] /\ k \in Nat /\ ((j <= k /\ k <= own) \/ (own <= k /\ k <= j))
  <2>1. PICK k \in Min({j, own}) .. Max({j, own}) : x = l.cells[k]
    BY <1>5
  <2>2. k \in 1 .. len /\ k \in Nat /\ ((j <= k /\ k <= own) \/ (own <= k /\ k <= j))
    <3> HIDE DEF l
    <3>1. own \in Nat /\ j \in Nat
      BY <1>2
    <3>2. CASE j <= own
      <4>1. Min({j, own}) = j /\ Max({j, own}) = own
        BY <1>4, <3>2
      <4>2. k \in j .. own
        BY <4>1
      <4>3. k \in Nat /\ j <= k /\ k <= own /\ j >= 1 /\ own <= len
        BY <1>2, <3>1, <4>2
      <4>4. QED
        BY <1>1, <3>1, <4>3
    <3>3. CASE ~(j <= own)
      BY <1>2, <1>4, <3>1, <3>3
    <3>4. QED
      BY <3>2, <3>3
  <2>3. QED
    BY <1>1, <2>1, <2>2
<1>7. j \in Min({j, own}) .. Max({j, own}) /\ own \in Min({j, own}) .. Max({j, own})
  BY <1>2, <1>4
<1>8. l.cells[j] \in Between(l, l.cells[j]) /\ c \in Between(l, l.cells[j])
  BY <1>2, <1>5, <1>7
<1>9. own \in Nat /\ j \in Nat
  BY <1>2
<1>10. QED
  BY <1>6, <1>8, <1>9 DEF own

OnLine(f, a, b) == \E j \in DOMAIN f[a].cells : b = f[a].cells[j]

(* b is on the line of a, and the cells between the two are.               *)
Marking(f, a, b) ==
  /\ OnLine(f, a, b)
  /\ \A x \in Between(f[a], b) : OnLine(f, a, x)
  /\ a \in Between(f[a], b) /\ b \in Between(f[a], b)

(* The cells a way marks are those of the lines it moves on. *)
LEMMA MarkedOnLines ==
  ASSUME NEW P, NEW even, NEW odd, GoodLines(even, P), GoodLines(odd, P),
         OneLine(even), OneLine(odd),
         NEW mark, NEW numTurns \in Nat, NEW c \in P,
         Turns(even, odd, mark, numTurns)[numTurns][c].dist < Infinity,
         NEW t \in 0 .. numTurns - 1
  PROVE  LET way == Way(Turns(even, odd, mark, numTurns), numTurns, c)
         IN /\ way[t + 1] \in P /\ way[t] \in P
            /\ Marking(Kind(even, odd, t), way[t + 1], way[t])
<1> DEFINE s == Turns(even, odd, mark, numTurns)
           way == Way(s, numTurns, c)
           f == Kind(even, odd, t)
           x == way[t + 1]
<1>1. GoodLines(f, P) /\ OneLine(f)
  BY DEF Kind
<1>2. /\ x \in P /\ way[t] \in P
      /\ \E j \in DOMAIN f[x].cells : way[t] = f[x].cells[j]
  <2>1. t \in 0 .. numTurns /\ t + 1 \in 0 .. numTurns
    OBVIOUS
  <2>2. LedBack(P, even, odd, numTurns, s, way)
    BY WayFacts
  <2> HIDE DEF s, way
  <2>3. QED
    BY <2>1, <2>2 DEF LedBack
<1>3. PICK j \in DOMAIN f[x].cells : way[t] = f[x].cells[j]
  BY <1>2
<1> HIDE DEF f, x
<1>4. /\ \A y \in Between(f[x], f[x].cells[j]) : \E k \in DOMAIN f[x].cells : y = f[x].cells[k]
      /\ f[x].cells[j] \in Between(f[x], f[x].cells[j])
      /\ x \in Between(f[x], f[x].cells[j])
  <2> HIDE DEF way
  <2>1. x \in P
    BY <1>2
  <2>2. /\ f[x].cells[j] \in Between(f[x], f[x].cells[j])
        /\ x \in Between(f[x], f[x].cells[j])
    BY <1>1, <2>1, BetweenFacts
  <2>3. ASSUME NEW y \in Between(f[x], f[x].cells[j])
        PROVE  \E k \in DOMAIN f[x].cells : y = f[x].cells[k]
    <3>1. PICK k \in DOMAIN f[x].cells :
            /\ y = f[x].cells[k] /\ k \in Nat
            /\ (j <= k /\ k <= f[x].index) \/ (f[x].index <= k /\ k <= j)
      BY <1>1, <2>1, BetweenFacts, Zenon
    <3>2. QED
      BY <3>1
  <2>4. QED
    BY <2>2, <2>3
<1>5. /\ \A y \in Between(f[x], way[t]) : \E k \in DOMAIN f[x].cells : y = f[x].cells[k]
      /\ way[t] \in Between(f[x], way[t]) /\ x \in Between(f[x], way[t])
  BY <1>3, <1>4
<1>6. Marking(f, x, way[t])
  BY <1>2, <1>5 DEF Marking, OnLine
<1>7. QED
  BY <1>2, <1>6 DEF f, x

(* Where the positions increase, they are nearer than where it ends.       *)
LEMMA MarkedNearer ==
  ASSUME NEW P, NEW even, NEW odd, GoodLines(even, P), GoodLines(odd, P),
         OneLine(even), OneLine(odd), Increasing(even), Increasing(odd),
         NEW mark, NEW numTurns \in Nat, NEW c \in P,
         Turns(even, odd, mark, numTurns)[numTurns][c].dist < Infinity
  PROVE  LET s == Turns(even, odd, mark, numTurns)
             way == Way(s, numTurns, c)
         IN \A t \in 0 .. numTurns - 1 :
              \A x \in Between(Kind(even, odd, t)[way[t + 1]], way[t]) :
                x \in P /\ (x = c \/ s[numTurns][x].dist < s[numTurns][c].dist)
<1> DEFINE s == Turns(even, odd, mark, numTurns)
           way == Way(s, numTurns, c)
           d == s[numTurns][c].dist
           A(t) == way[t] = c \/ s[t][way[t]].dist < d
           F == {k \in Nat : k <= numTurns => A(numTurns - k)}
<1>1. /\ way[numTurns] = c
      /\ \A t \in 0 .. numTurns :
           /\ way[t] \in P /\ s[t][way[t]].dist \in Nat
           /\ s[t][way[t]].dist < Infinity
           /\ s[t][way[t]].dist <= d
      /\ \A t \in 0 .. numTurns - 1 :
           LET l == Kind(even, odd, t)[way[t + 1]]
           IN \E j \in DOMAIN l.cells :
                /\ way[t] = l.cells[j]
                /\ s[t + 1][way[t + 1]].dist
                     = s[t][way[t]].dist + Distance(l.at[j], l.at[l.index])
  <2>1. way[numTurns] = c /\ LedBack(P, even, odd, numTurns, s, way)
    BY WayFacts
  <2> HIDE DEF s, way
  <2>2. QED
    BY <2>1 DEF LedBack
<1>2. d \in Nat /\ Infinity \in Nat
  <2>1. numTurns \in 0 .. numTurns
    OBVIOUS
  <2>2. s[numTurns] \in States(P)
    BY <2>1, TurnsType
  <2> HIDE DEF s
  <2>3. QED
    BY <2>2, InfinityAssumption DEF States
<1>3. ASSUME NEW t \in 0 .. numTurns - 1, A(t + 1)
      PROVE  A(t)
  <2> DEFINE f == Kind(even, odd, t)
             l == f[way[t + 1]]
  <2>1. GoodLines(f, P) /\ OneLine(f) /\ Increasing(f)
    BY DEF Kind
  <2>2. PICK j \in DOMAIN l.cells :
          /\ way[t] = l.cells[j]
          /\ s[t + 1][way[t + 1]].dist = s[t][way[t]].dist + Distance(l.at[j], l.at[l.index])
    BY <1>1, Zenon
  <2>3. t \in 0 .. numTurns /\ t + 1 \in 0 .. numTurns
    OBVIOUS
  <2> HIDE DEF f, d, s, way
  <2>4. way[t + 1] \in P /\ way[t] \in P
    BY <1>1, <2>3
  <2>5. l.index \in DOMAIN l.cells /\ l.cells[l.index] = way[t + 1] /\ l.at[j] \in Nat /\ l.at[l.index] \in Nat
    BY <2>1, <2>4, Zenon DEF GoodLines
  <2> DEFINE step == Distance(l.at[j], l.at[l.index])
  <2>6. step \in Nat
    <3>1. l.at[j] \in Int /\ l.at[l.index] \in Int
      BY <2>5
    <3>2. QED
      BY <3>1, DistanceType, Zenon
  <2>7. /\ s[t][way[t]].dist \in Nat /\ s[t + 1][way[t + 1]].dist \in Nat
        /\ s[t + 1][way[t + 1]].dist <= d /\ s[t + 1][way[t + 1]].dist = s[t][way[t]].dist + step
    BY <1>1, <2>2, <2>3
  <2>8. CASE way[t] = way[t + 1]
    <3> HIDE DEF step
    <3>1. QED
      BY <1>2, <1>3, <2>6, <2>7, <2>8
  <2>9. CASE way[t] # way[t + 1]
    <3>1. j # l.index
      BY <2>2, <2>5, <2>9
    <3>2. j \in Nat /\ l.index \in Nat
      BY <2>1, <2>4, BetweenFacts
    <3>3. l.at[j] # l.at[l.index]
      <4>1. DOMAIN f = P
        BY <2>1 DEF GoodLines
      <4>2. \A a, b \in DOMAIN l.cells : a < b => l.at[a] < l.at[b]
        BY <2>1, <2>4, <4>1 DEF Increasing
      <4> HIDE DEF l
      <4>3. QED
        BY <2>5, <3>1, <3>2, <4>2
    <3>4. step > 0
      BY <2>5, <3>3 DEF Distance
    <3> HIDE DEF step
    <3>5. QED
      BY <1>2, <2>6, <2>7, <3>4
  <2>10. QED
    BY <2>8, <2>9
<1>4. \A t \in 0 .. numTurns : A(t)
  <2>1. 0 \in F
    <3>1. numTurns - 0 = numTurns
      OBVIOUS
    <3>2. A(numTurns)
      BY <1>1
    <3> HIDE DEF A
    <3>3. QED
      BY <3>1, <3>2
  <2>2. ASSUME NEW k \in Nat, k \in F
        PROVE  k + 1 \in F
    <3> HIDE DEF A
    <3>1. CASE k + 1 <= numTurns
      <4> DEFINE t == numTurns - (k + 1)
      <4>1. t \in 0 .. numTurns - 1 /\ numTurns - k = t + 1
        BY <3>1
      <4>2. A(t + 1)
        BY <2>2, <3>1, <4>1
      <4>3. A(t)
        <5> HIDE DEF t
        <5>1. QED
          BY <1>3, <4>1, <4>2
      <4>4. QED
        BY <4>3
    <3>2. QED
      BY <3>1
  <2> HIDE DEF A
  <2>3. Nat \subseteq F
    <3> HIDE DEF F
    <3>1. QED
      BY <2>1, <2>2, GrowingNumbers
  <2> TAKE t \in 0 .. numTurns
  <2>4. numTurns - t \in Nat /\ numTurns - t <= numTurns /\ numTurns - (numTurns - t) = t
    OBVIOUS
  <2>5. numTurns - t \in F
    BY <2>3, <2>4
  <2>6. QED
    BY <2>4, <2>5
<1>5. ASSUME NEW t \in 0 .. numTurns - 1, NEW x \in Between(Kind(even, odd, t)[way[t + 1]], way[t])
      PROVE  x \in P /\ (x = c \/ s[numTurns][x].dist < d)
  <2> DEFINE f == Kind(even, odd, t)
             l == f[way[t + 1]]
  <2>1. GoodLines(f, P) /\ OneLine(f) /\ Increasing(f)
    BY DEF Kind
  <2>2. PICK j \in DOMAIN l.cells :
          /\ way[t] = l.cells[j]
          /\ s[t + 1][way[t + 1]].dist = s[t][way[t]].dist + Distance(l.at[j], l.at[l.index])
    BY <1>1
  <2>3. t \in 0 .. numTurns /\ t + 1 \in 0 .. numTurns
    OBVIOUS
  <2>4. way[t + 1] \in P /\ way[t] \in P
    <3> HIDE DEF way, s
    <3>1. QED
      BY <1>1, <2>3
  <2>5. PICK k \in DOMAIN l.cells :
          x = l.cells[k] /\ k \in Nat /\ ((j <= k /\ k <= l.index) \/ (l.index <= k /\ k <= j))
    <3> HIDE DEF way, s, f
    <3>1. x \in Between(f[way[t + 1]], f[way[t + 1]].cells[j])
      BY <2>2 DEF f
    <3>2. QED
      BY <2>1, <2>4, <3>1, BetweenFacts, Zenon
  <2>6. x \in P
    <3> HIDE DEF way, f
    <3>1. QED
      BY <2>1, <2>4, <2>5, Zenon DEF GoodLines
  <2>7. s[numTurns][x].dist \in Nat /\ s[t + 1][x].dist \in Nat
    <3>1. numTurns \in 0 .. numTurns
      OBVIOUS
    <3>2. s[numTurns] \in States(P) /\ s[t + 1] \in States(P)
      BY <2>3, <3>1, TurnsType
    <3> HIDE DEF s
    <3>3. QED
      BY <2>6, <3>2 DEF States
  <2>8. s[t + 1][x].dist < Infinity => s[numTurns][x].dist <= s[t + 1][x].dist
    BY <2>3, <2>6, NeverFarther
  <2>9. /\ s[t][way[t]].dist \in Nat /\ s[t][way[t]].dist < Infinity
        /\ s[t + 1][way[t + 1]].dist \in Nat /\ s[t + 1][way[t + 1]].dist <= d
        /\ s[t + 1][way[t + 1]].dist < Infinity
    <3> HIDE DEF way, s
    <3>1. QED
      BY <1>1, <2>3
  <2>10. CASE k = l.index
    <3>1. x = way[t + 1]
      <4> HIDE DEF way, f
      <4>1. QED
        BY <2>1, <2>4, <2>5, <2>10, Zenon DEF GoodLines
    <3>2. A(t + 1)
      <4> HIDE DEF A
      <4>1. QED
        BY <1>4, <2>3
    <3> HIDE DEF way, s, d
    <3>3. QED
      BY <1>2, <2>6, <2>7, <2>8, <2>9, <3>1, <3>2
  <2>11. CASE k # l.index
    <3> DEFINE m == f[x]
    <3>1. m.cells = l.cells /\ m.at = l.at /\ m.index = k
      <4> HIDE DEF way
      <4>1. DOMAIN f = P
        BY <2>1 DEF GoodLines
      <4>2. QED
        BY <2>1, <2>4, <2>5, <4>1 DEF OneLine
    <3>2. s[t + 1][x].dist <= s[t][way[t]].dist + Distance(l.at[j], l.at[k])
      <4>1. \A own \in DOMAIN m.cells :
              s[t][m.cells[own]].dist < Infinity =>
                s[t + 1][x].dist <= s[t][m.cells[own]].dist + Distance(m.at[own], m.at[m.index])
        BY <2>6, TurnFacts
      <4> HIDE DEF way, s, m, l
      <4>2. QED
        BY <2>2, <2>9, <3>1, <4>1
    <3>3. /\ j \in Nat /\ l.index \in Nat /\ l.index \in DOMAIN l.cells
          /\ l.at[j] \in Nat /\ l.at[k] \in Nat /\ l.at[l.index] \in Nat
          /\ \A a, b \in DOMAIN l.cells : a < b => l.at[a] < l.at[b]
      <4> HIDE DEF way, f
      <4>1. DOMAIN f = P
        BY <2>1 DEF GoodLines
      <4>2. j \in Nat /\ l.index \in Nat
        BY <2>1, <2>4, BetweenFacts
      <4>3. \A a, b \in DOMAIN l.cells : a < b => l.at[a] < l.at[b]
        BY <2>1, <2>4, <4>1 DEF Increasing
      <4>4. l.index \in DOMAIN l.cells /\ l.at[j] \in Nat /\ l.at[k] \in Nat /\ l.at[l.index] \in Nat
        BY <2>1, <2>4, Zenon DEF GoodLines
      <4>5. QED
        BY <4>2, <4>3, <4>4
    <3> DEFINE near == Distance(l.at[j], l.at[k])
               far == Distance(l.at[j], l.at[l.index])
    <3>4. near < far /\ near \in Nat /\ far \in Nat
      <4> DEFINE a == l.at[j]
                 b == l.at[k]
                 e == l.at[l.index]
      <4>1. (a <= b /\ b < e) \/ (e < b /\ b <= a)
        <5> HIDE DEF l
        <5>1. (j <= k /\ k < l.index) \/ (l.index < k /\ k <= j)
          BY <2>5, <2>11, <3>3
        <5>2. j = k \/ j < k \/ k < j
          BY <2>5, <3>3
        <5>3. QED
          BY <2>5, <3>3, <5>1, <5>2
      <4>2. a \in Nat /\ b \in Nat /\ e \in Nat
        BY <3>3
      <4> HIDE DEF a, b, e
      <4>3. Distance(a, b) < Distance(a, e) /\ Distance(a, b) \in Nat /\ Distance(a, e) \in Nat
        BY <4>1, <4>2 DEF Distance
      <4>4. QED
        BY <4>3 DEF a, b, e
    <3>5. s[t + 1][way[t + 1]].dist = s[t][way[t]].dist + far
      BY <2>2
    <3> HIDE DEF near, far
    <3>6. s[t + 1][x].dist <= s[t][way[t]].dist + near
      BY <3>2 DEF near
    <3> HIDE DEF way, s, d
    <3>7. s[t + 1][x].dist < d /\ s[t + 1][x].dist < Infinity
      BY <1>2, <2>7, <2>9, <3>4, <3>5, <3>6
    <3>8. QED
      BY <1>2, <2>6, <2>7, <2>8, <3>7
  <2>12. QED
    BY <2>10, <2>11
<1>6. QED
  BY <1>5
-----------------------------------------------------------------------------
(* One connection of a pin, on lines of any kind.                          *)

(* The way of a new pin: it starts in a marked cell and moves along lines. *)
Trail(P, even, odd, numTurns, net, pin, way) ==
  /\ pin \in DOMAIN net.pins /\ pin \notin net.routed
  /\ way[0] \in net.mark /\ way[numTurns] = net.pins[pin]
  /\ \A t \in 0 .. numTurns : way[t] \in P
  /\ \A t \in 0 .. numTurns - 1 : Marking(Kind(even, odd, t), way[t + 1], way[t])

(* It passes no other pin that is not connected.                           *)
Avoids(even, odd, numTurns, net, pin, way) ==
  \A j \in DOMAIN net.pins : j \notin net.routed /\ j # pin =>
    \A t \in 0 .. numTurns - 1 :
      net.pins[j] \notin Between(Kind(even, odd, t)[way[t + 1]], way[t])

(* The next pin is one that is open, and the nearest of those. *)
LEMMA NearestFacts ==
  ASSUME NEW dist, NEW pins, NEW routed, NEW pin \in Nearest(dist, pins, routed),
         \A j \in DOMAIN pins : dist[pins[j]] \in Nat
  PROVE  /\ pin \in DOMAIN pins /\ pin \notin routed /\ dist[pins[pin]] < Infinity
         /\ \A j \in DOMAIN pins : j \notin routed /\ dist[pins[j]] < Infinity =>
              dist[pins[pin]] <= dist[pins[j]]
<1>1. pin \in DOMAIN pins /\ pin \notin routed /\ dist[pins[pin]] < Infinity
  BY DEF Nearest
<1>2. ASSUME NEW j \in DOMAIN pins, j \notin routed, dist[pins[j]] < Infinity
      PROVE  dist[pins[pin]] <= dist[pins[j]]
  <2>1. \/ dist[pins[pin]] < dist[pins[j]]
        \/ dist[pins[pin]] = dist[pins[j]] /\ pin <= j
    BY <1>2 DEF Nearest
  <2>2. dist[pins[pin]] \in Nat /\ dist[pins[j]] \in Nat
    BY <1>1
  <2>3. QED
    BY <2>1, <2>2
<1>3. QED
  BY <1>1, <1>2

(* If a pin is open, one is nearest. *)
LEMMA NearestExists ==
  ASSUME NEW dist, NEW pins, NEW routed, NEW len \in Nat, DOMAIN pins = 1 .. len,
         \A j \in DOMAIN pins : dist[pins[j]] \in Nat,
         NEW k \in DOMAIN pins, k \notin routed, dist[pins[k]] < Infinity
  PROVE  Nearest(dist, pins, routed) # {}
<1> DEFINE open == {m \in DOMAIN pins : m \notin routed /\ dist[pins[m]] < Infinity}
           D == {dist[pins[m]] : m \in open}
<1>1. D \subseteq Nat /\ D # {}
  BY Zenon
<1>2. PICK d \in D : \A e \in D : d <= e
  <2> HIDE DEF D
  <2>1. QED
    BY <1>1, LeastNumber, Zenon
<1> DEFINE best == {m \in open : dist[pins[m]] = d}
<1>3. best \subseteq Nat /\ best # {}
  BY <1>2
<1>4. PICK q \in best : \A e \in best : q <= e
  <2> HIDE DEF best
  <2>1. QED
    BY <1>3, LeastNumber, Zenon
<1>5. ASSUME NEW m \in open
      PROVE  dist[pins[q]] < dist[pins[m]] \/ (dist[pins[q]] = dist[pins[m]] /\ q <= m)
  <2>1. dist[pins[q]] = d /\ dist[pins[m]] \in D /\ d <= dist[pins[m]]
    BY <1>2, <1>4
  <2>2. CASE dist[pins[m]] = d
    BY <1>4, <2>1, <2>2
  <2>3. CASE dist[pins[m]] # d
    <3>1. d \in Nat /\ dist[pins[m]] \in Nat
      BY <1>2
    <3> HIDE DEF D, open, best
    <3>2. d < dist[pins[m]]
      BY <2>1, <2>3, <3>1
    <3>3. QED
      BY <2>1, <3>2
  <2>4. QED
    BY <2>2, <2>3
<1>6. q \in open
  BY <1>4
<1>7. q \in Nearest(dist, pins, routed)
  BY <1>5, <1>6 DEF Nearest
<1>8. QED
  BY <1>7

(* One iteration as its definition says, without Only. *)
LEMMA ConnectForm ==
  ASSUME NEW net, NEW even, NEW odd, NEW numTurns
  PROVE  LET s == Turns(even, odd, net.mark, numTurns)
             found == Nearest([c \in DOMAIN even |-> s[numTurns][c].dist], net.pins, net.routed)
             pin == CHOOSE q \in found : TRUE
         IN Connect(net, even, odd, numTurns)
              = IF found = {} THEN net
                ELSE Traced(net, pin, even, odd, Way(s, numTurns, net.pins[pin]), numTurns)
<1> DEFINE s == Turns(even, odd, net.mark, numTurns)
<1>1. Connect(net, even, odd, numTurns) = Only({Connected(net, even, odd, t, numTurns) : t \in {s}})
  BY DEF Connect
<1> HIDE DEF s
<1>2. Connect(net, even, odd, numTurns) = Connected(net, even, odd, s, numTurns)
  <2>1. {Connected(net, even, odd, t, numTurns) : t \in {s}} = {Connected(net, even, odd, s, numTurns)}
    OBVIOUS
  <2>2. QED
    BY <1>1, <2>1, OnlyOne
<1>3. QED
  BY <1>2 DEF Connected, s

(* One iteration connects nothing, or the pin at the end of such a way.    *)
LEMMA ConnectTrail ==
  ASSUME NEW P, NEW even, NEW odd, GoodLines(even, P), GoodLines(odd, P),
         OneLine(even), OneLine(odd), NEW numTurns \in Nat,
         NEW net, NEW new, new = Connect(net, even, odd, numTurns),
         \A j \in DOMAIN net.pins : net.pins[j] \in P,
         \A j, k \in DOMAIN net.pins : net.pins[j] = net.pins[k] => j = k
  PROVE  \/ new = net
         \/ \E pin, way :
              /\ new = Traced(net, pin, even, odd, way, numTurns)
              /\ Trail(P, even, odd, numTurns, net, pin, way)
              /\ Increasing(even) /\ Increasing(odd) =>
                   Avoids(even, odd, numTurns, net, pin, way)
<1> DEFINE s == Turns(even, odd, net.mark, numTurns)
           dist == [c \in DOMAIN even |-> s[numTurns][c].dist]
           found == Nearest(dist, net.pins, net.routed)
           pin == CHOOSE q \in found : TRUE
           c == net.pins[pin]
           way == Way(s, numTurns, c)
<1>1. new = IF found = {} THEN net ELSE Traced(net, pin, even, odd, way, numTurns)
  <2>1. Connect(net, even, odd, numTurns) = IF found = {} THEN net ELSE Traced(net, pin, even, odd, way, numTurns)
    BY ConnectForm, Zenon
  <2> HIDE DEF pin, way, found
  <2>2. QED
    BY <2>1
<1>2. CASE found = {}
  BY <1>1, <1>2
<1>3. CASE found # {}
  <2>1. new = Traced(net, pin, even, odd, way, numTurns)
    BY <1>1, <1>3
  <2>2. pin \in found
    BY <1>3
  <2>3. DOMAIN even = P
    BY DEF GoodLines
  <2>4. \A x \in P : dist[x] = s[numTurns][x].dist
    BY <2>3
  <2>5. \A x \in P : s[numTurns][x].dist \in Nat
    <3>1. numTurns \in 0 .. numTurns
      OBVIOUS
    <3>2. s[numTurns] \in States(P)
      BY <3>1, TurnsType
    <3> HIDE DEF s
    <3>3. QED
      BY <3>2 DEF States
  <2>6. \A j \in DOMAIN net.pins : dist[net.pins[j]] \in Nat
    BY <2>4, <2>5
  <2>7. /\ pin \in DOMAIN net.pins /\ pin \notin net.routed /\ dist[c] < Infinity
        /\ \A j \in DOMAIN net.pins : j \notin net.routed /\ dist[net.pins[j]] < Infinity =>
             dist[c] <= dist[net.pins[j]]
    <3> HIDE DEF dist, pin
    <3>1. QED
      BY <2>2, <2>6, NearestFacts
  <2>8. c \in P /\ s[numTurns][c].dist < Infinity
    BY <2>4, <2>7, Zenon
  <2>9. Trail(P, even, odd, numTurns, net, pin, way)
    <3>1. way[numTurns] = c /\ way[0] \in net.mark /\ LedBack(P, even, odd, numTurns, s, way)
      <4> HIDE DEF c
      <4>1. QED
        BY <2>8, WayFacts
    <3>2. \A t \in 0 .. numTurns - 1 : Marking(Kind(even, odd, t), way[t + 1], way[t])
      <4> HIDE DEF c
      <4>1. QED
        BY <2>8, MarkedOnLines
    <3> HIDE DEF way, s, c, pin
    <3>3. \A t \in 0 .. numTurns : way[t] \in P
      BY <3>1 DEF LedBack
    <3>4. QED
      BY <2>7, <3>1, <3>2, <3>3 DEF Trail, c
  <2>10. ASSUME Increasing(even), Increasing(odd)
         PROVE  Avoids(even, odd, numTurns, net, pin, way)
    <3>1. \A t \in 0 .. numTurns - 1 :
            \A x \in Between(Kind(even, odd, t)[way[t + 1]], way[t]) :
              x \in P /\ (x = c \/ s[numTurns][x].dist < s[numTurns][c].dist)
      <4> HIDE DEF c
      <4>1. QED
        BY <2>8, <2>10, MarkedNearer
    <3> SUFFICES ASSUME NEW j \in DOMAIN net.pins, j \notin net.routed, j # pin,
                        NEW t \in 0 .. numTurns - 1,
                        net.pins[j] \in Between(Kind(even, odd, t)[way[t + 1]], way[t])
                 PROVE  FALSE
      BY Zenon DEF Avoids
    <3>2. net.pins[j] \in P /\ (net.pins[j] = c \/ s[numTurns][net.pins[j]].dist < s[numTurns][c].dist)
      BY <3>1, Zenon
    <3>3. net.pins[j] # c
      BY <2>7, Zenon
    <3>4. s[numTurns][net.pins[j]].dist < s[numTurns][c].dist
      BY <3>2, <3>3, Zenon
    <3>5. dist[net.pins[j]] < dist[c] /\ dist[c] < Infinity /\ dist[net.pins[j]] \in Nat /\ dist[c] \in Nat
      BY <2>4, <2>6, <2>7, <2>8, <3>2, <3>4, Zenon
    <3>6. dist[net.pins[j]] < Infinity
      <4> HIDE DEF dist, c
      <4>1. QED
        BY <3>5, InfinityAssumption
    <3>7. dist[c] <= dist[net.pins[j]]
      BY <2>7, <3>6, Zenon
    <3>8. QED
      <4> HIDE DEF dist, c
      <4>1. QED
        BY <3>5, <3>7
  <2>11. QED
    BY <2>1, <2>9, <2>10, Zenon
<1>4. QED
  BY <1>2, <1>3

(* What tracing a way back changes. *)
LEMMA TracedFacts ==
  ASSUME NEW net, NEW pin, NEW even, NEW odd, NEW way, NEW numTurns \in Nat,
         NEW new, new = Traced(net, pin, even, odd, way, numTurns)
  PROVE  /\ new = [pins |-> new.pins, routed |-> new.routed, mark |-> new.mark, routes |-> new.routes]
         /\ new.pins = net.pins
         /\ new.routed = net.routed \cup {pin}
         /\ new.mark = net.mark \cup UNION {Between(Kind(even, odd, t)[way[t + 1]], way[t])
                                              : t \in Moved(way, numTurns)}
         /\ DOMAIN new.routes = DOMAIN net.routes \cup {<<pin, t>> : t \in Moved(way, numTurns)}
         /\ \A t \in Moved(way, numTurns) : new.routes[<<pin, t>>] = <<way[t + 1], way[t]>>
         /\ \A k \in DOMAIN net.routes :
              k \notin {<<pin, t>> : t \in Moved(way, numTurns)} => new.routes[k] = net.routes[k]
<1> DEFINE moved == Moved(way, numTurns)
           Line(t) == IF t % 2 = 0 THEN even[way[t + 1]] ELSE odd[way[t + 1]]
           keys == {pin} \X moved
           r == [k \in DOMAIN net.routes \cup keys |->
                   IF k \in keys THEN <<way[k[2] + 1], way[k[2]]>> ELSE net.routes[k]]
<1>1. new = [pins |-> net.pins, routed |-> net.routed \cup {pin},
             mark |-> net.mark \cup UNION {Between(Line(t), way[t]) : t \in moved}, routes |-> r]
  BY DEF Traced
<1>2. \A t : Line(t) = Kind(even, odd, t)[way[t + 1]]
  BY DEF Kind
<1> HIDE DEF Line
<1>3. {Between(Line(t), way[t]) : t \in moved}
        = {Between(Kind(even, odd, t)[way[t + 1]], way[t]) : t \in moved}
  BY <1>2
<1>4. keys = {<<pin, t>> : t \in moved}
  OBVIOUS
<1>5. /\ DOMAIN r = DOMAIN net.routes \cup keys
      /\ \A t \in moved : r[<<pin, t>>] = <<way[t + 1], way[t]>>
      /\ \A k \in DOMAIN net.routes : k \notin keys => r[k] = net.routes[k]
  OBVIOUS
<1> HIDE DEF r, keys, moved
<1>6. /\ new = [pins |-> new.pins, routed |-> new.routed, mark |-> new.mark, routes |-> new.routes]
      /\ new.pins = net.pins /\ new.routed = net.routed \cup {pin} /\ new.routes = r
      /\ new.mark = net.mark \cup UNION {Between(Line(t), way[t]) : t \in moved}
  BY <1>1
<1>7. new.mark = net.mark \cup UNION {Between(Kind(even, odd, t)[way[t + 1]], way[t]) : t \in moved}
  BY <1>3, <1>6
<1>8. QED
  BY <1>4, <1>5, <1>6, <1>7 DEF moved

(* A way that ends elsewhere than it starts leaves its start and arrives.  *)
LEMMA WayMoves ==
  ASSUME NEW way, NEW numTurns \in Nat, way[0] # way[numTurns]
  PROVE  /\ \E t \in Moved(way, numTurns) : way[t] = way[0]
         /\ \E t \in Moved(way, numTurns) : way[t + 1] = way[numTurns]
<1>1. \E t \in Moved(way, numTurns) : way[t] = way[0]
  <2> DEFINE L == {t \in 0 .. numTurns : way[t] # way[0]}
  <2>1. numTurns \in L /\ L \subseteq Nat
    OBVIOUS
  <2>2. PICK q \in L : \A m \in L : q <= m
    <3> HIDE DEF L
    <3>1. L \subseteq Nat /\ L # {}
      BY <2>1
    <3>2. QED
      BY <3>1, LeastNumber, Zenon
  <2>3. q \in 0 .. numTurns /\ way[q] # way[0]
    BY <2>2
  <2>4. q # 0
    BY <2>3
  <2>5. q - 1 \in 0 .. numTurns - 1 /\ q - 1 \in 0 .. numTurns /\ (q - 1) + 1 = q /\ ~(q <= q - 1)
    BY <2>3, <2>4
  <2>6. way[q - 1] = way[0]
    BY <2>2, <2>5
  <2>7. q - 1 \in Moved(way, numTurns)
    BY <2>3, <2>5, <2>6 DEF Moved
  <2>8. QED
    BY <2>6, <2>7
<1>2. \E t \in Moved(way, numTurns) : way[t + 1] = way[numTurns]
  <2> DEFINE L == {k \in 0 .. numTurns : way[numTurns - k] # way[numTurns]}
  <2>1. numTurns \in L /\ L \subseteq Nat
    <3>1. numTurns - numTurns = 0
      OBVIOUS
    <3>2. QED
      BY <3>1
  <2>2. PICK q \in L : \A m \in L : q <= m
    <3> HIDE DEF L
    <3>1. L \subseteq Nat /\ L # {}
      BY <2>1
    <3>2. QED
      BY <3>1, LeastNumber, Zenon
  <2>3. q \in 0 .. numTurns /\ way[numTurns - q] # way[numTurns]
    BY <2>2
  <2>4. q # 0
    <3>1. numTurns - 0 = numTurns
      OBVIOUS
    <3>2. QED
      BY <2>3, <3>1
  <2>5. /\ q - 1 \in 0 .. numTurns /\ ~(q <= q - 1)
        /\ numTurns - q \in 0 .. numTurns - 1 /\ (numTurns - q) + 1 = numTurns - (q - 1)
    BY <2>3, <2>4
  <2>6. way[(numTurns - q) + 1] = way[numTurns]
    BY <2>2, <2>5
  <2>7. numTurns - q \in Moved(way, numTurns)
    BY <2>3, <2>5, <2>6 DEF Moved
  <2>8. QED
    BY <2>6, <2>7
<1>3. QED
  BY <1>1, <1>2

(* x lies on the route from b to a, on a line of one kind or the other.    *)
Reached(even, odd, a, b, x) ==
  \E f \in {even, odd} : Marking(f, a, b) /\ x \in Between(f[a], b)

(* The pins of a net: different cells, one at least.                       *)
GoodPins(P, pins) ==
  /\ \E len \in Nat \ {0} : DOMAIN pins = 1 .. len
  /\ \A j \in DOMAIN pins : pins[j] \in P
  /\ \A j, k \in DOMAIN pins : pins[j] = pins[k] => j = k

(* What holds of a net that is being routed: the routes lie on lines and   *)
(* cover every marked cell, as soon as there is a second pin connected.    *)
Routing(P, even, odd, net) ==
  /\ NetState(net)
  /\ 1 \in net.routed /\ net.routed \subseteq DOMAIN net.pins
  /\ net.mark \subseteq P
  /\ \A j \in net.routed : net.pins[j] \in net.mark
  /\ \A k \in DOMAIN net.routes :
       /\ k = <<k[1], k[2]>> /\ k[1] \in net.routed
       /\ net.routes[k][1] \in P /\ net.routes[k][2] \in P
       /\ net.routes[k][1] # net.routes[k][2]
       /\ \E f \in {even, odd} : Marking(f, net.routes[k][1], net.routes[k][2])
  /\ net.routed = {1} => net.mark = {net.pins[1]} /\ DOMAIN net.routes = {}
  /\ net.routed # {1} =>
       \A x \in net.mark : \E k \in DOMAIN net.routes :
         Reached(even, odd, net.routes[k][1], net.routes[k][2], x)

(* So it is before the first connection. *)
LEMMA UnroutedRouting ==
  ASSUME NEW P, NEW even, NEW odd, NEW pins, GoodPins(P, pins)
  PROVE  Routing(P, even, odd, Unrouted(pins))
<1> DEFINE net == Unrouted(pins)
<1>1. /\ net = [pins |-> net.pins, routed |-> net.routed, mark |-> net.mark, routes |-> net.routes]
      /\ net.pins = pins /\ net.routed = {1} /\ net.mark = {pins[1]} /\ net.routes = <<>>
  BY DEF Unrouted
<1>2. DOMAIN net.routes = {}
  BY <1>1
<1>3. 1 \in DOMAIN pins
  BY DEF GoodPins
<1>4. IsFiniteSet(DOMAIN net.routes)
  BY <1>2, FS_EmptySet
<1> HIDE DEF net
<1>5. NetState(net)
  BY <1>1, <1>4 DEF NetState
<1>6. pins[1] \in P
  BY <1>3 DEF GoodPins
<1>7. QED
  BY <1>1, <1>2, <1>3, <1>5, <1>6 DEF Routing, net

(* The routes of a way are new ones, on lines.                             *)
Extended(P, even, odd, numTurns, net, new, pin, way) ==
  /\ \A k \in DOMAIN net.routes : k \in DOMAIN new.routes /\ new.routes[k] = net.routes[k]
  /\ \A t \in Moved(way, numTurns) :
       /\ <<pin, t>> \in DOMAIN new.routes /\ new.routes[<<pin, t>>] = <<way[t + 1], way[t]>>
       /\ way[t + 1] \in P /\ way[t] \in P /\ way[t + 1] # way[t]
       /\ Marking(Kind(even, odd, t), way[t + 1], way[t])
  /\ \A k \in DOMAIN new.routes :
       k \in DOMAIN net.routes \/ \E t \in Moved(way, numTurns) : k = <<pin, t>>
  /\ IsFiniteSet(DOMAIN new.routes)

(* What a way that connects a new pin does to the routes. *)
LEMMA TrailRoutes ==
  ASSUME NEW P, NEW even, NEW odd, NEW numTurns \in Nat, NEW net, NEW pin, NEW way,
         GoodPins(P, net.pins), Routing(P, even, odd, net),
         Trail(P, even, odd, numTurns, net, pin, way),
         NEW new, new = Traced(net, pin, even, odd, way, numTurns)
  PROVE  Extended(P, even, odd, numTurns, net, new, pin, way)
<1>1. /\ DOMAIN new.routes = DOMAIN net.routes \cup {<<pin, t>> : t \in Moved(way, numTurns)}
      /\ \A t \in Moved(way, numTurns) : new.routes[<<pin, t>>] = <<way[t + 1], way[t]>>
      /\ \A k \in DOMAIN net.routes :
           k \notin {<<pin, t>> : t \in Moved(way, numTurns)} => new.routes[k] = net.routes[k]
  BY TracedFacts
<1>2. ASSUME NEW k \in DOMAIN net.routes
      PROVE  k \in DOMAIN new.routes /\ new.routes[k] = net.routes[k]
  <2>1. k = <<k[1], k[2]>> /\ k[1] \in net.routed
    BY DEF Routing
  <2>2. pin \notin net.routed
    BY DEF Trail
  <2>3. k \notin {<<pin, t>> : t \in Moved(way, numTurns)}
    BY <2>1, <2>2
  <2>4. QED
    BY <1>1, <2>3
<1>3. ASSUME NEW t \in Moved(way, numTurns)
      PROVE  /\ way[t + 1] \in P /\ way[t] \in P /\ way[t + 1] # way[t]
             /\ Marking(Kind(even, odd, t), way[t + 1], way[t])
  <2>1. t \in 0 .. numTurns - 1 /\ way[t] # way[t + 1]
    BY DEF Moved
  <2>2. t \in 0 .. numTurns /\ t + 1 \in 0 .. numTurns
    BY <2>1
  <2>3. QED
    BY <2>1, <2>2 DEF Trail
<1>4. IsFiniteSet(DOMAIN new.routes)
  <2> DEFINE moved == Moved(way, numTurns)
             keys == {<<pin, t>> : t \in moved}
  <2>1. IsFiniteSet(moved)
    <3>1. IsFiniteSet(0 .. numTurns - 1)
      BY FS_Interval
    <3>2. moved \subseteq 0 .. numTurns - 1
      BY DEF Moved
    <3>3. QED
      BY <3>1, <3>2, FS_Subset
  <2> HIDE DEF moved
  <2>2. IsFiniteSet({pin} \X moved)
    BY <2>1, FS_Singleton, FS_Product, Zenon
  <2>3. keys = {pin} \X moved
    OBVIOUS
  <2>4. DOMAIN new.routes = DOMAIN net.routes \cup keys
    BY <1>1 DEF moved
  <2>5. IsFiniteSet(DOMAIN net.routes)
    BY DEF Routing, NetState
  <2> HIDE DEF keys
  <2>6. IsFiniteSet(keys)
    BY <2>2, <2>3
  <2>7. IsFiniteSet((DOMAIN net.routes) \cup keys)
    BY <2>5, <2>6, FS_Union, Zenon
  <2>8. QED
    BY <2>4, <2>7
<1>5. ASSUME NEW k \in DOMAIN new.routes
      PROVE  k \in DOMAIN net.routes \/ \E t \in Moved(way, numTurns) : k = <<pin, t>>
  BY <1>1
<1>6. QED
  BY <1>1, <1>2, <1>3, <1>4, <1>5 DEF Extended

(* It keeps the routes on lines, and covers what it marks.                 *)
LEMMA RoutingTrail ==
  ASSUME NEW P, NEW even, NEW odd, GoodLines(even, P), GoodLines(odd, P),
         NEW numTurns \in Nat, NEW net, NEW pin, NEW way,
         GoodPins(P, net.pins), Routing(P, even, odd, net),
         Trail(P, even, odd, numTurns, net, pin, way),
         NEW new, new = Traced(net, pin, even, odd, way, numTurns)
  PROVE  Routing(P, even, odd, new) /\ new.pins = net.pins
<1> DEFINE moved == Moved(way, numTurns)
           Cells2(t) == Between(Kind(even, odd, t)[way[t + 1]], way[t])
           c == net.pins[pin]
<1>1. /\ new = [pins |-> new.pins, routed |-> new.routed, mark |-> new.mark, routes |-> new.routes]
      /\ new.pins = net.pins
      /\ new.routed = net.routed \cup {pin}
      /\ new.mark = net.mark \cup UNION {Cells2(t) : t \in moved}
  BY TracedFacts
<1>2. /\ \A k \in DOMAIN net.routes : k \in DOMAIN new.routes /\ new.routes[k] = net.routes[k]
      /\ \A t \in moved :
           /\ <<pin, t>> \in DOMAIN new.routes /\ new.routes[<<pin, t>>] = <<way[t + 1], way[t]>>
           /\ way[t + 1] \in P /\ way[t] \in P /\ way[t + 1] # way[t]
           /\ Marking(Kind(even, odd, t), way[t + 1], way[t])
      /\ \A k \in DOMAIN new.routes : k \in DOMAIN net.routes \/ \E t \in moved : k = <<pin, t>>
      /\ IsFiniteSet(DOMAIN new.routes)
  <2>1. Extended(P, even, odd, numTurns, net, new, pin, way)
    BY TrailRoutes
  <2>2. QED
    BY <2>1 DEF Extended
<1> HIDE DEF moved, Cells2
<1>3. \A t \in moved : Kind(even, odd, t) \in {even, odd}
  BY DEF Kind
<1>4. NetState(new)
  BY <1>1, <1>2 DEF NetState
<1>5. 1 \in new.routed /\ new.routed \subseteq DOMAIN new.pins
  BY <1>1 DEF Routing, Trail
<1>6. \A t \in moved : Cells2(t) \subseteq P
  <2> SUFFICES ASSUME NEW t \in moved, NEW x \in Cells2(t)
               PROVE  x \in P
    OBVIOUS
  <2>1. OnLine(Kind(even, odd, t), way[t + 1], x) /\ way[t + 1] \in P
    BY <1>2, Zenon DEF Cells2, Marking
  <2>2. GoodLines(Kind(even, odd, t), P)
    BY DEF Kind
  <2>3. QED
    BY <2>1, <2>2 DEF OnLine, GoodLines
<1>7. new.mark \subseteq P
  BY <1>1, <1>6 DEF Routing
<1>8. \A t \in moved : way[t] \in new.mark /\ way[t + 1] \in new.mark
  <2> SUFFICES ASSUME NEW t \in moved
               PROVE  way[t] \in Cells2(t) /\ way[t + 1] \in Cells2(t)
    BY <1>1
  <2>1. Marking(Kind(even, odd, t), way[t + 1], way[t])
    BY <1>2, Zenon
  <2>2. way[t] \in Between(Kind(even, odd, t)[way[t + 1]], way[t])
        /\ way[t + 1] \in Between(Kind(even, odd, t)[way[t + 1]], way[t])
    BY <2>1 DEF Marking
  <2>3. QED
    BY <2>2 DEF Cells2
<1>9. way[0] \in net.mark /\ way[numTurns] = c /\ pin \in DOMAIN net.pins /\ pin \notin net.routed
  BY DEF Trail
<1>10. c \in new.mark
  <2>1. CASE way[0] = c
    BY <1>1, <1>9, <2>1
  <2>2. CASE way[0] # c
    <3>1. \E t \in moved : way[t + 1] = c
      BY <1>9, <2>2, WayMoves DEF moved
    <3>2. QED
      BY <1>8, <3>1
  <2>3. QED
    BY <2>1, <2>2
<1>11. \A j \in new.routed : new.pins[j] \in new.mark
  BY <1>1, <1>10 DEF Routing
<1>12. ASSUME NEW k \in DOMAIN new.routes
       PROVE  /\ k = <<k[1], k[2]>> /\ k[1] \in new.routed
              /\ new.routes[k][1] \in P /\ new.routes[k][2] \in P
              /\ new.routes[k][1] # new.routes[k][2]
              /\ \E f \in {even, odd} : Marking(f, new.routes[k][1], new.routes[k][2])
  <2>1. CASE k \in DOMAIN net.routes
    <3>1. new.routes[k] = net.routes[k]
      BY <1>2, <2>1
    <3>2. QED
      BY <1>1, <2>1, <3>1 DEF Routing
  <2>2. CASE \E t \in moved : k = <<pin, t>>
    <3>1. PICK t \in moved : k = <<pin, t>>
      BY <2>2
    <3>2. new.routes[k][1] = way[t + 1] /\ new.routes[k][2] = way[t]
      BY <1>2, <3>1
    <3>3. k = <<k[1], k[2]>> /\ k[1] \in new.routed
      BY <1>1, <3>1
    <3>4. QED
      BY <1>2, <1>3, <3>2, <3>3, Zenon
  <2>3. QED
    BY <1>2, <2>1, <2>2
<1>13. new.routed # {1}
  BY <1>1, <1>9 DEF Routing
<1>14. \A t \in moved : \A x \in Cells2(t) :
         \E k \in DOMAIN new.routes : Reached(even, odd, new.routes[k][1], new.routes[k][2], x)
  <2> SUFFICES ASSUME NEW t \in moved, NEW x \in Cells2(t)
               PROVE  Reached(even, odd, new.routes[<<pin, t>>][1], new.routes[<<pin, t>>][2], x)
    BY <1>2, Zenon
  <2>1. new.routes[<<pin, t>>][1] = way[t + 1] /\ new.routes[<<pin, t>>][2] = way[t]
    BY <1>2
  <2>2. Marking(Kind(even, odd, t), way[t + 1], way[t])
        /\ x \in Between(Kind(even, odd, t)[way[t + 1]], way[t])
    BY <1>2, Zenon DEF Cells2
  <2>3. QED
    BY <1>3, <2>1, <2>2 DEF Reached
<1>15. \A x \in net.mark :
         \E k \in DOMAIN new.routes : Reached(even, odd, new.routes[k][1], new.routes[k][2], x)
  <2> SUFFICES ASSUME NEW x \in net.mark
               PROVE  \E k \in DOMAIN new.routes : Reached(even, odd, new.routes[k][1], new.routes[k][2], x)
    OBVIOUS
  <2>1. CASE net.routed # {1}
    <3>1. PICK k \in DOMAIN net.routes : Reached(even, odd, net.routes[k][1], net.routes[k][2], x)
      BY <2>1 DEF Routing
    <3>2. QED
      BY <1>2, <3>1
  <2>2. CASE net.routed = {1}
    <3>1. net.mark = {net.pins[1]}
      BY <2>2 DEF Routing
    <3>2. x = way[0] /\ x = net.pins[1]
      BY <1>9, <3>1
    <3>3. pin # 1 /\ 1 \in DOMAIN net.pins
      BY <1>9, <2>2 DEF Routing
    <3>4. way[0] # way[numTurns]
      BY <1>9, <3>2, <3>3 DEF GoodPins
    <3>5. PICK t \in moved : way[t] = way[0]
      BY <3>4, WayMoves DEF moved
    <3>6. x \in Cells2(t)
      <4>1. Marking(Kind(even, odd, t), way[t + 1], way[t])
        BY <1>2, Zenon
      <4>2. way[t] \in Between(Kind(even, odd, t)[way[t + 1]], way[t])
        BY <4>1 DEF Marking
      <4>3. x = way[t]
        BY <3>2, <3>5, Zenon
      <4>4. QED
        BY <4>2, <4>3 DEF Cells2
    <3>7. QED
      BY <1>14, <3>6
  <2>3. QED
    BY <2>1, <2>2
<1>16. \A x \in new.mark :
         \E k \in DOMAIN new.routes : Reached(even, odd, new.routes[k][1], new.routes[k][2], x)
  BY <1>1, <1>14, <1>15
<1>17. QED
  BY <1>1, <1>4, <1>5, <1>7, <1>11, <1>12, <1>13, <1>16, Zenon DEF Routing

RouteCells(r) == UNION {{r[k][1], r[k][2]} : k \in DOMAIN r}

(* S has all ends of routes on a route, or none.                           *)
Linked(even, odd, r, S) ==
  \A k \in DOMAIN r : \A x, y \in RouteCells(r) :
    /\ Reached(even, odd, r[k][1], r[k][2], x)
    /\ Reached(even, odd, r[k][1], r[k][2], y)
    /\ x \in S
    => y \in S

(* The routes hang together, at the first pin.                             *)
HangTogether(even, odd, net) ==
  \A S : net.pins[1] \in S /\ Linked(even, odd, net.routes, S) => RouteCells(net.routes) \subseteq S

(* On lines whose positions increase no pin is marked before it is         *)
(* connected, so that every one becomes the end of a route.                *)
FineRouting(P, even, odd, net) ==
  /\ Routing(P, even, odd, net)
  /\ \A j \in DOMAIN net.pins : j \notin net.routed => net.pins[j] \notin net.mark
  /\ net.routed # {1} => \A j \in net.routed : net.pins[j] \in RouteCells(net.routes)
  /\ HangTogether(even, odd, net)

(* So it is before the first connection. *)
LEMMA UnroutedFine ==
  ASSUME NEW P, NEW even, NEW odd, NEW pins, GoodPins(P, pins)
  PROVE  FineRouting(P, even, odd, Unrouted(pins))
<1> DEFINE net == Unrouted(pins)
<1>1. Routing(P, even, odd, net)
  BY UnroutedRouting
<1>2. net.pins = pins /\ net.routed = {1} /\ net.mark = {pins[1]} /\ net.routes = <<>>
  BY DEF Unrouted
<1> HIDE DEF net
<1>3. \A j \in DOMAIN net.pins : j \notin net.routed => net.pins[j] \notin net.mark
  BY <1>2 DEF GoodPins
<1>4. RouteCells(net.routes) = {}
  BY <1>2 DEF RouteCells
<1>5. HangTogether(even, odd, net)
  BY <1>4 DEF HangTogether
<1>6. QED
  BY <1>1, <1>2, <1>3, <1>5 DEF FineRouting, net

(* The routes of a way hang together with those there were. *)
LEMMA TrailHangs ==
  ASSUME NEW P, NEW even, NEW odd, NEW numTurns \in Nat, NEW net, NEW pin, NEW way,
         GoodPins(P, net.pins), Routing(P, even, odd, net), HangTogether(even, odd, net),
         Trail(P, even, odd, numTurns, net, pin, way), way[0] # net.pins[pin],
         NEW new, new.pins = net.pins,
         Extended(P, even, odd, numTurns, net, new, pin, way)
  PROVE  HangTogether(even, odd, new)
<1> DEFINE moved == Moved(way, numTurns)
<1>1. /\ \A k \in DOMAIN net.routes : k \in DOMAIN new.routes /\ new.routes[k] = net.routes[k]
      /\ \A t \in moved :
           /\ <<pin, t>> \in DOMAIN new.routes /\ new.routes[<<pin, t>>] = <<way[t + 1], way[t]>>
           /\ Marking(Kind(even, odd, t), way[t + 1], way[t])
      /\ \A k \in DOMAIN new.routes : k \in DOMAIN net.routes \/ \E t \in moved : k = <<pin, t>>
  BY DEF Extended
<1> SUFFICES ASSUME NEW S, new.pins[1] \in S, Linked(even, odd, new.routes, S)
             PROVE  RouteCells(new.routes) \subseteq S
  BY DEF HangTogether
<1>2. RouteCells(net.routes) \subseteq RouteCells(new.routes)
  BY <1>1 DEF RouteCells
<1>3. Linked(even, odd, net.routes, S)
  <2> SUFFICES ASSUME NEW k \in DOMAIN net.routes,
                      NEW x \in RouteCells(net.routes), NEW y \in RouteCells(net.routes),
                      Reached(even, odd, net.routes[k][1], net.routes[k][2], x),
                      Reached(even, odd, net.routes[k][1], net.routes[k][2], y),
                      x \in S
               PROVE  y \in S
    BY DEF Linked
  <2>1. k \in DOMAIN new.routes /\ new.routes[k] = net.routes[k]
    BY <1>1
  <2>2. x \in RouteCells(new.routes) /\ y \in RouteCells(new.routes)
    BY <1>2
  <2>3. QED
    BY <2>1, <2>2 DEF Linked
<1>4. RouteCells(net.routes) \subseteq S
  BY <1>3 DEF HangTogether
<1>5. way[numTurns] = net.pins[pin] /\ way[0] \in net.mark
  BY DEF Trail
<1>6. PICK first \in moved : way[first] = way[0]
  BY <1>5, WayMoves
<1> HIDE DEF moved
<1>7. \A t \in moved : /\ way[t] \in RouteCells(new.routes) /\ way[t + 1] \in RouteCells(new.routes)
                       /\ Reached(even, odd, new.routes[<<pin, t>>][1], new.routes[<<pin, t>>][2], way[t])
                       /\ Reached(even, odd, new.routes[<<pin, t>>][1], new.routes[<<pin, t>>][2], way[t + 1])
  <2> SUFFICES ASSUME NEW t \in moved
               PROVE  /\ way[t] \in RouteCells(new.routes) /\ way[t + 1] \in RouteCells(new.routes)
                      /\ Reached(even, odd, new.routes[<<pin, t>>][1], new.routes[<<pin, t>>][2], way[t])
                      /\ Reached(even, odd, new.routes[<<pin, t>>][1], new.routes[<<pin, t>>][2], way[t + 1])
    OBVIOUS
  <2> DEFINE f == Kind(even, odd, t)
  <2>1. /\ <<pin, t>> \in DOMAIN new.routes
        /\ new.routes[<<pin, t>>][1] = way[t + 1] /\ new.routes[<<pin, t>>][2] = way[t]
    BY <1>1
  <2>2. f \in {even, odd}
    BY DEF Kind
  <2>3. /\ Marking(f, way[t + 1], way[t])
        /\ way[t] \in Between(f[way[t + 1]], way[t])
        /\ way[t + 1] \in Between(f[way[t + 1]], way[t])
    BY <1>1, Zenon DEF Marking
  <2> HIDE DEF f
  <2>4. way[t] \in RouteCells(new.routes) /\ way[t + 1] \in RouteCells(new.routes)
    BY <2>1 DEF RouteCells
  <2>5. QED
    BY <2>1, <2>2, <2>3, <2>4 DEF Reached
<1>8. way[0] \in S
  <2>1. CASE net.routed = {1}
    BY <1>5, <2>1 DEF Routing
  <2>2. CASE net.routed # {1}
    <3>1. PICK k \in DOMAIN net.routes : Reached(even, odd, net.routes[k][1], net.routes[k][2], way[0])
      BY <1>5, <2>2 DEF Routing
    <3>2. k \in DOMAIN new.routes /\ new.routes[k] = net.routes[k]
      BY <1>1
    <3>3. Reached(even, odd, net.routes[k][1], net.routes[k][2], net.routes[k][1])
      BY <3>1 DEF Reached, Marking
    <3>4. net.routes[k][1] \in RouteCells(net.routes)
      BY DEF RouteCells
    <3>5. net.routes[k][1] \in RouteCells(new.routes) /\ net.routes[k][1] \in S
      BY <1>2, <1>4, <3>4
    <3>6. way[0] \in RouteCells(new.routes)
      BY <1>6, <1>7, Zenon
    <3>7. QED
      BY <3>1, <3>2, <3>3, <3>5, <3>6 DEF Linked
  <2>3. QED
    BY <2>1, <2>2
<1>9. \A t \in 0 .. numTurns : way[t] \in S
  <2> DEFINE F == {t \in Nat : t <= numTurns => way[t] \in S}
  <2>1. 0 \in F
    BY <1>8
  <2>2. ASSUME NEW t \in Nat, t \in F
        PROVE  t + 1 \in F
    <3> SUFFICES ASSUME t + 1 <= numTurns
                 PROVE  way[t + 1] \in S
      OBVIOUS
    <3>1. way[t] \in S /\ t \in 0 .. numTurns - 1
      BY <2>2
    <3>2. CASE way[t + 1] = way[t]
      BY <3>1, <3>2
    <3>3. CASE way[t + 1] # way[t]
      <4>1. t \in moved
        BY <3>1, <3>3 DEF moved, Moved
      <4>2. <<pin, t>> \in DOMAIN new.routes
        BY <1>1, <4>1
      <4>3. QED
        BY <1>7, <3>1, <4>1, <4>2 DEF Linked
    <3>4. QED
      BY <3>2, <3>3
  <2>3. Nat \subseteq F
    <3> HIDE DEF F
    <3>1. QED
      BY <2>1, <2>2, GrowingNumbers
  <2>4. QED
    BY <2>3
<1>10. ASSUME NEW k \in DOMAIN new.routes
       PROVE  new.routes[k][1] \in S /\ new.routes[k][2] \in S
  <2>1. CASE k \in DOMAIN net.routes
    <3>1. new.routes[k] = net.routes[k]
      BY <1>1, <2>1
    <3>2. QED
      BY <1>4, <2>1, <3>1 DEF RouteCells
  <2>2. CASE \E t \in moved : k = <<pin, t>>
    <3>1. PICK t \in moved : k = <<pin, t>>
      BY <2>2
    <3>2. new.routes[k][1] = way[t + 1] /\ new.routes[k][2] = way[t]
      BY <1>1, <3>1
    <3>3. t \in 0 .. numTurns /\ t + 1 \in 0 .. numTurns
      BY DEF moved, Moved
    <3>4. QED
      BY <1>9, <3>2, <3>3
  <2>3. QED
    BY <1>1, <2>1, <2>2
<1>11. QED
  BY <1>10 DEF RouteCells

(* One iteration keeps what holds of a fine route. *)
LEMMA FineConnect ==
  ASSUME NEW P, NEW even, NEW odd, GoodLines(even, P), GoodLines(odd, P),
         OneLine(even), OneLine(odd), Increasing(even), Increasing(odd),
         NEW numTurns \in Nat, NEW net, GoodPins(P, net.pins), FineRouting(P, even, odd, net)
  PROVE  /\ FineRouting(P, even, odd, Connect(net, even, odd, numTurns))
         /\ Connect(net, even, odd, numTurns).pins = net.pins
<1> DEFINE new == Connect(net, even, odd, numTurns)
<1> HIDE DEF new
<1> SUFFICES FineRouting(P, even, odd, new) /\ new.pins = net.pins
  BY DEF new
<1>1. CASE new = net
  BY <1>1
<1>2. CASE \E pin, way : /\ new = Traced(net, pin, even, odd, way, numTurns)
                         /\ Trail(P, even, odd, numTurns, net, pin, way)
                         /\ Avoids(even, odd, numTurns, net, pin, way)
  <2>1. PICK pin, way : /\ new = Traced(net, pin, even, odd, way, numTurns)
                        /\ Trail(P, even, odd, numTurns, net, pin, way)
                        /\ Avoids(even, odd, numTurns, net, pin, way)
    BY <1>2
  <2> DEFINE moved == Moved(way, numTurns)
             Strip(t) == Between(Kind(even, odd, t)[way[t + 1]], way[t])
             c == net.pins[pin]
  <2>2. Routing(P, even, odd, net)
    BY DEF FineRouting
  <2>3. Routing(P, even, odd, new) /\ new.pins = net.pins
    BY <2>1, <2>2, RoutingTrail
  <2>4. Extended(P, even, odd, numTurns, net, new, pin, way)
    BY <2>1, <2>2, TrailRoutes
  <2>5. /\ new.routed = net.routed \cup {pin}
        /\ new.mark = net.mark \cup UNION {Strip(t) : t \in moved}
    BY <2>1, TracedFacts
  <2>6. /\ pin \in DOMAIN net.pins /\ pin \notin net.routed
        /\ way[0] \in net.mark /\ way[numTurns] = c
    BY <2>1 DEF Trail
  <2>7. way[0] # c
    BY <2>6 DEF FineRouting
  <2>8. ASSUME NEW j \in DOMAIN new.pins, j \notin new.routed
        PROVE  new.pins[j] \notin new.mark
    <3>1. j \in DOMAIN net.pins /\ j \notin net.routed /\ j # pin /\ new.pins[j] = net.pins[j]
      BY <2>3, <2>5, <2>8
    <3>2. net.pins[j] \notin net.mark
      BY <3>1 DEF FineRouting
    <3>3. moved \subseteq 0 .. numTurns - 1
      BY DEF Moved
    <3>4. \A t \in moved : net.pins[j] \notin Strip(t)
      <4> HIDE DEF moved
      <4>1. QED
        BY <2>1, <3>1, <3>3 DEF Avoids
    <3> HIDE DEF moved, Strip
    <3>5. QED
      BY <2>5, <3>1, <3>2, <3>4
  <2>9. /\ \E t \in moved : way[t] = way[0]
        /\ \E t \in moved : way[t + 1] = c
    BY <2>6, <2>7, WayMoves
  <2>10. \A t \in moved : way[t] \in RouteCells(new.routes) /\ way[t + 1] \in RouteCells(new.routes)
    <3> SUFFICES ASSUME NEW t \in moved
                 PROVE  way[t] \in RouteCells(new.routes) /\ way[t + 1] \in RouteCells(new.routes)
      OBVIOUS
    <3>1. <<pin, t>> \in DOMAIN new.routes /\ new.routes[<<pin, t>>] = <<way[t + 1], way[t]>>
      BY <2>4 DEF Extended
    <3>2. QED
      BY <3>1 DEF RouteCells
  <2>11. RouteCells(net.routes) \subseteq RouteCells(new.routes)
    <3>1. \A k \in DOMAIN net.routes : k \in DOMAIN new.routes /\ new.routes[k] = net.routes[k]
      BY <2>4 DEF Extended
    <3>2. QED
      BY <3>1 DEF RouteCells
  <2>12. \A j \in new.routed : new.pins[j] \in RouteCells(new.routes)
    <3> HIDE DEF moved
    <3> SUFFICES ASSUME NEW j \in new.routed
                 PROVE  net.pins[j] \in RouteCells(new.routes)
      BY <2>3
    <3>1. CASE j = pin
      BY <2>9, <2>10, <3>1
    <3>2. CASE j # pin /\ net.routed # {1}
      <4>1. net.pins[j] \in RouteCells(net.routes)
        BY <2>5, <3>2 DEF FineRouting
      <4>2. QED
        BY <2>11, <4>1
    <3>3. CASE j # pin /\ net.routed = {1}
      <4>1. net.mark = {net.pins[1]} /\ j = 1
        BY <2>2, <2>5, <3>3 DEF Routing
      <4>2. way[0] = net.pins[j]
        BY <2>6, <4>1
      <4>3. QED
        BY <2>9, <2>10, <4>2
    <3>4. QED
      BY <3>1, <3>2, <3>3
  <2>13. HangTogether(even, odd, net)
    BY DEF FineRouting
  <2>14. HangTogether(even, odd, new)
    BY <2>1, <2>2, <2>3, <2>4, <2>7, <2>13, TrailHangs
  <2>15. QED
    BY <2>3, <2>8, <2>12, <2>14 DEF FineRouting
<1>3. \A j, k \in DOMAIN net.pins : net.pins[j] = net.pins[k] => j = k
  BY DEF GoodPins
<1>4. \A j \in DOMAIN net.pins : net.pins[j] \in P
  BY DEF GoodPins
<1>5. \/ new = net
      \/ \E pin, way : /\ new = Traced(net, pin, even, odd, way, numTurns)
                       /\ Trail(P, even, odd, numTurns, net, pin, way)
                       /\ Avoids(even, odd, numTurns, net, pin, way)
  <2>1. \/ new = net
        \/ \E pin, way :
              /\ new = Traced(net, pin, even, odd, way, numTurns)
              /\ Trail(P, even, odd, numTurns, net, pin, way)
              /\ Increasing(even) /\ Increasing(odd) =>
                   Avoids(even, odd, numTurns, net, pin, way)
    <3>1. new = Connect(net, even, odd, numTurns)
      BY DEF new
    <3>2. QED
      BY <1>3, <1>4, <3>1, ConnectTrail
  <2>2. QED
    BY <2>1
<1>6. QED
  BY <1>1, <1>2, <1>5
-----------------------------------------------------------------------------
(* The lines of the fine grid.                                             *)

GuidePoints(boxes) == {[l |-> l, c |-> c] : l \in Layers, c \in GuideCells(boxes)}
Vias(boxes) == [p \in GuidePoints(boxes) |-> ViaSegment(p)]
Wires(boxes) == [p \in GuidePoints(boxes) |-> Wire(boxes, p)]

(* Moving a cell: coordinates add, and steps do. *)
LEMMA ShiftFacts ==
  ASSUME NEW c \in Cells, NEW d \in {H, V}
  PROVE  /\ c = <<c[1], c[2]>> /\ Coord(c, d) \in 0 .. getSize(d) - 1 /\ getSize(d) \in Nat
         /\ Shift(c, d, 0) = c
         /\ \A k \in Int : /\ Coord(Shift(c, d, k), d) = Coord(c, d) + k
                           /\ Coord(Shift(c, d, k), 1 - d) = Coord(c, 1 - d)
         /\ \A k, m \in Int : Shift(Shift(c, d, k), d, m) = Shift(c, d, k + m)
         /\ \A k \in Int : Coord(c, d) + k \in 0 .. getSize(d) - 1 => Shift(c, d, k) \in Cells
<1>1. /\ c = <<c[1], c[2]>> /\ c[1] \in 0 .. xSize - 1 /\ c[2] \in 0 .. ySize - 1
      /\ xSize \in Nat /\ ySize \in Nat
  BY GridAssumption DEF Cells
<1>2. CASE d = H
  BY <1>1, <1>2 DEF H, V, Coord, Shift, getSize, Cells
<1>3. CASE d = V
  BY <1>1, <1>3 DEF H, V, Coord, Shift, getSize, Cells
<1>4. QED
  BY <1>2, <1>3

(* The maximal run of joined positions around x. *)
RunLow(J, x) == Min({k \in 0 .. x : \A j \in k .. x - 1 : j \in J})
RunHigh(J, x, n) == Max({k \in x .. n - 1 : \A j \in x .. k - 1 : j \in J})

(* It holds x, and is as long as its positions are joined. *)
LEMMA RunEnds ==
  ASSUME NEW J, NEW n \in Nat, NEW x \in 0 .. n - 1
  PROVE  /\ RunLow(J, x) \in 0 .. x /\ RunHigh(J, x, n) \in x .. n - 1
         /\ \A j \in RunLow(J, x) .. x - 1 : j \in J
         /\ \A j \in x .. RunHigh(J, x, n) - 1 : j \in J
         /\ \A k \in 0 .. x : (\A j \in k .. x - 1 : j \in J) => RunLow(J, x) <= k
         /\ \A k \in x .. n - 1 : (\A j \in x .. k - 1 : j \in J) => k <= RunHigh(J, x, n)
<1> DEFINE A == {k \in 0 .. x : \A j \in k .. x - 1 : j \in J}
           B == {k \in x .. n - 1 : \A j \in x .. k - 1 : j \in J}
<1>1. x \in A /\ x \in B
  OBVIOUS
<1>2. A \subseteq Nat /\ B \subseteq 0 .. n
  OBVIOUS
<1>3. RunLow(J, x) = Min(A) /\ RunHigh(J, x, n) = Max(B)
  BY DEF RunLow, RunHigh
<1>4. Min(A) \in A /\ \A m \in A : Min(A) <= m
  <2> HIDE DEF A
  <2>1. QED
    BY <1>1, <1>2, MinElement, Zenon
<1>5. Max(B) \in B /\ \A m \in B : m <= Max(B)
  <2> HIDE DEF B
  <2>1. QED
    BY <1>1, <1>2, MaxElement, Zenon
<1>6. QED
  BY <1>3, <1>4, <1>5, Zenon

(* It is the same run from each of its positions. *)
LEMMA RunSame ==
  ASSUME NEW J, NEW n \in Nat, NEW x \in 0 .. n - 1,
         NEW y \in RunLow(J, x) .. RunHigh(J, x, n)
  PROVE  RunLow(J, y) = RunLow(J, x) /\ RunHigh(J, y, n) = RunHigh(J, x, n) /\ y \in 0 .. n - 1
<1> DEFINE low == RunLow(J, x)
           high == RunHigh(J, x, n)
<1>1. /\ low \in 0 .. x /\ high \in x .. n - 1
      /\ \A j \in low .. x - 1 : j \in J
      /\ \A j \in x .. high - 1 : j \in J
      /\ \A k \in 0 .. x : (\A j \in k .. x - 1 : j \in J) => low <= k
      /\ \A k \in x .. n - 1 : (\A j \in x .. k - 1 : j \in J) => k <= high
  BY RunEnds, Zenon
<1> DEFINE low2 == RunLow(J, y)
           high2 == RunHigh(J, y, n)
<1> HIDE DEF low, high
<1>2. y \in low .. high
  BY DEF low, high
<1>3. y \in 0 .. n - 1
  BY <1>1, <1>2
<1>4. /\ low2 \in 0 .. y /\ high2 \in y .. n - 1
      /\ \A j \in low2 .. y - 1 : j \in J
      /\ \A j \in y .. high2 - 1 : j \in J
      /\ \A k \in 0 .. y : (\A j \in k .. y - 1 : j \in J) => low2 <= k
      /\ \A k \in y .. n - 1 : (\A j \in y .. k - 1 : j \in J) => k <= high2
  BY <1>3, RunEnds, Zenon
<1> HIDE DEF low2, high2
<1>5. \A j \in low .. high - 1 : j \in J
  <2> SUFFICES ASSUME NEW j \in low .. high - 1
               PROVE  j \in J
    OBVIOUS
  <2>1. CASE j < x
    BY <1>1, <2>1
  <2>2. CASE j >= x
    BY <1>1, <2>2
  <2>3. QED
    BY <1>1, <2>1, <2>2
<1>6. low2 <= low /\ high <= high2
  <2>1. low \in 0 .. y /\ \A j \in low .. y - 1 : j \in J
    BY <1>1, <1>2, <1>5
  <2>2. high \in y .. n - 1 /\ \A j \in y .. high - 1 : j \in J
    BY <1>1, <1>2, <1>5
  <2>3. QED
    BY <1>4, <2>1, <2>2
<1>7. \A j \in low2 .. high2 - 1 : j \in J
  <2> SUFFICES ASSUME NEW j \in low2 .. high2 - 1
               PROVE  j \in J
    OBVIOUS
  <2>1. CASE j < y
    BY <1>4, <2>1
  <2>2. CASE j >= y
    BY <1>4, <2>2
  <2>3. QED
    BY <1>3, <1>4, <2>1, <2>2
<1>8. low <= low2 /\ high2 <= high
  <2>1. low2 \in 0 .. x /\ \A j \in low2 .. x - 1 : j \in J
    BY <1>1, <1>4, <1>6, <1>7
  <2>2. high2 \in x .. n - 1 /\ \A j \in x .. high2 - 1 : j \in J
    BY <1>1, <1>4, <1>6, <1>7
  <2>3. QED
    BY <1>1, <2>1, <2>2
<1>9. low2 = low /\ high2 = high
  BY <1>1, <1>4, <1>6, <1>8
<1>10. QED
  BY <1>3, <1>9 DEF low, high, low2, high2

(* A wire's cost along its row is 1 or 9 for every edge. *)
LEMMA WireCostType == \A e : WireCost(e) \in 1 .. 9
BY DEF WireCost

(* The costs up to a cell of a row are sums of those of one row. *)
LEMMA AlongRow ==
  ASSUME NEW l \in Layers, NEW c \in Cells, NEW k \in Int,
         Coord(c, layerDirections[l]) + k \in 0 .. getSize(layerDirections[l]) - 1
  PROVE  LET d == layerDirections[l]
             n == Coord(c, d)
         IN Along(l, Shift(c, d, k))
              = SumFunction([x \in 0 .. n + k - 1 |-> WireCost(Edge(l, Shift(c, d, x - n)))])
<1> DEFINE d == layerDirections[l]
           n == Coord(c, d)
           b == Shift(c, d, k)
<1>1. d \in {H, V}
  BY GridAssumption
<1> HIDE DEF d
<1>2. /\ n \in Nat /\ n + k \in Nat
      /\ Coord(b, d) = n + k
      /\ \A m \in Int : Shift(b, d, m) = Shift(c, d, k + m)
  <2>1. /\ n \in 0 .. getSize(d) - 1 /\ getSize(d) \in Nat
        /\ \A q \in Int : Coord(Shift(c, d, q), d) = n + q
        /\ \A q, m \in Int : Shift(Shift(c, d, q), d, m) = Shift(c, d, q + m)
    BY <1>1, ShiftFacts
  <2>2. n + k \in 0 .. getSize(d) - 1
    BY DEF d
  <2> HIDE DEF n
  <2>3. n \in Nat /\ n + k \in Nat
    BY <2>1, <2>2
  <2>4. QED
    BY <2>1, <2>3
<1>3. Along(l, b) = SumFunction([x \in 0 .. Coord(b, d) - 1 |-> WireCost(Edge(l, Shift(b, d, x - Coord(b, d))))])
  BY DEF Along, d
<1> HIDE DEF b, n
<1>4. Along(l, b) = SumFunction([x \in 0 .. n + k - 1 |-> WireCost(Edge(l, Shift(b, d, x - (n + k))))])
  BY <1>2, <1>3
<1>5. \A x \in 0 .. n + k - 1 : Shift(b, d, x - (n + k)) = Shift(c, d, x - n)
  <2> SUFFICES ASSUME NEW x \in 0 .. n + k - 1
               PROVE  Shift(b, d, x - (n + k)) = Shift(c, d, x - n)
    OBVIOUS
  <2>1. x - (n + k) \in Int /\ k + (x - (n + k)) = x - n
    BY <1>2
  <2>2. QED
    BY <1>2, <2>1
<1>6. [x \in 0 .. n + k - 1 |-> WireCost(Edge(l, Shift(b, d, x - (n + k))))]
        = [x \in 0 .. n + k - 1 |-> WireCost(Edge(l, Shift(c, d, x - n)))]
  BY <1>5
<1>7. QED
  BY <1>4, <1>6, Zenon DEF b, n, d

(* They grow from cell to cell. *)
LEMMA AlongGrows ==
  ASSUME NEW l \in Layers, NEW c \in Cells, NEW k \in Int, NEW m \in Int, k < m,
         Coord(c, layerDirections[l]) + k \in 0 .. getSize(layerDirections[l]) - 1,
         Coord(c, layerDirections[l]) + m \in 0 .. getSize(layerDirections[l]) - 1
  PROVE  /\ Along(l, Shift(c, layerDirections[l], k)) \in Nat
         /\ Along(l, Shift(c, layerDirections[l], m)) \in Nat
         /\ Along(l, Shift(c, layerDirections[l], k)) < Along(l, Shift(c, layerDirections[l], m))
<1> DEFINE d == layerDirections[l]
           n == Coord(c, d)
           R(x) == WireCost(Edge(l, Shift(c, d, x - n)))
           f == [x \in 0 .. n + m - 1 |-> R(x)]
           g == [x \in 0 .. n + k - 1 |-> R(x)]
           h == [x \in n + k .. n + m - 1 |-> R(x)]
<1>1. d \in {H, V}
  BY GridAssumption
<1>2. n \in Nat /\ n + k \in Nat /\ n + m \in Nat
  BY <1>1, ShiftFacts
<1>3. Along(l, Shift(c, d, k)) = SumFunction(g) /\ Along(l, Shift(c, d, m)) = SumFunction(f)
  BY AlongRow
<1> HIDE DEF d
<1>4. \A x : R(x) \in Nat /\ R(x) > 0
  BY WireCostType
<1> HIDE DEF n, R
<1>5. /\ DOMAIN f = 0 .. n + m - 1 /\ DOMAIN g = 0 .. n + k - 1 /\ DOMAIN h = n + k .. n + m - 1
      /\ \A x \in DOMAIN f : f[x] = R(x)
      /\ \A x \in DOMAIN g : g[x] = R(x)
      /\ \A x \in DOMAIN h : h[x] = R(x)
  OBVIOUS
<1> HIDE DEF f, g, h
<1>6. IsFiniteSet(DOMAIN f) /\ IsFiniteSet(DOMAIN g) /\ IsFiniteSet(DOMAIN h)
  <2>1. IsFiniteSet(0 .. n + m - 1) /\ IsFiniteSet(0 .. n + k - 1) /\ IsFiniteSet(n + k .. n + m - 1)
    <3>1. 0 \in Int /\ n + m - 1 \in Int /\ n + k - 1 \in Int /\ n + k \in Int
      BY <1>2
    <3>2. IsFiniteSet(0 .. n + m - 1)
      BY <3>1, FS_Interval
    <3>3. IsFiniteSet(0 .. n + k - 1)
      BY <3>1, FS_Interval
    <3>4. IsFiniteSet(n + k .. n + m - 1)
      BY <3>1, FS_Interval
    <3>5. QED
      BY <3>2, <3>3, <3>4
  <2>2. QED
    BY <1>5, <2>1
<1>7. DOMAIN g \cap DOMAIN h = {} /\ DOMAIN f = DOMAIN g \cup DOMAIN h
  BY <1>2, <1>5
<1>8. n + k \in DOMAIN h
  BY <1>2, <1>5
<1>9. /\ \A x \in DOMAIN g : g[x] \in Nat /\ f[x] = g[x]
      /\ \A x \in DOMAIN h : h[x] \in Nat /\ f[x] = h[x]
      /\ h[n + k] > 0
  BY <1>4, <1>5, <1>7, <1>8, Zenon
<1>10. SumFunction(f) = SumFunction(g) + SumFunction(h)
  BY <1>6, <1>7, <1>9, SumSplit
<1>11. SumFunction(g) \in Nat /\ SumFunction(h) \in Nat \ {0}
  <2>1. SumFunction(g) \in Nat
    BY <1>6, <1>9, SumType
  <2>2. SumFunction(h) \in Nat \ {0}
    BY <1>6, <1>8, <1>9, SumPositive
  <2>3. QED
    BY <2>1, <2>2
<1>12. QED
  BY <1>3, <1>10, <1>11 DEF d

(* And are numbers. *)
LEMMA AlongType ==
  ASSUME NEW l \in Layers, NEW c \in Cells
  PROVE  Along(l, c) \in Nat
<1> DEFINE d == layerDirections[l]
           n == Coord(c, d)
           f == [x \in 0 .. n - 1 |-> WireCost(Edge(l, Shift(c, d, x - n)))]
<1>1. d \in {H, V}
  BY GridAssumption
<1>2. n \in Nat
  BY <1>1, ShiftFacts
<1>3. IsFiniteSet(DOMAIN f)
  <2>1. IsFiniteSet(0 .. n - 1)
    BY <1>2, FS_Interval
  <2>2. QED
    BY <2>1
<1>4. \A x \in DOMAIN f : f[x] \in Nat
  BY WireCostType
<1>5. SumFunction(f) \in Nat
  <2> HIDE DEF f
  <2>1. QED
    BY <1>3, <1>4, SumType
<1>6. QED
  BY <1>5 DEF Along

(* The positions of the row of c at which a cell is joined with the next.  *)
JoinedAt(boxes, c, d) == {j \in Int : Joined(boxes, Shift(c, d, j - Coord(c, d)), d)}

(* The line of a point of a layer with wires: a run of its row. *)
LEMMA WireShape ==
  ASSUME NEW boxes, NEW p \in GuidePoints(boxes), p.l # 0
  PROVE  LET d == layerDirections[p.l]
             x == Coord(p.c, d)
             low == RunLow(JoinedAt(boxes, p.c, d), x)
             high == RunHigh(JoinedAt(boxes, p.c, d), x, getSize(d))
             At(k) == Shift(p.c, d, k - x)
         IN Wire(boxes, p)
              = [cells |-> [m \in 1 .. high - low + 1 |-> [l |-> p.l, c |-> At(low + m - 1)]],
                 at |-> [m \in 1 .. high - low + 1 |-> Along(p.l, At(low + m - 1))],
                 index |-> x - low + 1, half |-> high - low + 1]
<1> DEFINE d == layerDirections[p.l]
           x == Coord(p.c, d)
           J == JoinedAt(boxes, p.c, d)
           A == {k \in 0 .. x : \A j \in k .. x - 1 : Joined(boxes, Shift(p.c, d, j - x), d)}
           B == {k \in x .. getSize(d) - 1 : \A j \in x .. k - 1 : Joined(boxes, Shift(p.c, d, j - x), d)}
           low == Min(A)
           high == Max(B)
           At(k) == Shift(p.c, d, k - x)
<1>1. d \in {H, V} /\ p.c \in Cells
  BY GridAssumption DEF GuidePoints, GuideCells
<1>2. x \in Nat /\ getSize(d) \in Nat
  <2> HIDE DEF d
  <2>1. QED
    BY <1>1, ShiftFacts
<1>3. Wire(boxes, p)
        = [cells |-> [m \in 1 .. high - low + 1 |-> [l |-> p.l, c |-> At(low + m - 1)]],
           at |-> [m \in 1 .. high - low + 1 |-> Along(p.l, At(low + m - 1))],
           index |-> x - low + 1, half |-> high - low + 1]
  <2>1. Wire(boxes, p)
          = IF p.l = 0 THEN Alone(p)
            ELSE [cells |-> [m \in 1 .. high - low + 1 |-> [l |-> p.l, c |-> At(low + m - 1)]],
                  at |-> [m \in 1 .. high - low + 1 |-> Along(p.l, At(low + m - 1))],
                  index |-> x - low + 1, half |-> high - low + 1]
    BY DEF Wire
  <2> HIDE DEF low, high, d, x
  <2>2. QED
    BY <2>1
<1>4. \A j \in Int : j \in J <=> Joined(boxes, Shift(p.c, d, j - x), d)
  BY DEF JoinedAt
<1> HIDE DEF J, x, d
<1>5. A = {k \in 0 .. x : \A j \in k .. x - 1 : j \in J}
  BY <1>2, <1>4
<1>6. B = {k \in x .. getSize(d) - 1 : \A j \in x .. k - 1 : j \in J}
  <2>1. ASSUME NEW k \in x .. getSize(d) - 1
        PROVE  (\A j \in x .. k - 1 : Joined(boxes, Shift(p.c, d, j - x), d))
                 <=> \A j \in x .. k - 1 : j \in J
    <3>1. x .. k - 1 \subseteq Int
      BY <1>2
    <3>2. QED
      BY <1>4, <3>1
  <2>2. QED
    BY <2>1
<1> HIDE DEF A, B
<1>7. low = RunLow(J, x) /\ high = RunHigh(J, x, getSize(d))
  BY <1>5, <1>6 DEF RunLow, RunHigh
<1> HIDE DEF low, high
<1>8. QED
  BY <1>3, <1>7 DEF J, x, d

(* The points of a run are guide points of the same layer, and their runs  *)
(* are the same.                                                           *)
LEMMA RunPoints ==
  ASSUME NEW boxes, NEW p \in GuidePoints(boxes)
  PROVE  LET d == layerDirections[p.l]
             x == Coord(p.c, d)
             low == RunLow(JoinedAt(boxes, p.c, d), x)
             high == RunHigh(JoinedAt(boxes, p.c, d), x, getSize(d))
             At(k) == Shift(p.c, d, k - x)
         IN /\ d \in {H, V} /\ p.c \in Cells /\ p.l \in Layers
            /\ x \in Nat /\ low \in 0 .. x /\ high \in x .. getSize(d) - 1 /\ getSize(d) \in Nat
            /\ \A k \in low .. high :
                 /\ At(k) \in Cells /\ Coord(At(k), d) = k
                 /\ Coord(At(k), 1 - d) = Coord(p.c, 1 - d)
                 /\ [l |-> p.l, c |-> At(k)] \in GuidePoints(boxes)
                 /\ RunLow(JoinedAt(boxes, At(k), d), k) = low
                 /\ RunHigh(JoinedAt(boxes, At(k), d), k, getSize(d)) = high
                 /\ \A m \in Int : Shift(At(k), d, m - k) = At(m)
<1> DEFINE d == layerDirections[p.l]
           x == Coord(p.c, d)
           J == JoinedAt(boxes, p.c, d)
           n == getSize(d)
           low == RunLow(J, x)
           high == RunHigh(J, x, n)
           At(k) == Shift(p.c, d, k - x)
<1>1. /\ d \in {H, V} /\ p.c \in Cells /\ p.c \in GuideCells(boxes) /\ p.l \in Layers
  BY GridAssumption DEF GuidePoints, GuideCells
<1>2. /\ x \in 0 .. n - 1 /\ n \in Nat
      /\ Shift(p.c, d, 0) = p.c
      /\ \A k \in Int : /\ Coord(Shift(p.c, d, k), d) = x + k
                        /\ Coord(Shift(p.c, d, k), 1 - d) = Coord(p.c, 1 - d)
      /\ \A k, m \in Int : Shift(Shift(p.c, d, k), d, m) = Shift(p.c, d, k + m)
      /\ \A k \in Int : x + k \in 0 .. n - 1 => Shift(p.c, d, k) \in Cells
  <2> HIDE DEF d
  <2>1. QED
    BY <1>1, ShiftFacts
<1>3. \A j \in Int : j \in J <=> Joined(boxes, At(j), d)
  BY DEF JoinedAt
<1>4. J \subseteq Int
  BY DEF JoinedAt
<1> HIDE DEF J
<1>5. /\ low \in 0 .. x /\ high \in x .. n - 1
      /\ \A j \in low .. x - 1 : j \in J
      /\ \A j \in x .. high - 1 : j \in J
  <2> HIDE DEF x, n
  <2>1. QED
    BY <1>2, RunEnds, Zenon
<1>6. \A k \in low .. high : RunLow(J, k) = low /\ RunHigh(J, k, n) = high
  <2> SUFFICES ASSUME NEW k \in RunLow(J, x) .. RunHigh(J, x, n)
               PROVE  RunLow(J, k) = RunLow(J, x) /\ RunHigh(J, k, n) = RunHigh(J, x, n)
    OBVIOUS
  <2> HIDE DEF x, n
  <2>1. QED
    BY <1>2, RunSame
<1> HIDE DEF low, high, n, d, x
<1>7. ASSUME NEW k \in low .. high
      PROVE  /\ At(k) \in Cells /\ Coord(At(k), d) = k
             /\ Coord(At(k), 1 - d) = Coord(p.c, 1 - d)
             /\ \A m \in Int : Shift(At(k), d, m - k) = At(m)
  <2>1. k \in Int /\ k - x \in Int /\ x + (k - x) = k /\ k \in 0 .. n - 1
    BY <1>2, <1>5
  <2>2. ASSUME NEW m \in Int
        PROVE  Shift(At(k), d, m - k) = At(m)
    <3>1. m - k \in Int /\ (k - x) + (m - k) = m - x
      BY <1>2, <2>1
    <3>2. Shift(Shift(p.c, d, k - x), d, m - k) = Shift(p.c, d, (k - x) + (m - k))
      BY <1>2, <2>1, <3>1
    <3>3. QED
      BY <3>1, <3>2
  <2>3. At(k) \in Cells /\ Coord(At(k), d) = k /\ Coord(At(k), 1 - d) = Coord(p.c, 1 - d)
    BY <1>2, <2>1, Zenon
  <2>4. QED
    BY <2>2, <2>3
<1>8. ASSUME NEW k \in low .. high
      PROVE  At(k) \in GuideCells(boxes)
  <2>1. k \in Int /\ low \in Int /\ high \in Int /\ x \in Int
    BY <1>2, <1>5
  <2>2. CASE k < x
    <3>1. Joined(boxes, At(k), d)
      BY <1>3, <1>5, <2>1, <2>2
    <3>2. QED
      BY <1>7, <3>1 DEF Joined, GuideCells
  <2>3. CASE k = x
    <3>1. At(k) = p.c
      <4>1. k - x = 0
        BY <2>1, <2>3
      <4>2. QED
        BY <1>2, <4>1
    <3>2. QED
      BY <1>1, <3>1
  <2>4. CASE k > x
    <3>1. k - 1 \in x .. high - 1 /\ k - 1 \in low .. high /\ k - 1 \in Int
      BY <1>5, <2>1, <2>4
    <3>2. Joined(boxes, At(k - 1), d)
      BY <1>3, <1>5, <3>1
    <3>3. Shift(At(k - 1), d, 1) = At(k)
      <4>1. Shift(At(k - 1), d, k - (k - 1)) = At(k)
        BY <1>7, <2>1, <3>1, Zenon
      <4>2. k - (k - 1) = 1
        BY <2>1
      <4>3. QED
        BY <4>1, <4>2
    <3>4. QED
      BY <1>7, <3>2, <3>3 DEF Joined, GuideCells
  <2>5. QED
    BY <2>1, <2>2, <2>3, <2>4
<1>9. ASSUME NEW k \in low .. high
      PROVE  JoinedAt(boxes, At(k), d) = J
  <2>1. \A j \in Int : j \in JoinedAt(boxes, At(k), d) <=> Joined(boxes, Shift(At(k), d, j - k), d)
    <3>1. Coord(At(k), d) = k
      BY <1>7
    <3> HIDE DEF At
    <3>2. QED
      BY <3>1 DEF JoinedAt
  <2>2. \A j \in Int : j \in JoinedAt(boxes, At(k), d) <=> j \in J
    BY <1>3, <1>7, <2>1
  <2>3. JoinedAt(boxes, At(k), d) \subseteq Int
    BY DEF JoinedAt
  <2> HIDE DEF At
  <2>4. QED
    BY <1>4, <2>2, <2>3, Zenon
<1>10. ASSUME NEW k \in low .. high
       PROVE  /\ [l |-> p.l, c |-> At(k)] \in GuidePoints(boxes)
              /\ RunLow(JoinedAt(boxes, At(k), d), k) = low
              /\ RunHigh(JoinedAt(boxes, At(k), d), k, n) = high
  <2>1. [l |-> p.l, c |-> At(k)] \in GuidePoints(boxes)
    BY <1>1, <1>8 DEF GuidePoints
  <2>2. QED
    BY <1>6, <1>9, <2>1
<1>11. /\ x \in Nat /\ low \in 0 .. x /\ high \in x .. n - 1
  BY <1>2, <1>5
<1>12. \A k \in low .. high :
         /\ At(k) \in Cells /\ Coord(At(k), d) = k
         /\ Coord(At(k), 1 - d) = Coord(p.c, 1 - d)
         /\ [l |-> p.l, c |-> At(k)] \in GuidePoints(boxes)
         /\ RunLow(JoinedAt(boxes, At(k), d), k) = low
         /\ RunHigh(JoinedAt(boxes, At(k), d), k, n) = high
         /\ \A m \in Int : Shift(At(k), d, m - k) = At(m)
  BY <1>7, <1>10
<1>13. QED
  BY <1>1, <1>2, <1>11, <1>12 DEF d, x, n, low, high, J

(* What makes the lines of f good, at one of its cells. *)
GoodAt(f, P, c) ==
  /\ \E len \in Nat : DOMAIN f[c].cells = 1 .. len
  /\ f[c].index \in DOMAIN f[c].cells
  /\ f[c].cells[f[c].index] = c
  /\ \A j \in DOMAIN f[c].cells : f[c].cells[j] \in P /\ f[c].at[j] \in Nat
OneAt(f, c) ==
  \A j \in DOMAIN f[c].cells :
    LET q == f[c].cells[j] IN f[q].cells = f[c].cells /\ f[q].at = f[c].at /\ f[q].index = j
IncreasingAt(f, c) ==
  \A k, j \in DOMAIN f[c].cells : k < j => f[c].at[k] < f[c].at[j]

(* A via segment is one, *)
LEMMA ViaGood ==
  ASSUME NEW boxes, NEW p \in GuidePoints(boxes)
  PROVE  LET f == Vias(boxes) IN GoodAt(f, GuidePoints(boxes), p) /\ OneAt(f, p) /\ IncreasingAt(f, p)
<1> DEFINE f == Vias(boxes)
           P == GuidePoints(boxes)
<1>1. p = [l |-> p.l, c |-> p.c] /\ p.l \in 0 .. nLayers - 1 /\ p.c \in GuideCells(boxes) /\ nLayers \in Nat
  BY GridAssumption DEF GuidePoints, Layers
<1>2. \A q \in P : /\ f[q].cells = [m \in 1 .. nLayers |-> [l |-> m - 1, c |-> q.c]]
                   /\ f[q].at = [m \in 1 .. nLayers |-> m] /\ f[q].index = q.l + 1
  <2>1. \A m \in Int : m * ViaCost = m
    BY DEF ViaCost
  <2>2. [m \in 1 .. nLayers |-> m * ViaCost] = [m \in 1 .. nLayers |-> m]
    BY <2>1
  <2> SUFFICES ASSUME NEW q \in P
               PROVE  /\ f[q].cells = [m \in 1 .. nLayers |-> [l |-> m - 1, c |-> q.c]]
                      /\ f[q].at = [m \in 1 .. nLayers |-> m] /\ f[q].index = q.l + 1
    OBVIOUS
  <2>3. f[q] = ViaSegment(q)
    BY DEF Vias
  <2>4. QED
    BY <2>2, <2>3 DEF ViaSegment
<1>3. \A m \in 1 .. nLayers : [l |-> m - 1, c |-> p.c] \in P
  BY <1>1 DEF GuidePoints, Layers
<1>4. p \in P
  OBVIOUS
<1> HIDE DEF f, P
<1>5. p.l + 1 \in 1 .. nLayers /\ (p.l + 1) - 1 = p.l
  BY <1>1
<1>10. /\ DOMAIN f[p].cells = 1 .. nLayers /\ f[p].index = p.l + 1
       /\ \A j \in 1 .. nLayers : f[p].cells[j] = [l |-> j - 1, c |-> p.c] /\ f[p].at[j] = j
  <2>1. /\ f[p].cells = [m \in 1 .. nLayers |-> [l |-> m - 1, c |-> p.c]]
        /\ f[p].at = [m \in 1 .. nLayers |-> m] /\ f[p].index = p.l + 1
    BY <1>2, <1>4
  <2>2. QED
    BY <2>1
<1>6. GoodAt(f, P, p)
  <2>1. DOMAIN f[p].cells = 1 .. nLayers
    BY <1>10
  <2>2. f[p].cells[f[p].index] = p
    BY <1>1, <1>10, <1>5
  <2>3. ASSUME NEW j \in 1 .. nLayers
        PROVE  f[p].cells[j] \in P /\ f[p].at[j] \in Nat
    <3>1. f[p].cells[j] = [l |-> j - 1, c |-> p.c] /\ f[p].at[j] = j
      BY <1>10
    <3>2. [l |-> j - 1, c |-> p.c] \in P
      BY <1>3
    <3>3. j \in Nat
      OBVIOUS
    <3>4. QED
      BY <3>1, <3>2, <3>3, Zenon
  <2>4. QED
    BY <1>1, <1>2, <1>4, <1>5, <2>1, <2>2, <2>3, Zenon DEF GoodAt
<1>7. OneAt(f, p)
  <2> SUFFICES ASSUME NEW j \in 1 .. nLayers
               PROVE  LET q == f[p].cells[j]
                      IN f[q].cells = f[p].cells /\ f[q].at = f[p].at /\ f[q].index = j
    BY <1>10 DEF OneAt
  <2> DEFINE q == [l |-> j - 1, c |-> p.c]
  <2>1. f[p].cells[j] = q /\ q \in P
    BY <1>10, <1>3
  <2>2. q.l + 1 = j /\ q.c = p.c
    OBVIOUS
  <2> HIDE DEF q
  <2>3. /\ f[q].cells = [m \in 1 .. nLayers |-> [l |-> m - 1, c |-> q.c]]
        /\ f[q].at = [m \in 1 .. nLayers |-> m] /\ f[q].index = q.l + 1
    BY <1>2, <2>1
  <2>4. /\ f[p].cells = [m \in 1 .. nLayers |-> [l |-> m - 1, c |-> p.c]]
        /\ f[p].at = [m \in 1 .. nLayers |-> m]
    BY <1>2, <1>4
  <2>5. /\ f[q].cells = f[p].cells /\ f[q].at = f[p].at /\ f[q].index = j
    BY <2>2, <2>3, <2>4
  <2>6. QED
    BY <2>1, <2>5
<1>8. IncreasingAt(f, p)
    BY <1>10, Zenon DEF IncreasingAt
<1>9. QED
  BY <1>6, <1>7, <1>8 DEF f, P

(* and so is a wire. *)
LEMMA WireGood ==
  ASSUME NEW boxes, NEW p \in GuidePoints(boxes)
  PROVE  LET f == Wires(boxes) IN GoodAt(f, GuidePoints(boxes), p) /\ OneAt(f, p) /\ IncreasingAt(f, p)
<1> DEFINE f == Wires(boxes)
           P == GuidePoints(boxes)
<1>1. p = [l |-> p.l, c |-> p.c] /\ p.l \in Layers
  BY DEF GuidePoints
<1>2. \A q \in P : f[q] = Wire(boxes, q)
  BY DEF Wires
<1>3. CASE p.l = 0
  <2>1. f[p] = [cells |-> <<p>>, at |-> <<0>>, index |-> 1, half |-> 1]
    BY <1>2, <1>3, Zenon DEF Wire, Alone
  <2>2. /\ DOMAIN f[p].cells = 1 .. 1 /\ f[p].cells[1] = p /\ f[p].at[1] = 0 /\ f[p].index = 1
    BY <2>1
  <2>3. p \in P
    OBVIOUS
  <2> HIDE DEF f, P
  <2>4. GoodAt(f, P, p)
    BY <2>2, <2>3 DEF GoodAt
  <2>5. OneAt(f, p)
    BY <2>2 DEF OneAt
  <2>6. IncreasingAt(f, p)
    BY <2>2 DEF IncreasingAt
  <2>7. QED
    BY <2>4, <2>5, <2>6 DEF f, P
<1>4. CASE p.l # 0
  <2> DEFINE d == layerDirections[p.l]
             x == Coord(p.c, d)
             n == getSize(d)
             low == RunLow(JoinedAt(boxes, p.c, d), x)
             high == RunHigh(JoinedAt(boxes, p.c, d), x, n)
             At(k) == Shift(p.c, d, k - x)
             cells == [m \in 1 .. high - low + 1 |-> [l |-> p.l, c |-> At(low + m - 1)]]
             at == [m \in 1 .. high - low + 1 |-> Along(p.l, At(low + m - 1))]
  <2>1. f[p] = [cells |-> cells, at |-> at, index |-> x - low + 1, half |-> high - low + 1]
    <3>1. Wire(boxes, p) = [cells |-> cells, at |-> at, index |-> x - low + 1, half |-> high - low + 1]
      BY <1>4, WireShape
    <3>2. QED
      BY <1>2, <3>1, Zenon
  <2>2. /\ d \in {H, V} /\ p.c \in Cells /\ p.l \in Layers
        /\ x \in Nat /\ low \in 0 .. x /\ high \in x .. n - 1 /\ n \in Nat
        /\ \A k \in low .. high :
             /\ At(k) \in Cells /\ Coord(At(k), d) = k
             /\ Coord(At(k), 1 - d) = Coord(p.c, 1 - d)
             /\ [l |-> p.l, c |-> At(k)] \in P
             /\ RunLow(JoinedAt(boxes, At(k), d), k) = low
             /\ RunHigh(JoinedAt(boxes, At(k), d), k, n) = high
             /\ \A m \in Int : Shift(At(k), d, m - k) = At(m)
    BY RunPoints
  <2>3. At(x) = p.c
    <3>1. x - x = 0
      BY <2>2
    <3>2. QED
      BY <2>2, <3>1, ShiftFacts
  <2>4. \A k, m \in low .. high : k < m =>
          /\ Along(p.l, At(k)) \in Nat /\ Along(p.l, At(m)) \in Nat
          /\ Along(p.l, At(k)) < Along(p.l, At(m))
    <3> SUFFICES ASSUME NEW k \in low .. high, NEW m \in low .. high, k < m
                 PROVE  /\ Along(p.l, At(k)) \in Nat /\ Along(p.l, At(m)) \in Nat
                        /\ Along(p.l, At(k)) < Along(p.l, At(m))
      OBVIOUS
    <3>1. /\ k - x \in Int /\ m - x \in Int /\ k - x < m - x
          /\ x + (k - x) \in 0 .. n - 1 /\ x + (m - x) \in 0 .. n - 1
      <4> HIDE DEF x, low, high, n, d, At
      <4>1. QED
        BY <2>2
    <3>2. QED
      BY <2>2, <3>1, AlongGrows
  <2>5. \A k \in low .. high : Along(p.l, At(k)) \in Nat
    BY <2>2, AlongType, Zenon
  <2>6. p \in P
    OBVIOUS
  <2>7. ASSUME NEW k \in low .. high
        PROVE  LET q == [l |-> p.l, c |-> At(k)]
               IN f[q].cells = cells /\ f[q].at = at /\ f[q].index = k - low + 1
    <3> DEFINE q == [l |-> p.l, c |-> At(k)]
               At2(m) == Shift(q.c, d, m - k)
    <3>1. q \in P /\ q.l = p.l /\ q.c = At(k) /\ Coord(q.c, d) = k
      BY <2>2
    <3>2. \A m \in Int : At2(m) = At(m)
      BY <2>2, Zenon
    <3>3. /\ RunLow(JoinedAt(boxes, q.c, d), k) = low
          /\ RunHigh(JoinedAt(boxes, q.c, d), k, n) = high
      BY <2>2, Zenon
    <3>4. Wire(boxes, q)
            = LET low2 == RunLow(JoinedAt(boxes, q.c, layerDirections[q.l]), Coord(q.c, layerDirections[q.l]))
                  high2 == RunHigh(JoinedAt(boxes, q.c, layerDirections[q.l]),
                                   Coord(q.c, layerDirections[q.l]), getSize(layerDirections[q.l]))
                  At3(m) == Shift(q.c, layerDirections[q.l], m - Coord(q.c, layerDirections[q.l]))
              IN [cells |-> [m \in 1 .. high2 - low2 + 1 |-> [l |-> q.l, c |-> At3(low2 + m - 1)]],
                  at |-> [m \in 1 .. high2 - low2 + 1 |-> Along(q.l, At3(low2 + m - 1))],
                  index |-> Coord(q.c, layerDirections[q.l]) - low2 + 1, half |-> high2 - low2 + 1]
      <4> HIDE DEF q
      <4>1. q \in GuidePoints(boxes) /\ q.l # 0
        BY <1>4, <3>1
      <4>2. QED
        BY <4>1, WireShape
    <3> HIDE DEF q, low, high, n, At, f
    <3>5. Wire(boxes, q)
            = [cells |-> [m \in 1 .. high - low + 1 |-> [l |-> p.l, c |-> At2(low + m - 1)]],
               at |-> [m \in 1 .. high - low + 1 |-> Along(p.l, At2(low + m - 1))],
               index |-> k - low + 1, half |-> high - low + 1]
      BY <3>1, <3>3, <3>4, Zenon DEF n
    <3>6. \A m \in 1 .. high - low + 1 : At2(low + m - 1) = At(low + m - 1)
      <4>1. \A m \in 1 .. high - low + 1 : low + m - 1 \in Int
        BY <2>2
      <4>2. QED
        BY <3>2, <4>1
    <3> HIDE DEF At2
    <3>7. /\ [m \in 1 .. high - low + 1 |-> [l |-> p.l, c |-> At2(low + m - 1)]] = cells
          /\ [m \in 1 .. high - low + 1 |-> Along(p.l, At2(low + m - 1))] = at
      BY <3>6
    <3>8. f[q] = Wire(boxes, q)
      BY <1>2, <3>1
    <3> HIDE DEF cells, at
    <3>9. f[q] = [cells |-> cells, at |-> at, index |-> k - low + 1, half |-> high - low + 1]
      BY <3>5, <3>7, <3>8, Zenon
    <3>10. f[q].cells = cells /\ f[q].at = at /\ f[q].index = k - low + 1
      BY <3>9
    <3>11. QED
      BY <3>10 DEF q
  <2> DEFINE len == high - low + 1
  <2>8. /\ \A m \in 1 .. len : cells[m] = [l |-> p.l, c |-> At(low + m - 1)]
        /\ \A m \in 1 .. len : at[m] = Along(p.l, At(low + m - 1))
        /\ DOMAIN cells = 1 .. len
    OBVIOUS
  <2> HIDE DEF x, n, low, high, At, cells, at, f, P, d
  <2>9. /\ len \in Nat /\ x - low + 1 \in 1 .. len
        /\ low + (x - low + 1) - 1 = x
        /\ \A m \in 1 .. len : m \in Int /\ low + m - 1 \in low .. high /\ (low + m - 1) - low + 1 = m
    BY <2>2
  <2>10. \A k, m \in 1 .. len : k < m => low + k - 1 < low + m - 1
    BY <2>2
  <2> HIDE DEF len
  <2>11. f[p].cells = cells /\ f[p].at = at /\ f[p].index = x - low + 1
    BY <2>1
  <2>12. GoodAt(f, P, p)
    <3>1. cells[x - low + 1] = p
      BY <1>1, <2>3, <2>8, <2>9
    <3>2. \A j \in 1 .. len : cells[j] \in P /\ at[j] \in Nat
      BY <2>2, <2>5, <2>8, <2>9, Zenon
    <3>3. QED
      BY <2>8, <2>9, <2>11, <3>1, <3>2, Zenon DEF GoodAt
  <2>13. OneAt(f, p)
    <3> SUFFICES ASSUME NEW j \in 1 .. len
                 PROVE  f[cells[j]].cells = cells /\ f[cells[j]].at = at /\ f[cells[j]].index = j
      BY <2>8, <2>11 DEF OneAt
    <3>1. low + j - 1 \in low .. high /\ (low + j - 1) - low + 1 = j
      BY <2>9
    <3>2. cells[j] = [l |-> p.l, c |-> At(low + j - 1)]
      BY <2>8
    <3>3. QED
      BY <2>7, <3>1, <3>2
  <2>14. IncreasingAt(f, p)
    <3> SUFFICES ASSUME NEW k \in 1 .. len, NEW j \in 1 .. len, k < j
                 PROVE  at[k] < at[j]
      BY <2>8, <2>11 DEF IncreasingAt
    <3>1. low + k - 1 \in low .. high /\ low + j - 1 \in low .. high /\ low + k - 1 < low + j - 1
      BY <2>9, <2>10, Zenon
    <3>2. QED
      BY <2>4, <2>8, <3>1
  <2>15. QED
    BY <2>12, <2>13, <2>14 DEF f, P
<1>5. QED
  BY <1>3, <1>4

(* The lines of the fine grid are good ones. *)
LEMMA FineLines ==
  ASSUME NEW boxes
  PROVE  LET P == GuidePoints(boxes)
         IN /\ GoodLines(Vias(boxes), P) /\ OneLine(Vias(boxes)) /\ Increasing(Vias(boxes))
            /\ GoodLines(Wires(boxes), P) /\ OneLine(Wires(boxes)) /\ Increasing(Wires(boxes))
<1> DEFINE P == GuidePoints(boxes)
<1>1. DOMAIN Vias(boxes) = P /\ DOMAIN Wires(boxes) = P
  BY DEF Vias, Wires
<1>2. ASSUME NEW f \in {Vias(boxes), Wires(boxes)}
      PROVE  GoodLines(f, P) /\ OneLine(f) /\ Increasing(f)
  <2>1. \A p \in P : GoodAt(f, P, p) /\ OneAt(f, p) /\ IncreasingAt(f, p)
    BY ViaGood, WireGood
  <2>2. DOMAIN f = P
    BY <1>1
  <2> HIDE DEF P
  <2>3. GoodLines(f, P)
    BY <2>1, <2>2 DEF GoodLines, GoodAt
  <2>4. OneLine(f)
    BY <2>1, <2>2 DEF OneLine, OneAt
  <2>5. Increasing(f)
    BY <2>1, <2>2 DEF Increasing, IncreasingAt
  <2>6. QED
    BY <2>3, <2>4, <2>5
<1>3. QED
  BY <1>2
-----------------------------------------------------------------------------
(* The routes of the fine grid.                                            *)

(* Numbers of two digits are in the order of the first. *)
LEMMA Digits ==
  ASSUME NEW n \in Nat, NEW a \in Nat, NEW b \in Nat, a < b,
         NEW x \in 0 .. n - 1, NEW y \in 0 .. n - 1
  PROVE  a * n + x \in Nat /\ b * n + y \in Nat /\ a * n + x < b * n + y
<1>1. b - a - 1 \in Nat
  OBVIOUS
<1>2. (b - a - 1) * n \in Nat /\ a * n \in Nat /\ b * n \in Nat
  BY <1>1
<1>3. b * n = a * n + n + (b - a - 1) * n
  OBVIOUS
<1>4. QED
  BY <1>2, <1>3

(* Indices are numbers in the order of the layers, then of the rows, then  *)
(* of the positions in them.                                               *)
LEMMA IndexOrder ==
  ASSUME NEW p \in Points, NEW q \in Points
  PROVE  LET d == layerDirections[p.l]
         IN /\ Index(p) \in Nat /\ Index(q) \in Nat
            /\ p.l < q.l => Index(p) < Index(q)
            /\ p.l = q.l /\ Coord(p.c, 1 - d) < Coord(q.c, 1 - d) => Index(p) < Index(q)
            /\ p.l = q.l /\ Coord(p.c, 1 - d) = Coord(q.c, 1 - d) /\ Coord(p.c, d) < Coord(q.c, d)
                 => Index(p) < Index(q)
<1> DEFINE n == High(xSize, ySize)
<1>1. /\ n \in Nat
      /\ \A r \in Points : /\ r.l \in Nat
                           /\ layerDirections[r.l] \in {H, V}
                           /\ Coord(r.c, 1 - layerDirections[r.l]) \in 0 .. n - 1
                           /\ Coord(r.c, layerDirections[r.l]) \in 0 .. n - 1
  <2>1. xSize \in Nat /\ ySize \in Nat /\ n \in Nat /\ xSize <= n /\ ySize <= n
    BY GridAssumption DEF High
  <2> SUFFICES ASSUME NEW r \in Points
               PROVE  /\ r.l \in Nat
                      /\ layerDirections[r.l] \in {H, V}
                      /\ Coord(r.c, 1 - layerDirections[r.l]) \in 0 .. n - 1
                      /\ Coord(r.c, layerDirections[r.l]) \in 0 .. n - 1
    BY <2>1
  <2>2. r.l \in 0 .. nLayers - 1 /\ r.c[1] \in 0 .. xSize - 1 /\ r.c[2] \in 0 .. ySize - 1
    BY DEF Points, Layers, Cells
  <2>3. layerDirections[r.l] \in {0, 1} /\ r.l \in Nat
    BY <2>2, GridAssumption DEF H, V, Layers
  <2> HIDE DEF n
  <2>4. r.c[1] \in 0 .. n - 1 /\ r.c[2] \in 0 .. n - 1
    BY <2>1, <2>2
  <2>5. QED
    BY <2>3, <2>4 DEF Coord, H, V
<1>2. \A r : Index(r) = (r.l * n + Coord(r.c, 1 - layerDirections[r.l])) * n + Coord(r.c, layerDirections[r.l])
  BY DEF Index
<1> HIDE DEF n
<1> DEFINE up(r) == r.l * n + Coord(r.c, 1 - layerDirections[r.l])
<1>3. \A r \in Points : up(r) \in Nat /\ Index(r) \in Nat
  <2> SUFFICES ASSUME NEW r \in Points
               PROVE  up(r) \in Nat /\ Index(r) \in Nat
    OBVIOUS
  <2>1. r.l * n \in Nat
    BY <1>1
  <2>2. up(r) \in Nat
    BY <1>1, <2>1
  <2> HIDE DEF up
  <2>3. up(r) * n \in Nat
    BY <1>1, <2>2
  <2>4. Index(r) = up(r) * n + Coord(r.c, layerDirections[r.l])
    BY <1>2 DEF up
  <2>5. QED
    BY <1>1, <2>2, <2>3, <2>4
<1>4. up(p) < up(q) => Index(p) < Index(q)
  <2> SUFFICES ASSUME up(p) < up(q)
               PROVE  Index(p) < Index(q)
    OBVIOUS
  <2>1. /\ Index(p) = up(p) * n + Coord(p.c, layerDirections[p.l])
        /\ Index(q) = up(q) * n + Coord(q.c, layerDirections[q.l])
    BY <1>2
  <2> HIDE DEF up
  <2>2. QED
    BY <1>1, <1>3, <2>1, Digits
<1>5. p.l < q.l => up(p) < up(q)
  BY <1>1, Digits
<1>6. p.l = q.l /\ Coord(p.c, 1 - layerDirections[p.l]) < Coord(q.c, 1 - layerDirections[p.l])
        => up(p) < up(q)
  <2> SUFFICES ASSUME p.l = q.l, Coord(p.c, 1 - layerDirections[p.l]) < Coord(q.c, 1 - layerDirections[p.l])
               PROVE  up(p) < up(q)
    OBVIOUS
  <2>1. p.l * n \in Nat
    BY <1>1
  <2>2. up(q) = p.l * n + Coord(q.c, 1 - layerDirections[p.l])
    OBVIOUS
  <2>3. Coord(p.c, 1 - layerDirections[p.l]) \in Nat /\ Coord(q.c, 1 - layerDirections[p.l]) \in Nat
    BY <1>1
  <2>4. QED
    BY <2>1, <2>2, <2>3
<1>7. ASSUME p.l = q.l, Coord(p.c, 1 - layerDirections[p.l]) = Coord(q.c, 1 - layerDirections[p.l]),
             Coord(p.c, layerDirections[p.l]) < Coord(q.c, layerDirections[p.l])
      PROVE  Index(p) < Index(q)
  <2>1. up(p) = up(q)
    BY <1>7
  <2>2. /\ Index(p) = up(p) * n + Coord(p.c, layerDirections[p.l])
        /\ Index(q) = up(p) * n + Coord(q.c, layerDirections[p.l])
    BY <1>2, <1>7, <2>1
  <2>3. Coord(p.c, layerDirections[p.l]) \in Nat /\ Coord(q.c, layerDirections[p.l]) \in Nat
    BY <1>1, <1>7
  <2>4. up(p) * n \in Nat
    <3> HIDE DEF up
    <3>1. QED
      BY <1>1, <1>3
  <2> HIDE DEF up
  <2>5. QED
    BY <1>7, <2>2, <2>3, <2>4
<1>8. QED
  BY <1>3, <1>4, <1>5, <1>6, <1>7

(* So different points have different indices. *)
LEMMA IndexInjective ==
  ASSUME NEW p \in Points, NEW q \in Points, Index(p) = Index(q)
  PROVE  p = q
<1> DEFINE d == layerDirections[p.l]
<1>1. /\ p = [l |-> p.l, c |-> <<p.c[1], p.c[2]>>] /\ q = [l |-> q.l, c |-> <<q.c[1], q.c[2]>>]
      /\ p.l \in Layers /\ q.l \in Layers /\ p.l \in Nat /\ q.l \in Nat
      /\ p.c[1] \in Nat /\ p.c[2] \in Nat /\ q.c[1] \in Nat /\ q.c[2] \in Nat
  BY GridAssumption DEF Points, Layers, Cells
<1>2. d \in {0, 1}
  BY <1>1, GridAssumption DEF H, V
<1>3. ~(Index(p) < Index(q)) /\ ~(Index(q) < Index(p))
  BY IndexOrder
<1>4. p.l = q.l
  <2>1. ~(p.l < q.l) /\ ~(q.l < p.l)
    BY <1>3, IndexOrder
  <2>2. QED
    BY <1>1, <2>1
<1>5. Coord(p.c, 1 - d) = Coord(q.c, 1 - d)
  <2>1. ~(Coord(p.c, 1 - d) < Coord(q.c, 1 - d)) /\ ~(Coord(q.c, 1 - d) < Coord(p.c, 1 - d))
    BY <1>3, <1>4, IndexOrder
  <2>2. Coord(p.c, 1 - d) \in Nat /\ Coord(q.c, 1 - d) \in Nat
    BY <1>1, <1>2 DEF Coord, H
  <2> HIDE DEF d
  <2>3. QED
    BY <2>1, <2>2
<1>6. Coord(p.c, d) = Coord(q.c, d)
  <2>1. ~(Coord(p.c, d) < Coord(q.c, d)) /\ ~(Coord(q.c, d) < Coord(p.c, d))
    BY <1>3, <1>4, <1>5, IndexOrder
  <2>2. Coord(p.c, d) \in Nat /\ Coord(q.c, d) \in Nat
    BY <1>1, <1>2 DEF Coord, H
  <2> HIDE DEF d
  <2>3. QED
    BY <2>1, <2>2
<1> HIDE DEF d
<1>7. p.c[1] = q.c[1] /\ p.c[2] = q.c[2]
  <2>1. CASE d = 0
    BY <1>5, <1>6, <2>1 DEF Coord, H
  <2>2. CASE d = 1
    BY <1>5, <1>6, <2>2 DEF Coord, H
  <2>3. QED
    BY <1>2, <2>1, <2>2
<1>8. QED
  BY <1>1, <1>4, <1>7

(* x lies between a and b on one via, or on one row of a layer.            *)
Within(a, b, x) == (a <= x /\ x <= b) \/ (b <= x /\ x <= a)
OnVia(a, b, x) == a.c = b.c /\ a.l # b.l /\ x.c = a.c /\ Within(a.l, b.l, x.l)
OnRow(a, b, x) ==
  LET d == layerDirections[a.l]
  IN /\ a.l = b.l /\ x.l = a.l
     /\ Coord(a.c, 1 - d) = Coord(b.c, 1 - d) /\ Coord(x.c, 1 - d) = Coord(a.c, 1 - d)
     /\ Coord(a.c, d) # Coord(b.c, d) /\ Within(Coord(a.c, d), Coord(b.c, d), Coord(x.c, d))

(* A pair in the order of the indices that commitTree accepts.             *)
Segment(s) ==
  /\ s.u \in Points /\ s.v \in Points /\ s.u # s.v
  /\ Legal(s) /\ Index(s.u) < Index(s.v)
  /\ OnRoute(s, s.u) /\ OnRoute(s, s.v)

(* What lies between two points is on the route of the two. *)
LEMMA WithinRoute ==
  ASSUME NEW a \in Points, NEW b \in Points, NEW x \in Points, OnVia(a, b, x) \/ OnRow(a, b, x)
  PROVE  OnRoute(Ordered(a, b), x)
<1> DEFINE d == layerDirections[a.l]
           s == Ordered(a, b)
<1>1. \A r \in Points : /\ r.l \in Nat /\ r.l \in Layers /\ r.c \in Cells
                        /\ layerDirections[r.l] \in {H, V}
                        /\ Coord(r.c, layerDirections[r.l]) \in Nat
  <2> SUFFICES ASSUME NEW r \in Points
               PROVE  /\ r.l \in Nat /\ r.l \in Layers /\ r.c \in Cells
                      /\ layerDirections[r.l] \in {H, V}
                      /\ Coord(r.c, layerDirections[r.l]) \in Nat
    OBVIOUS
  <2>1. r.l \in Nat /\ r.l \in Layers /\ r.c \in Cells /\ layerDirections[r.l] \in {H, V}
    BY GridAssumption DEF Points, Layers
  <2>2. QED
    BY <2>1, ShiftFacts
<1>2. s = IF Index(a) <= Index(b) THEN [u |-> a, v |-> b] ELSE [u |-> b, v |-> a]
  BY DEF Ordered
<1>3. Index(a) \in Nat /\ Index(b) \in Nat
  BY IndexOrder
<1> SUFFICES OnRoute(s, x)
  OBVIOUS
<1> HIDE DEF s
<1>4. CASE OnVia(a, b, x)
  <2>1. a.l # b.l /\ x.c = a.c /\ x.c = b.c /\ Within(a.l, b.l, x.l)
    BY <1>4 DEF OnVia
  <2>2. CASE a.l < b.l
    <3>1. Index(a) < Index(b)
      BY <2>2, IndexOrder
    <3>2. s.u = a /\ s.v = b
      BY <1>2, <1>3, <3>1
    <3>3. x.l \in a.l .. b.l
      BY <1>1, <2>1, <2>2 DEF Within
    <3>4. QED
      BY <2>1, <3>2, <3>3, Zenon DEF OnRoute, IsWire
  <2>3. CASE b.l < a.l
    <3>1. Index(b) < Index(a)
      BY <2>3, IndexOrder
    <3>2. s.u = b /\ s.v = a
      BY <1>2, <1>3, <3>1
    <3>3. x.l \in b.l .. a.l
      BY <1>1, <2>1, <2>3 DEF Within
    <3>4. QED
      BY <2>1, <3>2, <3>3 DEF OnRoute, IsWire
  <2>4. QED
    BY <1>1, <2>1, <2>2, <2>3
<1>5. CASE OnRow(a, b, x)
  <2>1. /\ a.l = b.l /\ x.l = a.l
        /\ Coord(a.c, 1 - d) = Coord(b.c, 1 - d) /\ Coord(x.c, 1 - d) = Coord(a.c, 1 - d)
        /\ Coord(a.c, d) # Coord(b.c, d) /\ Within(Coord(a.c, d), Coord(b.c, d), Coord(x.c, d))
    BY <1>5 DEF OnRow
  <2>2. Coord(a.c, d) \in Nat /\ Coord(b.c, d) \in Nat /\ Coord(x.c, d) \in Nat
    BY <1>1, <2>1
  <2>3. CASE Coord(a.c, d) < Coord(b.c, d)
    <3>1. Index(a) < Index(b)
      BY <2>1, <2>3, IndexOrder
    <3>2. s.u = a /\ s.v = b
      BY <1>2, <1>3, <3>1
    <3>3. Coord(x.c, d) \in Coord(a.c, d) .. Coord(b.c, d)
      <4> HIDE DEF d
      <4>1. QED
        BY <2>1, <2>2, <2>3 DEF Within
    <3>4. QED
      BY <2>1, <3>2, <3>3 DEF OnRoute, IsWire
  <2>4. CASE Coord(b.c, d) < Coord(a.c, d)
    <3>1. Index(b) < Index(a)
      BY <2>1, <2>4, IndexOrder
    <3>2. s.u = b /\ s.v = a
      BY <1>2, <1>3, <3>1
    <3>3. Coord(x.c, d) \in Coord(b.c, d) .. Coord(a.c, d)
      <4> HIDE DEF d
      <4>1. QED
        BY <2>1, <2>2, <2>4 DEF Within
    <3>4. QED
      BY <2>1, <3>2, <3>3 DEF OnRoute, IsWire
  <2>5. QED
    <3> HIDE DEF d
    <3>1. QED
      BY <2>1, <2>2, <2>3, <2>4
<1>6. QED
  BY <1>4, <1>5

(* Two points on a via or a row make a segment. *)
LEMMA OrderedSegment ==
  ASSUME NEW a \in Points, NEW b \in Points, NEW x, OnVia(a, b, x) \/ OnRow(a, b, x)
  PROVE  Segment(Ordered(a, b)) /\ {Ordered(a, b).u, Ordered(a, b).v} = {a, b}
<1> DEFINE d == layerDirections[a.l]
           s == Ordered(a, b)
<1>1. (OnVia(a, b, a) /\ OnVia(a, b, b)) \/ (OnRow(a, b, a) /\ OnRow(a, b, b))
  <2>1. a.l \in Nat /\ b.l \in Nat /\ Coord(a.c, d) \in Nat /\ (a.l = b.l => Coord(b.c, d) \in Nat)
    <3>1. /\ a.l \in Nat /\ b.l \in Nat /\ a.l \in Layers /\ a.c \in Cells /\ b.c \in Cells /\ d \in {H, V}
      BY GridAssumption DEF Points, Layers
    <3> HIDE DEF d
    <3>2. QED
      BY <3>1, ShiftFacts
  <2>2. CASE OnVia(a, b, x)
    BY <2>1, <2>2 DEF OnVia, Within
  <2>3. CASE OnRow(a, b, x)
    <3> HIDE DEF d
    <3>1. a.l = b.l
      BY <2>3 DEF OnRow
    <3>2. Within(Coord(a.c, d), Coord(b.c, d), Coord(a.c, d)) /\ Within(Coord(a.c, d), Coord(b.c, d), Coord(b.c, d))
      BY <2>1, <3>1 DEF Within
    <3>3. QED
      BY <2>3, <3>2 DEF OnRow, d
  <2>4. QED
    BY <2>2, <2>3
<1>2. OnRoute(s, a) /\ OnRoute(s, b)
  BY <1>1, WithinRoute
<1>3. s = IF Index(a) <= Index(b) THEN [u |-> a, v |-> b] ELSE [u |-> b, v |-> a]
  BY DEF Ordered
<1>4. a # b
  BY <1>1 DEF OnVia, OnRow
<1>5. Index(a) \in Nat /\ Index(b) \in Nat /\ Index(a) # Index(b)
  BY <1>4, IndexOrder, IndexInjective
<1>6. s.u \in Points /\ s.v \in Points /\ s.u # s.v /\ Index(s.u) < Index(s.v)
      /\ {s.u, s.v} = {a, b}
  BY <1>3, <1>4, <1>5
<1> HIDE DEF s
<1>7. Legal(s)
  <2>1. OnVia(a, b, b) \/ OnRow(a, b, b)
    BY <1>1
  <2>2. (s.u = a /\ s.v = b) \/ (s.u = b /\ s.v = a)
    BY <1>6
  <2>3. CASE OnVia(a, b, b)
    BY <1>6, <2>2, <2>3 DEF OnVia, Legal, IsWire, IsVia
  <2>4. CASE OnRow(a, b, b)
    BY <1>6, <2>2, <2>4 DEF OnRow, Legal, IsWire, IsVia
  <2>5. QED
    BY <2>1, <2>3, <2>4
<1>8. OnRoute(s, s.u) /\ OnRoute(s, s.v)
  BY <1>2, <1>6
<1>9. Segment(s)
  BY <1>6, <1>7, <1>8 DEF Segment
<1>10. QED
  BY <1>6, <1>9 DEF s

(* What lies between on a via segment lies between on the via, *)
LEMMA BetweenOnVia ==
  ASSUME NEW boxes, NEW a \in GuidePoints(boxes), NEW b, a # b, OnLine(Vias(boxes), a, b),
         NEW x \in Between(Vias(boxes)[a], b)
  PROVE  OnVia(a, b, x)
<1> DEFINE f == Vias(boxes)
           P == GuidePoints(boxes)
<1>1. a = [l |-> a.l, c |-> a.c] /\ a.l \in Int
  BY DEF GuidePoints, Layers
<1>2. /\ DOMAIN f[a].cells = 1 .. nLayers /\ f[a].index = a.l + 1
      /\ \A j \in 1 .. nLayers : f[a].cells[j] = [l |-> j - 1, c |-> a.c]
  <2>1. f[a] = ViaSegment(a)
    BY DEF Vias
  <2>2. QED
    BY <2>1 DEF ViaSegment
<1>3. GoodLines(f, P) /\ OneLine(f)
  BY FineLines
<1> HIDE DEF f, P
<1>4. PICK j \in DOMAIN f[a].cells : b = f[a].cells[j]
  BY DEF OnLine, f
<1>5. PICK k \in DOMAIN f[a].cells :
        /\ x = f[a].cells[k]
        /\ (j <= k /\ k <= f[a].index) \/ (f[a].index <= k /\ k <= j)
  <2>1. a \in P /\ x \in Between(f[a], f[a].cells[j])
    BY <1>4 DEF f, P
  <2>2. QED
    BY <1>3, <2>1, BetweenFacts
<1>6. b = [l |-> j - 1, c |-> a.c] /\ x = [l |-> k - 1, c |-> a.c] /\ j \in Int /\ k \in Int
  BY <1>2, <1>4, <1>5, GridAssumption
<1>7. b.l = j - 1 /\ b.c = a.c /\ x.l = k - 1 /\ x.c = a.c
  BY <1>6
<1>8. a.l # b.l
  BY <1>1, <1>6, <1>7
<1>9. Within(a.l, b.l, x.l)
  BY <1>1, <1>2, <1>5, <1>6, <1>7 DEF Within
<1>10. QED
  BY <1>7, <1>8, <1>9 DEF OnVia

(* and what lies between on a wire lies between on the row. *)
LEMMA BetweenOnRow ==
  ASSUME NEW boxes, NEW a \in GuidePoints(boxes), NEW b, a # b, OnLine(Wires(boxes), a, b),
         NEW x \in Between(Wires(boxes)[a], b)
  PROVE  OnRow(a, b, x)
<1> DEFINE f == Wires(boxes)
           P == GuidePoints(boxes)
<1>1. f[a] = Wire(boxes, a)
  BY DEF Wires
<1>2. GoodLines(f, P) /\ OneLine(f)
  BY FineLines
<1>3. PICK j \in DOMAIN f[a].cells : b = f[a].cells[j]
  BY DEF OnLine
<1> DEFINE own == f[a].index
<1>4. PICK k \in DOMAIN f[a].cells :
        /\ x = f[a].cells[k]
        /\ (j <= k /\ k <= own) \/ (own <= k /\ k <= j)
  <2> HIDE DEF f, P
  <2>1. a \in P /\ x \in Between(f[a], f[a].cells[j])
    BY <1>3 DEF f, P
  <2>2. QED
    BY <1>2, <2>1, BetweenFacts
<1>5. a.l # 0
  <2> SUFFICES ASSUME a.l = 0
               PROVE  FALSE
    OBVIOUS
  <2>1. f[a] = [cells |-> <<a>>, at |-> <<0>>, index |-> 1, half |-> 1]
    BY <1>1 DEF Wire, Alone
  <2>2. DOMAIN f[a].cells = {1} /\ f[a].cells[1] = a
    BY <2>1
  <2> HIDE DEF f
  <2>3. QED
    BY <1>3, <2>2
<1> DEFINE d == layerDirections[a.l]
           n == Coord(a.c, d)
           low == RunLow(JoinedAt(boxes, a.c, d), n)
           high == RunHigh(JoinedAt(boxes, a.c, d), n, getSize(d))
           At(m) == Shift(a.c, d, m - n)
<1>6. /\ f[a].cells = [m \in 1 .. high - low + 1 |-> [l |-> a.l, c |-> At(low + m - 1)]]
      /\ f[a].index = n - low + 1
  <2>1. Wire(boxes, a) = [cells |-> [m \in 1 .. high - low + 1 |-> [l |-> a.l, c |-> At(low + m - 1)]],
                          at |-> [m \in 1 .. high - low + 1 |-> Along(a.l, At(low + m - 1))],
                          index |-> n - low + 1, half |-> high - low + 1]
    BY <1>5, WireShape
  <2>2. QED
    BY <1>1, <2>1, SMTT(20)
<1>7. /\ n \in Nat /\ low \in 0 .. n /\ high \in Int
      /\ \A m \in low .. high : Coord(At(m), d) = m /\ Coord(At(m), 1 - d) = Coord(a.c, 1 - d)
  <2>1. /\ d \in {H, V} /\ a.c \in Cells /\ a.l \in Layers
        /\ n \in Nat /\ low \in 0 .. n /\ high \in n .. getSize(d) - 1 /\ getSize(d) \in Nat
        /\ \A k2 \in low .. high :
             /\ At(k2) \in Cells /\ Coord(At(k2), d) = k2
             /\ Coord(At(k2), 1 - d) = Coord(a.c, 1 - d)
             /\ [l |-> a.l, c |-> At(k2)] \in GuidePoints(boxes)
             /\ RunLow(JoinedAt(boxes, At(k2), d), k2) = low
             /\ RunHigh(JoinedAt(boxes, At(k2), d), k2, getSize(d)) = high
             /\ \A m \in Int : Shift(At(k2), d, m - k2) = At(m)
    BY RunPoints
  <2> HIDE DEF n, low, high, d, At
  <2>2. /\ n \in Nat /\ low \in 0 .. n
        /\ \A m \in low .. high : Coord(At(m), d) = m /\ Coord(At(m), 1 - d) = Coord(a.c, 1 - d)
    BY <2>1, Zenon
  <2>3. high \in Int
    BY <2>1
  <2>4. QED
    BY <2>2, <2>3
<1> HIDE DEF f, P, d, n, low, high, At, own
<1>8. \A m \in DOMAIN f[a].cells :
        /\ m \in Int /\ low + m - 1 \in low .. high
        /\ f[a].cells[m] = [l |-> a.l, c |-> At(low + m - 1)]
  BY <1>6, <1>7
<1>9. \A m \in DOMAIN f[a].cells :
        /\ f[a].cells[m].l = a.l
        /\ Coord(f[a].cells[m].c, d) = low + m - 1
        /\ Coord(f[a].cells[m].c, 1 - d) = Coord(a.c, 1 - d)
  <2> SUFFICES ASSUME NEW m \in DOMAIN f[a].cells
               PROVE  /\ f[a].cells[m].l = a.l
                      /\ Coord(f[a].cells[m].c, d) = low + m - 1
                      /\ Coord(f[a].cells[m].c, 1 - d) = Coord(a.c, 1 - d)
    OBVIOUS
  <2>1. f[a].cells[m].l = a.l /\ f[a].cells[m].c = At(low + m - 1) /\ low + m - 1 \in low .. high
    <3>1. f[a].cells[m] = [l |-> a.l, c |-> At(low + m - 1)] /\ low + m - 1 \in low .. high
      BY <1>8
    <3>2. QED
      BY <3>1
  <2>2. QED
    BY <1>7, <2>1
<1>10. own \in DOMAIN f[a].cells /\ f[a].cells[own] = a /\ own = n - low + 1
  <2>1. a \in P
    BY DEF P
  <2>2. QED
    BY <1>2, <1>6, <2>1, Zenon DEF GoodLines, own
<1>11. /\ b.l = a.l /\ x.l = a.l
       /\ Coord(b.c, d) = low + j - 1 /\ Coord(x.c, d) = low + k - 1 /\ Coord(a.c, d) = low + own - 1
       /\ Coord(b.c, 1 - d) = Coord(a.c, 1 - d) /\ Coord(x.c, 1 - d) = Coord(a.c, 1 - d)
  BY <1>3, <1>4, <1>9, <1>10
<1>12. j # own
  BY <1>3, <1>10
<1>13. j \in Int /\ k \in Int /\ own \in Int
  BY <1>3, <1>4, <1>8, <1>10, Zenon
<1>14. Coord(a.c, d) # Coord(b.c, d) /\ Within(Coord(a.c, d), Coord(b.c, d), Coord(x.c, d))
  BY <1>4, <1>7, <1>11, <1>12, <1>13 DEF Within
<1>15. QED
  BY <1>11, <1>14 DEF OnRow, d

(* So the cells of a route of the fine grid are on the route as it is kept. *)
LEMMA ReachedOnRoute ==
  ASSUME NEW boxes, NEW a \in GuidePoints(boxes), NEW b \in GuidePoints(boxes), a # b,
         NEW x, Reached(Vias(boxes), Wires(boxes), a, b, x)
  PROVE  /\ OnVia(a, b, x) \/ OnRow(a, b, x)
         /\ x \in Points => OnRoute(Ordered(a, b), x)
<1>1. PICK f \in {Vias(boxes), Wires(boxes)} : Marking(f, a, b) /\ x \in Between(f[a], b)
  BY DEF Reached
<1>2. OnLine(f, a, b)
  BY <1>1 DEF Marking
<1>3. OnVia(a, b, x) \/ OnRow(a, b, x)
  BY <1>1, <1>2, BetweenOnVia, BetweenOnRow
<1>4. a \in Points /\ b \in Points
  BY DEF GuidePoints, GuideCells, Points
<1>5. QED
  BY <1>3, <1>4, WithinRoute
-----------------------------------------------------------------------------
(* The coarse grid.                                                        *)

(* A division rounds down. *)
LEMMA Division ==
  ASSUME NEW a \in Nat, NEW s \in Nat \ {0}
  PROVE  /\ a \div s \in Nat /\ (a \div s) * s \in Nat
         /\ (a \div s) * s <= a /\ a < (a \div s) * s + s
OBVIOUS

(* What it rounds to is the only such number, *)
LEMMA Quotient ==
  ASSUME NEW a \in Nat, NEW s \in Nat \ {0}, NEW q \in Nat, q * s <= a, a < q * s + s
  PROVE  a \div s = q
<1>1. /\ a \div s \in Nat /\ (a \div s) * s \in Nat
      /\ (a \div s) * s <= a /\ a < (a \div s) * s + s
  BY Division
<1> DEFINE r == a \div s
<1> HIDE DEF r
<1>2. r \in Nat /\ r * s <= a /\ a < r * s + s
  BY <1>1 DEF r
<1>3. ~(r < q)
  <2> SUFFICES ASSUME r < q
               PROVE  FALSE
    OBVIOUS
  <2>1. (q - r - 1) * s \in Nat /\ r * s \in Nat /\ q * s \in Nat
    BY <1>2
  <2>2. q * s = r * s + s + (q - r - 1) * s
    BY <1>2
  <2>3. QED
    BY <1>2, <2>1, <2>2
<1>4. ~(q < r)
  <2> SUFFICES ASSUME q < r
               PROVE  FALSE
    OBVIOUS
  <2>1. (r - q - 1) * s \in Nat /\ r * s \in Nat /\ q * s \in Nat
    BY <1>2
  <2>2. r * s = q * s + s + (r - q - 1) * s
    BY <1>2
  <2>3. QED
    BY <1>2, <2>1, <2>2
<1>5. QED
  BY <1>2, <1>3, <1>4 DEF r

(* and it does not change the order. *)
LEMMA DivisionOrder ==
  ASSUME NEW a \in Nat, NEW b \in Nat, a <= b, NEW s \in Nat \ {0}
  PROVE  a \div s <= b \div s
<1>1. /\ a \div s \in Nat /\ (a \div s) * s \in Nat /\ (a \div s) * s <= a
      /\ b \div s \in Nat /\ (b \div s) * s \in Nat /\ b < (b \div s) * s + s
  BY Division
<1> DEFINE r == a \div s
           q == b \div s
<1> HIDE DEF r, q
<1>2. r \in Nat /\ q \in Nat /\ r * s < q * s + s
  BY <1>1 DEF r, q
<1>3. ~(q < r)
  <2> SUFFICES ASSUME q < r
               PROVE  FALSE
    OBVIOUS
  <2>1. (r - q - 1) * s \in Nat /\ r * s \in Nat /\ q * s \in Nat
    BY <1>2
  <2>2. r * s = q * s + s + (r - q - 1) * s
    BY <1>2
  <2>3. QED
    BY <1>2, <2>1, <2>2
<1>4. QED
  BY <1>2, <1>3 DEF r, q

(* The cells of a coarse cell. *)
LEMMA BlockSize ==
  ASSUME NEW b, b[1] \in Nat, b[2] \in Nat
  PROVE  LET block == {c \in Cells : Coarse(c) = b}
         IN IsFiniteSet(block) /\ Cardinality(block) \in Nat /\ Cardinality(block) <= ScaleX * ScaleY
<1> DEFINE block == {c \in Cells : Coarse(c) = b}
           X == b[1] * ScaleX .. b[1] * ScaleX + ScaleX - 1
           Y == b[2] * ScaleY .. b[2] * ScaleY + ScaleY - 1
<1>1. ScaleX \in Nat \ {0} /\ ScaleY \in Nat \ {0}
  BY ScaleAssumption
<1>2. b[1] * ScaleX \in Nat /\ b[2] * ScaleY \in Nat
  BY <1>1
<1>3. /\ IsFiniteSet(X) /\ Cardinality(X) = ScaleX
      /\ IsFiniteSet(Y) /\ Cardinality(Y) = ScaleY
  <2>1. ASSUME NEW k \in Nat, NEW size \in Nat \ {0}
        PROVE  IsFiniteSet(k .. k + size - 1) /\ Cardinality(k .. k + size - 1) = size
    <3>1. k \in Int /\ k + size - 1 \in Int
      BY <1>1
    <3>2. IsFiniteSet(k .. k + size - 1)
          /\ Cardinality(k .. k + size - 1) = IF k > k + size - 1 THEN 0 ELSE (k + size - 1) - k + 1
      BY <3>1, FS_Interval, Zenon
    <3>3. QED
      BY <1>1, <3>2
  <2>2. QED
    BY <1>1, <1>2, <2>1
<1>4. block \subseteq X \X Y
  <2> SUFFICES ASSUME NEW c \in Cells, Coarse(c) = b
               PROVE  c \in X \X Y
    OBVIOUS
  <2>1. c = <<c[1], c[2]>> /\ c[1] \in Nat /\ c[2] \in Nat
    BY GridAssumption DEF Cells
  <2>2. c[1] \div ScaleX = b[1] /\ c[2] \div ScaleY = b[2]
    BY DEF Coarse
  <2>3. c[1] \in X
    <3>1. b[1] * ScaleX <= c[1] /\ c[1] < b[1] * ScaleX + ScaleX
      BY <1>1, <2>1, <2>2, Division
    <3>2. QED
      BY <1>1, <1>2, <2>1, <3>1
  <2>4. c[2] \in Y
    <3>1. b[2] * ScaleY <= c[2] /\ c[2] < b[2] * ScaleY + ScaleY
      BY <1>1, <2>1, <2>2, Division
    <3>2. QED
      BY <1>1, <1>2, <2>1, <3>1
  <2> HIDE DEF X, Y
  <2>5. QED
    BY <2>1, <2>3, <2>4
<1> HIDE DEF X, Y, block
<1>5. IsFiniteSet(X \X Y) /\ Cardinality(X \X Y) = ScaleX * ScaleY
  BY <1>3, FS_Product
<1>6. IsFiniteSet(block) /\ Cardinality(block) <= Cardinality(X \X Y)
  BY <1>4, <1>5, FS_Subset
<1>7. Cardinality(block) \in Nat
  BY <1>6, FS_CardinalityType
<1>8. QED
  BY <1>5, <1>6, <1>7 DEF block

(* No cell of a row costs more to get to than the dearest edges of it. *)
LEMMA AlongBound ==
  ASSUME NEW l \in Layers, NEW c \in Cells
  PROVE  Along(l, c) \in Nat /\ Along(l, c) <= 9 * getSize(layerDirections[l])
<1> DEFINE d == layerDirections[l]
           n == Coord(c, d)
           f == [x \in 0 .. n - 1 |-> WireCost(Edge(l, Shift(c, d, x - n)))]
<1>1. d \in {H, V}
  BY GridAssumption
<1>2. n \in 0 .. getSize(d) - 1 /\ getSize(d) \in Nat
  <2> HIDE DEF d
  <2>1. QED
    BY <1>1, ShiftFacts
<1>3. Along(l, c) = SumFunction(f)
  BY DEF Along
<1>4. DOMAIN f = 0 .. n - 1 /\ \A x \in DOMAIN f : f[x] \in Nat /\ f[x] <= 9
  BY WireCostType
<1> HIDE DEF n, f, d
<1>5. IsFiniteSet(DOMAIN f) /\ Cardinality(DOMAIN f) = n
  <2>1. n \in Nat /\ 0 \in Int /\ n - 1 \in Int
    BY <1>2
  <2>2. IsFiniteSet(0 .. n - 1) /\ Cardinality(0 .. n - 1) = IF 0 > n - 1 THEN 0 ELSE (n - 1) - 0 + 1
    BY <2>1, FS_Interval
  <2>3. QED
    BY <1>4, <2>1, <2>2
<1>6. SumFunction(f) \in Nat /\ SumFunction(f) <= n * 9
  BY <1>4, <1>5, SumBound, Zenon
<1>7. n * 9 <= 9 * getSize(d)
  BY <1>2
<1>8. n * 9 \in Nat /\ 9 * getSize(d) \in Nat
  BY <1>2
<1>9. QED
  BY <1>2, <1>3, <1>6, <1>7, <1>8 DEF d

(* 9 for every edge of a row, in all rows and layers a coarse edge is the  *)
(* mean of.                                                                *)
Dearest == 9 * nLayers * nLayers * (ScaleX * ScaleY) * (ScaleX * ScaleY)

(* The last coarse cells of a side of n cells are at least one cell wide,  *)
(* and no wider than the others.                                           *)
LEMMA Border ==
  ASSUME NEW n \in Nat, NEW size \in Nat \ {0}
  PROVE  /\ (n + size - 1) \div size \in Nat
         /\ n - ((n + size - 1) \div size - 1) * size \in 1 .. size
<1> DEFINE a == n + size - 1
           q == a \div size
<1>1. a \in Nat
  OBVIOUS
<1> HIDE DEF a
<1>2. q \in Nat /\ q * size \in Nat /\ q * size <= a /\ a < q * size + size
  BY <1>1, Division
<1> HIDE DEF q
<1>3. (q - 1) * size = q * size - size
  BY <1>2
<1>4. n - (q - 1) * size \in 1 .. size
  BY <1>2, <1>3 DEF a
<1>5. QED
  BY <1>2, <1>4 DEF q, a

LEMMA WeightBound ==
  ASSUME NEW b
  PROVE  Weight(b) \in Nat /\ Weight(b) <= ScaleX * ScaleY
<1> DEFINE u == IF b[1] = coarseX - 1 THEN ScaleX ELSE borderX
           v == IF b[2] = coarseY - 1 THEN ScaleY ELSE borderY
<1>1. ScaleX \in Nat \ {0} /\ ScaleY \in Nat \ {0} /\ xSize \in Nat /\ ySize \in Nat
  BY ScaleAssumption, GridAssumption
<1>2. borderX \in 1 .. ScaleX /\ borderY \in 1 .. ScaleY
  BY <1>1, Border DEF borderX, borderY, coarseX, coarseY
<1>3. u \in Nat /\ u <= ScaleX /\ v \in Nat /\ v <= ScaleY
  BY <1>1, <1>2
<1>4. Weight(b) = u * v
  BY DEF Weight
<1> HIDE DEF u, v
<1>5. (ScaleX - u) * v \in Nat /\ ScaleX * (ScaleY - v) \in Nat /\ u * v \in Nat
  BY <1>1, <1>3
<1>6. ScaleX * ScaleY = u * v + (ScaleX - u) * v + ScaleX * (ScaleY - v)
  BY <1>1, <1>3
<1>7. QED
  BY <1>1, <1>4, <1>5, <1>6

(* The coarse positions are no greater than this makes them. *)
LEMMA CoarsePositionBound ==
  ASSUME NEW d \in {H, V}, NEW b, b[1] \in Nat, b[2] \in Nat
  PROVE  CoarsePosition(d, b) \in Nat /\ CoarsePosition(d, b) <= Dearest * getSize(d)
<1> DEFINE block == {c \in Cells : Coarse(c) = b}
           g(l) == [c \in block |-> Along(l, c)]
           f == [l \in LayersOf(d) |-> SumFunction(g(l))]
           M == 9 * getSize(d)
           S2 == ScaleX * ScaleY
<1>1. getSize(d) \in Nat /\ M \in Nat /\ S2 \in Nat /\ nLayers \in Nat
  BY GridAssumption, ScaleAssumption DEF getSize
<1>2. IsFiniteSet(block) /\ Cardinality(block) \in Nat /\ Cardinality(block) <= S2
  BY BlockSize, Zenon
<1>3. \A e \in {d, 1 - d} : /\ IsFiniteSet(LayersOf(e)) /\ Cardinality(LayersOf(e)) \in Nat
                            /\ Cardinality(LayersOf(e)) <= nLayers
  <2> SUFFICES ASSUME NEW e
               PROVE  /\ IsFiniteSet(LayersOf(e)) /\ Cardinality(LayersOf(e)) \in Nat
                      /\ Cardinality(LayersOf(e)) <= nLayers
    OBVIOUS
  <2>1. LayersOf(e) \subseteq 0 .. nLayers - 1
    BY DEF LayersOf, Layers
  <2>2. 0 \in Int /\ nLayers - 1 \in Int
    BY <1>1
  <2>3. IsFiniteSet(0 .. nLayers - 1)
        /\ Cardinality(0 .. nLayers - 1) = IF 0 > nLayers - 1 THEN 0 ELSE (nLayers - 1) - 0 + 1
    BY <2>2, FS_Interval, Zenon
  <2>4. Cardinality(0 .. nLayers - 1) = nLayers
    BY <1>1, <2>3
  <2>5. IsFiniteSet(LayersOf(e)) /\ Cardinality(LayersOf(e)) <= nLayers
    BY <2>1, <2>3, <2>4, FS_Subset, ZenonT(30)
  <2>6. QED
    BY <2>5, FS_CardinalityType
<1>4. \A l \in LayersOf(d) : \A c \in block : Along(l, c) \in Nat /\ Along(l, c) <= M
  <2> SUFFICES ASSUME NEW l \in LayersOf(d), NEW c \in block
               PROVE  Along(l, c) \in Nat /\ Along(l, c) <= M
    OBVIOUS
  <2>1. l \in Layers /\ layerDirections[l] = d /\ c \in Cells
    BY DEF LayersOf
  <2>2. QED
    BY <2>1, AlongBound
<1> HIDE DEF M, S2
<1>5. ASSUME NEW l \in LayersOf(d)
      PROVE  f[l] \in Nat /\ f[l] <= S2 * M
  <2>1. DOMAIN g(l) = block /\ \A c \in DOMAIN g(l) : g(l)[c] \in Nat /\ g(l)[c] <= M
    BY <1>4
  <2>2. f[l] = SumFunction(g(l))
    OBVIOUS
  <2> DEFINE h == g(l)
  <2> HIDE DEF g, block, f
  <2>3. SumFunction(h) \in Nat /\ SumFunction(h) <= Cardinality(block) * M
    <3>1. DOMAIN h = block /\ \A c \in DOMAIN h : h[c] \in Nat /\ h[c] <= M
      BY <2>1
    <3> HIDE DEF h
    <3>2. QED
      BY <1>1, <1>2, <3>1, SumBound
  <2>4. Cardinality(block) * M <= S2 * M
    <3>1. (S2 - Cardinality(block)) * M \in Nat
      BY <1>1, <1>2
    <3>2. S2 * M = Cardinality(block) * M + (S2 - Cardinality(block)) * M
      BY <1>1, <1>2
    <3>3. QED
      BY <1>1, <1>2, <3>1, <3>2
  <2>5. Cardinality(block) * M \in Nat /\ S2 * M \in Nat
    BY <1>1, <1>2
  <2>6. QED
    BY <2>2, <2>3, <2>4, <2>5
<1>6. CoarsePosition(d, b) = Cardinality(LayersOf(1 - d)) * Weight(b) * SumFunction(f)
  BY DEF CoarsePosition
<1>7. DOMAIN f = LayersOf(d)
  OBVIOUS
<1> HIDE DEF f, block
<1>8. SumFunction(f) \in Nat /\ SumFunction(f) <= Cardinality(LayersOf(d)) * (S2 * M)
  <2>1. S2 * M \in Nat
    BY <1>1
  <2>2. QED
    BY <1>3, <1>5, <1>7, <2>1, SumBound
<1> DEFINE s == SumFunction(f)
           k == Cardinality(LayersOf(d))
           j == Cardinality(LayersOf(1 - d))
           m == S2 * M
           w == Weight(b)
<1>9. s \in Nat /\ k \in Nat /\ j \in Nat /\ m \in Nat /\ s <= k * m /\ k <= nLayers /\ j <= nLayers
  BY <1>1, <1>3, <1>8
<1>10. Dearest * getSize(d) = nLayers * (S2 * (nLayers * m))
  <2>1. Dearest * getSize(d) = 9 * nLayers * nLayers * S2 * S2 * getSize(d)
    BY DEF Dearest, S2
  <2>2. QED
    BY <1>1, <2>1 DEF M
<1>11. w \in Nat /\ w <= S2
  BY WeightBound DEF S2
<1> HIDE DEF s, k, j, m, w
<1>12. k * m <= nLayers * m /\ k * m \in Nat /\ nLayers * m \in Nat
  <2>1. (nLayers - k) * m \in Nat /\ k * m \in Nat
    BY <1>1, <1>9
  <2>2. nLayers * m = k * m + (nLayers - k) * m
    BY <1>1, <1>9
  <2>3. QED
    BY <1>1, <1>9, <2>1, <2>2
<1>13. s <= nLayers * m
  BY <1>1, <1>9, <1>12
<1> DEFINE z == nLayers * m
<1> HIDE DEF z
<1>14. z \in Nat /\ s <= z
  BY <1>12, <1>13 DEF z
<1>15. \A p1, p2, r1, r2 \in Nat : p1 <= r1 /\ p2 <= r2 =>
          p1 * p2 \in Nat /\ r1 * r2 \in Nat /\ p1 * p2 <= r1 * r2
  <2> SUFFICES ASSUME NEW p1 \in Nat, NEW p2 \in Nat, NEW r1 \in Nat, NEW r2 \in Nat, p1 <= r1, p2 <= r2
               PROVE  p1 * p2 \in Nat /\ r1 * r2 \in Nat /\ p1 * p2 <= r1 * r2
    OBVIOUS
  <2>1. (r1 - p1) * r2 \in Nat /\ p1 * (r2 - p2) \in Nat /\ p1 * p2 \in Nat
    OBVIOUS
  <2>2. r1 * r2 = p1 * p2 + p1 * (r2 - p2) + (r1 - p1) * r2
    OBVIOUS
  <2>3. QED
    BY <2>1, <2>2
<1>16. w * s \in Nat /\ S2 * z \in Nat /\ w * s <= S2 * z
  BY <1>1, <1>9, <1>14, <1>15, <1>11
<1>17. j * (w * s) \in Nat /\ j * (w * s) <= nLayers * (S2 * z)
  <2> DEFINE ws == w * s
             sz == S2 * z
  <2> HIDE DEF ws, sz
  <2>1. ws \in Nat /\ sz \in Nat /\ ws <= sz
    BY <1>16 DEF ws, sz
  <2>2. j * ws \in Nat /\ j * ws <= nLayers * sz
    BY <1>1, <1>9, <1>15, <2>1
  <2>3. QED
    BY <2>2 DEF ws, sz
<1>18. j * w * s = j * (w * s)
  BY <1>9, <1>11
<1>19. QED
  BY <1>6, <1>10, <1>17, <1>18 DEF s, j, z, w

CoarseCells(bx) == {<<x, y>> : x \in bx.lx .. bx.hx - 1, y \in bx.ly .. bx.hy - 1}
CoarsePositions(bx) == [d \in {H, V} |-> [b \in CoarseCells(bx) |-> CoarsePosition(d, b)]]
CoarseLines(bx, d) == [b \in CoarseCells(bx) |-> CoarseLine(bx, CoarsePositions(bx), d, b)]
GoodBox(bx) ==
  /\ bx.lx \in Nat /\ bx.ly \in Nat /\ bx.hx \in Nat /\ bx.hy \in Nat
  /\ bx.hx <= coarseX /\ bx.hy <= coarseY

BoxLow(bx, d) == IF d = H THEN bx.lx ELSE bx.ly
BoxHigh(bx, d) == IF d = H THEN bx.hx ELSE bx.hy

(* The cell of the row or column of b at k.                                *)
Put(b, d, k) == IF d = H THEN <<k, b[2]>> ELSE <<b[1], k>>

(* Cells of the box, moved to a place in it. *)
LEMMA PutFacts ==
  ASSUME NEW bx, GoodBox(bx), NEW d \in {H, V}, NEW b \in CoarseCells(bx)
  PROVE  /\ BoxLow(bx, d) \in Nat /\ BoxHigh(bx, d) \in Nat
         /\ b[1] \in Nat /\ b[2] \in Nat /\ b = <<b[1], b[2]>>
         /\ Coord(b, d) \in BoxLow(bx, d) .. BoxHigh(bx, d) - 1
         /\ Put(b, d, Coord(b, d)) = b
         /\ \A k \in BoxLow(bx, d) .. BoxHigh(bx, d) - 1 :
              /\ Put(b, d, k) \in CoarseCells(bx) /\ Coord(Put(b, d, k), d) = k
              /\ \A m : Put(Put(b, d, k), d, m) = Put(b, d, m)
<1>1. PICK x \in bx.lx .. bx.hx - 1, y \in bx.ly .. bx.hy - 1 : b = <<x, y>>
  BY DEF CoarseCells
<1>2. b[1] = x /\ b[2] = y /\ x \in Nat /\ y \in Nat
  BY <1>1 DEF GoodBox
<1>3. CASE d = H
  <2>1. /\ BoxLow(bx, d) = bx.lx /\ BoxHigh(bx, d) = bx.hx /\ Coord(b, d) = x
        /\ \A k : Put(b, d, k) = <<k, y>>
    BY <1>2, <1>3 DEF BoxLow, BoxHigh, Coord, Put
  <2>2. \A k \in bx.lx .. bx.hx - 1 : /\ Put(b, d, k) \in CoarseCells(bx) /\ Coord(Put(b, d, k), d) = k
                                        /\ \A m : Put(Put(b, d, k), d, m) = Put(b, d, m)
    BY <1>3, <2>1 DEF CoarseCells, Coord, Put
  <2>3. QED
    BY <1>1, <1>2, <2>1, <2>2 DEF GoodBox
<1>4. CASE d = V
  <2>1. /\ BoxLow(bx, d) = bx.ly /\ BoxHigh(bx, d) = bx.hy /\ Coord(b, d) = y
        /\ \A k : Put(b, d, k) = <<x, k>>
    BY <1>2, <1>4 DEF BoxLow, BoxHigh, Coord, Put, H, V
  <2>2. \A k \in bx.ly .. bx.hy - 1 : /\ Put(b, d, k) \in CoarseCells(bx) /\ Coord(Put(b, d, k), d) = k
                                        /\ \A m : Put(Put(b, d, k), d, m) = Put(b, d, m)
    BY <1>4, <2>1 DEF CoarseCells, Coord, Put, H, V
  <2>3. QED
    BY <1>1, <1>2, <2>1, <2>2 DEF GoodBox
<1>5. QED
  BY <1>3, <1>4

(* The line of a coarse cell. *)
LEMMA CoarseLineShape ==
  ASSUME NEW bx, GoodBox(bx), NEW d \in {H, V}, NEW b \in CoarseCells(bx), NEW position
  PROVE  LET low == BoxLow(bx, d)
             high == BoxHigh(bx, d)
         IN CoarseLine(bx, position, d, b)
              = [cells |-> [k \in 1 .. high - low |-> Put(b, d, low + k - 1)],
                 at |-> [k \in 1 .. high - low |-> position[d][Put(b, d, low + k - 1)]],
                 index |-> Coord(b, d) - low + 1, half |-> high - low]
<1> DEFINE low == IF d = H THEN bx.lx ELSE bx.ly
           high == IF d = H THEN bx.hx ELSE bx.hy
           At(k) == Shift(b, d, low + k - 1 - Coord(b, d))
<1>1. low = BoxLow(bx, d) /\ high = BoxHigh(bx, d)
  BY DEF BoxLow, BoxHigh
<1>2. CoarseLine(bx, position, d, b)
        = [cells |-> [k \in 1 .. high - low |-> At(k)],
           at |-> [k \in 1 .. high - low |-> position[d][At(k)]],
           index |-> Coord(b, d) - low + 1, half |-> high - low]
  BY DEF CoarseLine
<1>3. low \in Nat /\ Coord(b, d) \in Int /\ b[1] \in Nat /\ b[2] \in Nat
  <2>1. BoxLow(bx, d) \in Nat /\ BoxHigh(bx, d) \in Nat
        /\ Coord(b, d) \in BoxLow(bx, d) .. BoxHigh(bx, d) - 1 /\ b[1] \in Nat /\ b[2] \in Nat
    BY PutFacts
  <2>2. QED
    BY <1>1, <2>1
<1> HIDE DEF low, high
<1>4. \A k \in 1 .. high - low : At(k) = Put(b, d, low + k - 1)
  <2> SUFFICES ASSUME NEW k \in 1 .. high - low
               PROVE  At(k) = Put(b, d, low + k - 1)
    OBVIOUS
  <2>1. CASE d = H
    BY <1>3, <2>1 DEF Shift, Coord, Put
  <2>2. CASE d = V
    BY <1>3, <2>2 DEF Shift, Coord, Put, H, V
  <2>3. QED
    BY <2>1, <2>2
<1> HIDE DEF At
<1>5. /\ [k \in 1 .. high - low |-> At(k)] = [k \in 1 .. high - low |-> Put(b, d, low + k - 1)]
      /\ [k \in 1 .. high - low |-> position[d][At(k)]]
           = [k \in 1 .. high - low |-> position[d][Put(b, d, low + k - 1)]]
  BY <1>4
<1>6. QED
  BY <1>1, <1>2, <1>5, Zenon

(* The positions on a coarse line. *)
LEMMA CoarsePositionsFacts ==
  ASSUME NEW bx, GoodBox(bx), NEW d \in {H, V}, NEW b \in CoarseCells(bx)
  PROVE  CoarsePositions(bx)[d][b] \in Nat /\ CoarsePositions(bx)[d][b] <= Dearest * getSize(d)
<1>1. CoarsePositions(bx)[d][b] = CoarsePosition(d, b)
  BY DEF CoarsePositions
<1>2. b[1] \in Nat /\ b[2] \in Nat
  BY PutFacts
<1>3. QED
  BY <1>1, <1>2, CoarsePositionBound

(* What the lines of a box hold. *)
LEMMA CoarseLineFacts ==
  ASSUME NEW bx, GoodBox(bx), NEW d \in {H, V}, NEW b \in CoarseCells(bx)
  PROVE  LET low == BoxLow(bx, d)
             high == BoxHigh(bx, d)
             l == CoarseLines(bx, d)[b]
         IN /\ l.cells = [k \in 1 .. high - low |-> Put(b, d, low + k - 1)]
            /\ l.at = [k \in 1 .. high - low |-> CoarsePositions(bx)[d][Put(b, d, low + k - 1)]]
            /\ l.index = Coord(b, d) - low + 1
<1>1. CoarseLines(bx, d)[b] = CoarseLine(bx, CoarsePositions(bx), d, b)
  BY DEF CoarseLines
<1> DEFINE low == BoxLow(bx, d)
           high == BoxHigh(bx, d)
           l == CoarseLine(bx, CoarsePositions(bx), d, b)
<1>2. l = [cells |-> [k \in 1 .. high - low |-> Put(b, d, low + k - 1)],
           at |-> [k \in 1 .. high - low |-> CoarsePositions(bx)[d][Put(b, d, low + k - 1)]],
           index |-> Coord(b, d) - low + 1, half |-> high - low]
  BY CoarseLineShape, Zenon
<1> HIDE DEF l
<1>3. /\ l.cells = [k \in 1 .. high - low |-> Put(b, d, low + k - 1)]
      /\ l.at = [k \in 1 .. high - low |-> CoarsePositions(bx)[d][Put(b, d, low + k - 1)]]
      /\ l.index = Coord(b, d) - low + 1
  BY <1>2
<1>4. QED
  BY <1>1, <1>3 DEF l

(* They are good ones. *)
LEMMA CoarseLinesGood ==
  ASSUME NEW bx, GoodBox(bx), NEW d \in {H, V}
  PROVE  GoodLines(CoarseLines(bx, d), CoarseCells(bx)) /\ OneLine(CoarseLines(bx, d))
<1> DEFINE f == CoarseLines(bx, d)
           P == CoarseCells(bx)
           low == BoxLow(bx, d)
           high == BoxHigh(bx, d)
           len == high - low
           A(b) == [k \in 1 .. len |-> CoarsePositions(bx)[d][Put(b, d, low + k - 1)]]
           C(b) == [k \in 1 .. len |-> Put(b, d, low + k - 1)]
<1>1. DOMAIN f = P
  BY DEF CoarseLines
<1>2. ASSUME NEW b \in P
      PROVE  /\ low \in Nat /\ high \in Nat /\ len \in Nat
             /\ Coord(b, d) \in low .. high - 1 /\ Put(b, d, Coord(b, d)) = b
             /\ \A k \in low .. high - 1 :
                  /\ Put(b, d, k) \in P /\ Coord(Put(b, d, k), d) = k
                  /\ \A m : Put(Put(b, d, k), d, m) = Put(b, d, m)
             /\ f[b].cells = C(b) /\ f[b].at = A(b) /\ f[b].index = Coord(b, d) - low + 1
  <2>1. /\ low \in Nat /\ high \in Nat
        /\ Coord(b, d) \in low .. high - 1 /\ Put(b, d, Coord(b, d)) = b
        /\ \A k \in low .. high - 1 :
             /\ Put(b, d, k) \in P /\ Coord(Put(b, d, k), d) = k
             /\ \A m : Put(Put(b, d, k), d, m) = Put(b, d, m)
    BY PutFacts
  <2>2. f[b].cells = C(b) /\ f[b].at = A(b) /\ f[b].index = Coord(b, d) - low + 1
    BY CoarseLineFacts, ZenonT(30)
  <2> HIDE DEF low, high, f, P, A, C
  <2>3. len \in Nat
    BY <2>1
  <2>4. QED
    BY <2>1, <2>2, <2>3
<1>3. \A b \in P : CoarsePositions(bx)[d][b] \in Nat
  BY CoarsePositionsFacts
<1>4. \A b \in P : \A k \in 1 .. len :
        /\ C(b)[k] = Put(b, d, low + k - 1) /\ A(b)[k] = CoarsePositions(bx)[d][Put(b, d, low + k - 1)]
        /\ DOMAIN C(b) = 1 .. len
  OBVIOUS
<1>5. \A b, c \in P : (\A m : Put(b, d, m) = Put(c, d, m)) => C(b) = C(c) /\ A(b) = A(c)
  OBVIOUS
<1>6. \A b \in P : DOMAIN C(b) = 1 .. len
  OBVIOUS
<1> HIDE DEF f, P, low, high, A, C
<1>7. ASSUME NEW b \in P, NEW k \in 1 .. len
      PROVE  /\ low + k - 1 \in low .. high - 1
             /\ Put(b, d, low + k - 1) \in P
             /\ C(b)[k] = Put(b, d, low + k - 1)
             /\ A(b)[k] \in Nat
  <2>1. low + k - 1 \in low .. high - 1
    BY <1>2
  <2>2. Put(b, d, low + k - 1) \in P
    BY <1>2, <2>1
  <2>3. QED
    BY <1>3, <1>4, <2>1, <2>2
<1>8. GoodLines(f, P)
  <2> SUFFICES ASSUME NEW b \in P
               PROVE  /\ \E n \in Nat : DOMAIN f[b].cells = 1 .. n
                      /\ f[b].index \in DOMAIN f[b].cells
                      /\ f[b].cells[f[b].index] = b
                      /\ \A j \in DOMAIN f[b].cells : f[b].cells[j] \in P /\ f[b].at[j] \in Nat
    BY <1>1 DEF GoodLines
  <2>1. DOMAIN f[b].cells = 1 .. len /\ len \in Nat
    BY <1>2, <1>6
  <2>2. f[b].index \in 1 .. len /\ low + f[b].index - 1 = Coord(b, d)
    BY <1>2
  <2>3. f[b].cells[f[b].index] = b
    BY <1>2, <1>7, <2>2
  <2>4. \A j \in 1 .. len : f[b].cells[j] \in P /\ f[b].at[j] \in Nat
    BY <1>2, <1>7
  <2> HIDE DEF len
  <2>5. QED
    BY <2>1, <2>2, <2>3, <2>4, Zenon
<1>9. OneLine(f)
  <2> SUFFICES ASSUME NEW b \in P, NEW j \in DOMAIN f[b].cells
               PROVE  LET q == f[b].cells[j]
                      IN f[q].cells = f[b].cells /\ f[q].at = f[b].at /\ f[q].index = j
    BY <1>1 DEF OneLine
  <2>1. j \in 1 .. len
    BY <1>2, <1>6, Zenon
  <2> DEFINE q == Put(b, d, low + j - 1)
  <2>2. f[b].cells[j] = q /\ q \in P /\ low + j - 1 \in low .. high - 1
    BY <1>2, <1>7, <2>1
  <2>3. Coord(q, d) = low + j - 1 /\ \A m : Put(q, d, m) = Put(b, d, m)
    BY <1>2, <2>2
  <2> HIDE DEF q
  <2>4. C(q) = C(b) /\ A(q) = A(b)
    BY <1>5, <2>2, <2>3
  <2>5. f[q].cells = C(q) /\ f[q].at = A(q) /\ f[q].index = Coord(q, d) - low + 1
    BY <1>2, <2>2
  <2>6. f[q].index = j
    BY <1>2, <2>1, <2>3, <2>5
  <2>7. QED
    BY <1>2, <2>2, <2>4, <2>5, <2>6
<1>10. QED
  BY <1>8, <1>9 DEF f, P

(* Two turns on them reach every cell. *)
LEMMA CoarseReached ==
  ASSUME NEW bx, GoodBox(bx), NEW a \in CoarseCells(bx), NEW c \in CoarseCells(bx),
         NEW mark, a \in mark
  PROVE  Turns(CoarseLines(bx, H), CoarseLines(bx, V), mark, CoarseTurns)[CoarseTurns][c].dist
           < Infinity
<1> DEFINE even == CoarseLines(bx, H)
           odd == CoarseLines(bx, V)
           P == CoarseCells(bx)
           s == Turns(even, odd, mark, CoarseTurns)
           X == Dearest * getSize(H)
           Y == Dearest * getSize(V)
           e == Put(a, H, c[1])
<1>1. X \in Nat /\ Y \in Nat /\ Infinity \in Nat /\ X + Y < Infinity
  <2>1. getSize(H) = xSize /\ getSize(V) = ySize
    BY DEF getSize, H, V
  <2>2. xSize \in Nat /\ ySize \in Nat /\ Dearest \in Nat
    BY GridAssumption, ScaleAssumption DEF Dearest
  <2>3. Dearest * (xSize + ySize) < Infinity /\ Infinity \in Nat
    BY InfinityAssumption DEF Dearest
  <2>4. Dearest * (xSize + ySize) = Dearest * xSize + Dearest * ySize
    BY <2>2
  <2>5. Dearest * xSize \in Nat /\ Dearest * ySize \in Nat
    BY <2>2
  <2>6. QED
    BY <2>1, <2>3, <2>4, <2>5
<1>2. CoarseTurns \in Nat /\ 0 \in 0 .. CoarseTurns - 1 /\ 1 \in 0 .. CoarseTurns - 1
      /\ 2 \in 0 .. CoarseTurns
  BY TurnsAssumption
<1>3. GoodLines(even, P) /\ GoodLines(odd, P)
  BY CoarseLinesGood DEF H, V
<1>4. \A d \in {H, V} : \A b \in P :
        CoarsePositions(bx)[d][b] \in Nat /\ CoarsePositions(bx)[d][b] <= Dearest * getSize(d)
  BY CoarsePositionsFacts
<1>5. s[0][a].dist = 0
  <2>1. s[0] = CleanDist(DOMAIN even, mark)
    BY <1>2, TurnsEquation
  <2>2. DOMAIN even = P
    BY DEF CoarseLines
  <2> HIDE DEF s, even
  <2>3. QED
    BY <2>1, <2>2 DEF CleanDist
<1> HIDE DEF s
<1>6. ASSUME NEW d \in {H, V}, NEW p \in P, NEW q \in P, \A m : Put(p, d, m) = Put(q, d, m)
      PROVE  LET l == CoarseLines(bx, d)[q]
             IN \E k \in DOMAIN l.cells :
                  l.cells[k] = p /\ Distance(l.at[k], l.at[l.index]) \in Nat
                  /\ Distance(l.at[k], l.at[l.index]) <= Dearest * getSize(d)
  <2> DEFINE l == CoarseLines(bx, d)[q]
             low == BoxLow(bx, d)
             high == BoxHigh(bx, d)
             k == Coord(p, d) - low + 1
  <2>1. /\ l.cells = [j \in 1 .. high - low |-> Put(q, d, low + j - 1)]
        /\ l.at = [j \in 1 .. high - low |-> CoarsePositions(bx)[d][Put(q, d, low + j - 1)]]
        /\ l.index = Coord(q, d) - low + 1
    BY CoarseLineFacts
  <2>2. /\ low \in Nat /\ high \in Nat
        /\ Coord(p, d) \in low .. high - 1 /\ Put(p, d, Coord(p, d)) = p
    BY PutFacts, Zenon
  <2>3. Coord(q, d) \in low .. high - 1 /\ Put(q, d, Coord(q, d)) = q
    BY PutFacts, Zenon
  <2> HIDE DEF l, low, high
  <2>4. k \in 1 .. high - low /\ low + k - 1 = Coord(p, d)
        /\ l.index \in 1 .. high - low /\ low + l.index - 1 = Coord(q, d)
    BY <2>1, <2>2, <2>3
  <2> HIDE DEF k
  <2>5. Put(q, d, low + k - 1) = p
    BY <1>6, <2>2, <2>4
  <2>6. l.cells[k] = p /\ l.at[k] = CoarsePositions(bx)[d][p]
        /\ l.at[l.index] = CoarsePositions(bx)[d][q]
        /\ k \in DOMAIN l.cells
    BY <2>1, <2>3, <2>4, <2>5
  <2> DEFINE u == CoarsePositions(bx)[d][p]
             v == CoarsePositions(bx)[d][q]
             B == Dearest * getSize(d)
  <2>7. u \in Nat /\ v \in Nat /\ u <= B /\ v <= B
    BY <1>4
  <2>8. B \in Nat
    BY <1>1
  <2> HIDE DEF u, v, B
  <2>9. Distance(u, v) \in Nat /\ Distance(u, v) <= B
    BY <2>7, <2>8 DEF Distance
  <2>10. QED
    BY <2>6, <2>9 DEF u, v, B, l
<1>7. /\ e \in P /\ \A m : Put(e, H, m) = Put(a, H, m)
      /\ \A m : Put(e, V, m) = Put(c, V, m)
  <2>1. /\ c[1] \in BoxLow(bx, H) .. BoxHigh(bx, H) - 1
    <3>1. Coord(c, H) \in BoxLow(bx, H) .. BoxHigh(bx, H) - 1
      BY PutFacts
    <3>2. QED
      BY <3>1 DEF Coord
  <2>2. e \in P /\ \A m : Put(e, H, m) = Put(a, H, m)
    BY <2>1, PutFacts
  <2>3. \A m : Put(e, V, m) = Put(c, V, m)
    BY DEF Put, H, V
  <2>4. QED
    BY <2>2, <2>3
<1> HIDE DEF e
<1>8. s[1][e].dist \in Nat /\ s[1][e].dist <= X
  <2> DEFINE l == Kind(even, odd, 0)[e]
  <2>1. Kind(even, odd, 0) = even
    BY DEF Kind
  <2>2. PICK k \in DOMAIN l.cells : l.cells[k] = a /\ Distance(l.at[k], l.at[l.index]) \in Nat
                                    /\ Distance(l.at[k], l.at[l.index]) <= X
    BY <1>6, <1>7, <2>1
  <2>3. /\ s[0 + 1][e].dist \in Nat
        /\ \A j \in DOMAIN l.cells :
             s[0][l.cells[j]].dist < Infinity =>
               s[0 + 1][e].dist <= s[0][l.cells[j]].dist + Distance(l.at[j], l.at[l.index])
    <3> HIDE DEF even, odd, P
    <3>1. QED
      BY <1>2, <1>3, <1>7, TurnFacts, SMTT(30) DEF s
  <2> HIDE DEF l, X, Y
  <2>4. s[0 + 1][e].dist <= 0 + Distance(l.at[k], l.at[l.index])
    <3>1. s[0][l.cells[k]].dist = 0 /\ 0 < Infinity
      BY <1>1, <1>5, <2>2
    <3>2. QED
      BY <2>2, <2>3, <3>1
  <2>5. 0 + 1 = 1
    OBVIOUS
  <2>6. QED
    BY <1>1, <2>2, <2>3, <2>4, <2>5
<1>9. s[2][c].dist \in Nat /\ s[2][c].dist <= X + Y
  <2> DEFINE l == Kind(even, odd, 1)[c]
  <2>1. Kind(even, odd, 1) = odd
    BY DEF Kind
  <2>2. PICK k \in DOMAIN l.cells : l.cells[k] = e /\ Distance(l.at[k], l.at[l.index]) \in Nat
                                    /\ Distance(l.at[k], l.at[l.index]) <= Y
    BY <1>6, <1>7, <2>1
  <2>3. /\ s[1 + 1][c].dist \in Nat
        /\ \A j \in DOMAIN l.cells :
             s[1][l.cells[j]].dist < Infinity =>
               s[1 + 1][c].dist <= s[1][l.cells[j]].dist + Distance(l.at[j], l.at[l.index])
    <3>1. c \in P
      OBVIOUS
    <3> HIDE DEF even, odd, P
    <3>2. QED
      BY <1>2, <1>3, <3>1, TurnFacts, SMTT(30) DEF s
  <2> HIDE DEF l, X, Y
  <2>4. s[1 + 1][c].dist <= s[1][e].dist + Distance(l.at[k], l.at[l.index])
    <3>1. s[1][l.cells[k]].dist < Infinity
      BY <1>1, <1>8, <2>2
    <3>2. QED
      BY <2>2, <2>3, <3>1
  <2>5. 1 + 1 = 2
    OBVIOUS
  <2>6. QED
    BY <1>1, <1>8, <2>2, <2>3, <2>4, <2>5
<1>10. s[2][c].dist < Infinity
  <2> HIDE DEF X, Y
  <2>1. QED
    BY <1>1, <1>9
<1>11. s[CoarseTurns][c].dist <= s[2][c].dist
  <2>1. c \in P
    OBVIOUS
  <2> HIDE DEF even, odd, P
  <2>2. QED
    BY <1>2, <1>3, <1>10, <2>1, NeverFarther DEF s
<1>12. s[CoarseTurns][c].dist \in Nat
  <2>1. c \in P /\ CoarseTurns \in 0 .. CoarseTurns
    BY <1>2
  <2> HIDE DEF even, odd, P
  <2>2. s[CoarseTurns] \in States(P)
    BY <1>2, <1>3, <2>1, TurnsType DEF s
  <2>3. QED
    BY <2>1, <2>2 DEF States
<1>13. QED
  <2> HIDE DEF X, Y
  <2>1. s[CoarseTurns][c].dist < Infinity
    BY <1>1, <1>9, <1>10, <1>11, <1>12
  <2>2. QED
    BY <2>1 DEF s
-----------------------------------------------------------------------------
(* Sorting, and the whole of the coarse route.                             *)

(* What sorting a finite set gives. *)
LEMMA SortedFacts ==
  ASSUME NEW S, IsFiniteSet(S), NEW rank, NEW q \in SortedBy(rank, S)
  PROVE  LET n == Cardinality(S)
         IN /\ n \in Nat /\ q \in Seq(S) /\ Len(q) = n /\ DOMAIN q = 1 .. n
            /\ \A j \in 1 .. n : q[j] \in S
            /\ \A j, k \in 1 .. n : q[j] = q[k] => j = k
            /\ \A x \in S : \E j \in 1 .. n : q[j] = x
            /\ \A j, k \in 1 .. n : j < k => rank[q[j]] <= rank[q[k]]
            /\ ToSet(q) = S
<1> DEFINE n == Cardinality(S)
<1>1. n \in Nat
  BY FS_CardinalityType
<1>2. q \in Bijection(1 .. n, S) /\ \A j, k \in 1 .. n : j < k => rank[q[j]] <= rank[q[k]]
  BY DEF SortedBy
<1> HIDE DEF n
<1>3. /\ q \in [1 .. n -> S]
      /\ \A j, k \in 1 .. n : q[j] = q[k] => j = k
      /\ \A x \in S : \E j \in 1 .. n : q[j] = x
  BY <1>2 DEF Bijection, Injection, Surjection, IsInjective
<1>4. q \in Seq(S) /\ Len(q) = n /\ DOMAIN q = 1 .. n
  BY <1>1, <1>3
<1>5. ToSet(q) = S
  BY <1>3, <1>4 DEF ToSet
<1>6. QED
  BY <1>1, <1>2, <1>3, <1>4, <1>5 DEF n

(* A finite set can be sorted. *)
LEMMA SortedExists ==
  ASSUME NEW rank, NEW T, IsFiniteSet(T), \A x \in T : rank[x] \in Nat
  PROVE  SortedBy(rank, T) # {}
<1> DEFINE F == {n \in Nat : \A S : IsFiniteSet(S) /\ Cardinality(S) = n /\ (\A x \in S : rank[x] \in Nat)
                               => SortedBy(rank, S) # {}}
<1>1. 0 \in F
  <2> SUFFICES ASSUME NEW S, IsFiniteSet(S), Cardinality(S) = 0
               PROVE  SortedBy(rank, S) # {}
    OBVIOUS
  <2>1. S = {}
    BY FS_EmptySet
  <2> DEFINE q == [j \in 1 .. 0 |-> j]
  <2>2. q \in [1 .. 0 -> S] /\ 1 .. 0 = {}
    OBVIOUS
  <2>3. q \in Bijection(1 .. 0, S)
    BY <2>1, <2>2 DEF Bijection, Injection, Surjection, IsInjective
  <2>4. q \in SortedBy(rank, S)
    BY <2>2, <2>3 DEF SortedBy
  <2>5. QED
    BY <2>4
<1>2. ASSUME NEW n \in Nat, n \in F
      PROVE  n + 1 \in F
  <2> SUFFICES ASSUME NEW S, IsFiniteSet(S), Cardinality(S) = n + 1, \A x \in S : rank[x] \in Nat
               PROVE  SortedBy(rank, S) # {}
    OBVIOUS
  <2>1. S # {}
    BY FS_EmptySet
  <2> DEFINE R == {rank[x] : x \in S}
  <2>2. PICK r \in R : \A m \in R : r <= m
    <3>1. R \subseteq Nat /\ R # {}
      BY <2>1
    <3> HIDE DEF R
    <3>2. QED
      BY <3>1, LeastNumber, Zenon
  <2>3. PICK x \in S : \A y \in S : rank[x] <= rank[y]
    BY <2>2
  <2> DEFINE rest == S \ {x}
  <2>4. IsFiniteSet(rest) /\ Cardinality(rest) = n
    <3>1. IsFiniteSet(S \ {x}) /\ Cardinality(S \ {x}) = Cardinality(S) - 1
      BY FS_RemoveElement, Zenon
    <3>2. (n + 1) - 1 = n
      OBVIOUS
    <3>3. QED
      BY <3>1, <3>2
  <2>5. PICK p : p \in SortedBy(rank, rest)
    BY <1>2, <2>4
  <2>6. /\ p \in [1 .. n -> rest]
        /\ \A j, k \in 1 .. n : p[j] = p[k] => j = k
        /\ \A y \in rest : \E j \in 1 .. n : p[j] = y
        /\ \A j, k \in 1 .. n : j < k => rank[p[j]] <= rank[p[k]]
    BY <2>4, <2>5, Zenon DEF SortedBy, Bijection, Injection, Surjection, IsInjective
  <2> DEFINE q == [j \in 1 .. n + 1 |-> IF j = 1 THEN x ELSE p[j - 1]]
  <2>7. \A j \in 1 .. n + 1 : q[j] = IF j = 1 THEN x ELSE p[j - 1]
    OBVIOUS
  <2>8. \A j \in 2 .. n + 1 : j - 1 \in 1 .. n /\ j # 1 /\ j \in 1 .. n + 1
    OBVIOUS
  <2>9. \A j \in 1 .. n + 1 : j = 1 \/ j \in 2 .. n + 1
    OBVIOUS
  <2>10. q \in [1 .. n + 1 -> S]
    <3>1. \A j \in 1 .. n + 1 : q[j] \in S
      BY <2>6, <2>7, <2>8, <2>9
    <3>2. q = [j \in 1 .. n + 1 |-> q[j]]
      OBVIOUS
    <3> HIDE DEF q
    <3>3. QED
      BY <3>1, <3>2
  <2> HIDE DEF q, rest
  <2>11. \A j \in 2 .. n + 1 : q[j] = p[j - 1] /\ q[j] \in rest
    BY <2>6, <2>7, <2>8
  <2>12. x \notin rest /\ rest \subseteq S /\ S = rest \cup {x}
    BY DEF rest
  <2>13. 1 \in 1 .. n + 1 /\ q[1] = x
    BY <2>7
  <2>14. ASSUME NEW j \in 1 .. n + 1, NEW k \in 1 .. n + 1, q[j] = q[k]
         PROVE  j = k
    <3>1. CASE j = 1 /\ k = 1
      BY <3>1
    <3>2. CASE j = 1 /\ k \in 2 .. n + 1
      BY <2>11, <2>12, <2>13, <2>14, <3>2
    <3>3. CASE j \in 2 .. n + 1 /\ k = 1
      BY <2>11, <2>12, <2>13, <2>14, <3>3
    <3>4. CASE j \in 2 .. n + 1 /\ k \in 2 .. n + 1
      <4>1. j - 1 = k - 1
        BY <2>6, <2>8, <2>11, <2>14, <3>4
      <4>2. QED
        BY <3>4, <4>1
    <3>5. QED
      BY <2>9, <3>1, <3>2, <3>3, <3>4
  <2>15. ASSUME NEW y \in S
         PROVE  \E j \in 1 .. n + 1 : q[j] = y
    <3>1. CASE y = x
      BY <2>13, <3>1
    <3>2. CASE y \in rest
      <4>1. PICK j \in 1 .. n : p[j] = y
        BY <2>6, <3>2
      <4>2. j + 1 \in 1 .. n + 1 /\ j + 1 # 1 /\ (j + 1) - 1 = j
        OBVIOUS
      <4>3. q[j + 1] = y
        BY <2>7, <4>1, <4>2
      <4>4. QED
        BY <4>2, <4>3
    <3>3. QED
      BY <2>12, <3>1, <3>2
  <2>16. ASSUME NEW j \in 1 .. n + 1, NEW k \in 1 .. n + 1, j < k
         PROVE  rank[q[j]] <= rank[q[k]]
    <3>1. k \in 2 .. n + 1
      BY <2>16
    <3>2. CASE j = 1
      BY <2>3, <2>11, <2>12, <2>13, <3>1, <3>2
    <3>3. CASE j \in 2 .. n + 1
      <4>1. j - 1 \in 1 .. n /\ k - 1 \in 1 .. n /\ j - 1 < k - 1
        BY <2>16, <3>1, <3>3
      <4>2. QED
        BY <2>6, <2>11, <3>1, <3>3, <4>1
    <3>4. QED
      BY <2>9, <3>2, <3>3
  <2>17. q \in Bijection(1 .. n + 1, S)
    BY <2>10, <2>14, <2>15 DEF Bijection, Injection, Surjection, IsInjective
  <2>18. q \in SortedBy(rank, S)
    BY <2>16, <2>17 DEF SortedBy
  <2>19. QED
    BY <2>18
<1>3. Nat \subseteq F
  <2> HIDE DEF F
  <2>1. QED
    BY <1>1, <1>2, GrowingNumbers
<1>4. Cardinality(T) \in F
  <2> HIDE DEF F
  <2>1. QED
    BY <1>3, FS_CardinalityType
<1>5. QED
  BY <1>4

(* new is net with one more pin connected.                                 *)
OneMore(P, even, odd, net, new) ==
  /\ Routing(P, even, odd, new) /\ new.pins = net.pins
  /\ \E pin \in DOMAIN net.pins : pin \notin net.routed /\ new.routed = net.routed \cup {pin}

(* If every cell is reached from a marked one, one more pin is connected.  *)
LEMMA ConnectsOne ==
  ASSUME NEW P, NEW even, NEW odd, GoodLines(even, P), GoodLines(odd, P),
         OneLine(even), OneLine(odd), NEW numTurns \in Nat,
         NEW net, GoodPins(P, net.pins), Routing(P, even, odd, net),
         net.routed # DOMAIN net.pins,
         \A c \in P : Turns(even, odd, net.mark, numTurns)[numTurns][c].dist < Infinity
  PROVE  OneMore(P, even, odd, net, Connect(net, even, odd, numTurns))
<1> DEFINE s == Turns(even, odd, net.mark, numTurns)
           dist == [c \in DOMAIN even |-> s[numTurns][c].dist]
           found == Nearest(dist, net.pins, net.routed)
           pin == CHOOSE q \in found : TRUE
           way == Way(s, numTurns, net.pins[pin])
           new == Connect(net, even, odd, numTurns)
<1>1. new = IF found = {} THEN net ELSE Traced(net, pin, even, odd, way, numTurns)
  <2>1. Connect(net, even, odd, numTurns) = IF found = {} THEN net ELSE Traced(net, pin, even, odd, way, numTurns)
    BY ConnectForm, Zenon
  <2> HIDE DEF pin, way, found
  <2>2. QED
    BY <2>1
<1>2. PICK len \in Nat \ {0} : DOMAIN net.pins = 1 .. len
  BY DEF GoodPins
<1>3. \A j \in DOMAIN net.pins : net.pins[j] \in P
  BY DEF GoodPins
<1>4. DOMAIN even = P
  BY DEF GoodLines
<1>5. \A x \in P : s[numTurns][x].dist \in Nat /\ s[numTurns][x].dist < Infinity
  <2>1. numTurns \in 0 .. numTurns
    OBVIOUS
  <2>2. s[numTurns] \in States(P)
    BY <2>1, TurnsType
  <2>3. \A x \in P : s[numTurns][x].dist < Infinity
    OBVIOUS
  <2> HIDE DEF s
  <2>4. QED
    BY <2>2, <2>3 DEF States
<1>6. \A x \in P : dist[x] = s[numTurns][x].dist
  BY <1>4
<1>7. \A j \in DOMAIN net.pins : dist[net.pins[j]] \in Nat /\ dist[net.pins[j]] < Infinity
  BY <1>3, <1>5, <1>6
<1>8. PICK k \in DOMAIN net.pins : k \notin net.routed
  BY Zenon DEF Routing
<1> HIDE DEF dist
<1>9. found # {}
  BY <1>2, <1>7, <1>8, NearestExists, Zenon
<1>10. pin \in found
  BY <1>9
<1> HIDE DEF found, pin
<1>11. pin \in DOMAIN net.pins /\ pin \notin net.routed
  BY <1>7, <1>10, NearestFacts DEF found
<1> HIDE DEF way, s
<1>12. new = Traced(net, pin, even, odd, way, numTurns)
  BY <1>1, <1>9
<1>13. new.routed = net.routed \cup {pin}
  BY <1>12, TracedFacts
<1>14. Routing(P, even, odd, new) /\ new.pins = net.pins
  <2>1. \/ new = net
        \/ \E pin2, way2 : /\ new = Traced(net, pin2, even, odd, way2, numTurns)
                           /\ Trail(P, even, odd, numTurns, net, pin2, way2)
    <3>1. \A j, m \in DOMAIN net.pins : net.pins[j] = net.pins[m] => j = m
      BY DEF GoodPins
    <3>2. new = Connect(net, even, odd, numTurns)
      OBVIOUS
    <3> HIDE DEF new
    <3>3. \/ new = net
          \/ \E pin2, way2 :
               /\ new = Traced(net, pin2, even, odd, way2, numTurns)
               /\ Trail(P, even, odd, numTurns, net, pin2, way2)
               /\ Increasing(even) /\ Increasing(odd) =>
                    Avoids(even, odd, numTurns, net, pin2, way2)
      BY <1>3, <3>1, <3>2, ConnectTrail
    <3>4. QED
      BY <3>3
  <2>2. new # net
    BY <1>11, <1>13
  <2>3. PICK pin2, way2 : /\ new = Traced(net, pin2, even, odd, way2, numTurns)
                          /\ Trail(P, even, odd, numTurns, net, pin2, way2)
    BY <2>1, <2>2
  <2> HIDE DEF new
  <2>4. QED
    BY <2>3, RoutingTrail
<1>15. QED
  BY <1>11, <1>13, <1>14 DEF OneMore

(* The records of a net, by the pins connected so far.                      *)
RouteRounds(pins, even, odd, numTurns, len, after) ==
  /\ Route(pins, even, odd, numTurns) = after[len]
  /\ after[1] = Unrouted(pins)
  /\ \A k \in 1 .. len - 1 : after[k + 1] = Connect(after[k], even, odd, numTurns)

(* Route as its recursion says. *)
LEMMA RouteEquation ==
  ASSUME NEW pins, NEW even, NEW odd, NEW numTurns, NEW len \in Nat \ {0},
         DOMAIN pins = 1 .. len, Len(pins) = len
  PROVE  \E after : RouteRounds(pins, even, odd, numTurns, len, after)
<1> DEFINE Swp(x) == Only({Connect(net, even, odd, numTurns) : net \in {x}})
           first == Unrouted(pins)
           Eq(g, n) == g = [t \in 1 .. n |-> IF t = 1 THEN first ELSE Swp(g[t - 1])]
           F == {n \in Nat : \E g : Eq(g, n)}
<1>1. 0 \in F
  <2> HIDE DEF first, Swp
  <2> DEFINE g == [t \in 1 .. 0 |-> first]
  <2>1. Eq(g, 0)
    <3>1. 1 .. 0 = {}
      OBVIOUS
    <3>2. QED
      BY <3>1
  <2>2. QED
    BY <2>1, Zenon
<1>2. ASSUME NEW n \in Nat, n \in F
      PROVE  n + 1 \in F
  <2> HIDE DEF first, Swp
  <2>1. PICK g : Eq(g, n)
    BY <1>2
  <2> DEFINE h == [t \in 1 .. n + 1 |-> IF t = 1 THEN first ELSE IF t = n + 1 THEN Swp(g[n]) ELSE g[t]]
  <2>2. \A t \in 1 .. n + 1 : h[t] = IF t = 1 THEN first ELSE Swp(h[t - 1])
    <3> TAKE t \in 1 .. n + 1
    <3>1. CASE t = 1
      BY <2>1, <3>1
    <3>2. CASE t = n + 1 /\ t # 1
      <4>1. n \in 1 .. n /\ t - 1 = n /\ n \in 1 .. n + 1 /\ n # n + 1
        BY <3>2
      <4>2. h[t] = Swp(g[n])
        BY <3>2
      <4>3. h[n] = g[n]
        BY <2>1, <4>1
      <4>4. QED
        BY <3>2, <4>1, <4>2, <4>3
    <3>3. CASE t # 1 /\ t # n + 1
      <4>1. t \in 1 .. n /\ t - 1 \in 1 .. n /\ t - 1 # n + 1 /\ t - 1 \in 1 .. n + 1
        BY <3>3
      <4>2. h[t] = g[t]
        BY <3>3, <4>1
      <4>3. g[t] = Swp(g[t - 1])
        BY <2>1, <3>3, <4>1
      <4>4. h[t - 1] = g[t - 1]
        BY <2>1, <4>1
      <4>5. QED
        BY <3>3, <4>2, <4>3, <4>4
    <3>4. QED
      BY <3>1, <3>2, <3>3
  <2>3. Eq(h, n + 1)
    <3>1. h = [t \in 1 .. n + 1 |-> h[t]]
      OBVIOUS
    <3> HIDE DEF h
    <3>2. QED
      BY <2>2, <3>1
  <2> HIDE DEF h, Eq
  <2>4. QED
    BY <2>3
<1>3. len \in F
  <2> HIDE DEF F
  <2>1. QED
    BY <1>1, <1>2, GrowingNumbers
<1> DEFINE g == CHOOSE g : Eq(g, len)
<1>4. Eq(g, len)
  <2> HIDE DEF Swp, first
  <2>1. QED
    BY <1>3, Zenon
<1>5. Route(pins, even, odd, numTurns) = g[len]
  BY DEF Route
<1> HIDE DEF g
<1>6. g[1] = first
  <2>1. 1 \in 1 .. len
    OBVIOUS
  <2> HIDE DEF Swp, first
  <2>2. QED
    BY <1>4, <2>1
<1>7. ASSUME NEW k \in 1 .. len - 1
      PROVE  g[k + 1] = Connect(g[k], even, odd, numTurns)
  <2>1. k + 1 \in 1 .. len /\ k + 1 # 1 /\ (k + 1) - 1 = k
    OBVIOUS
  <2>2. g[k + 1] = Swp(g[k])
    <3> HIDE DEF Swp, first
    <3>1. QED
      BY <1>4, <2>1
  <2>3. {Connect(net, even, odd, numTurns) : net \in {g[k]}} = {Connect(g[k], even, odd, numTurns)}
    OBVIOUS
  <2>4. QED
    BY <2>2, <2>3, OnlyOne, Zenon
<1>8. QED
  BY <1>5, <1>6, <1>7 DEF RouteRounds

(* On lines that reach every cell all pins are connected. *)
THEOREM RouteAll ==
  ASSUME NEW P, NEW even, NEW odd, GoodLines(even, P), GoodLines(odd, P),
         OneLine(even), OneLine(odd), NEW numTurns \in Nat,
         NEW pins, GoodPins(P, pins), NEW len \in Nat \ {0}, DOMAIN pins = 1 .. len, Len(pins) = len,
         \A mark : \A a, c \in P : a \in mark =>
            Turns(even, odd, mark, numTurns)[numTurns][c].dist < Infinity
  PROVE  LET net == Route(pins, even, odd, numTurns)
         IN Routing(P, even, odd, net) /\ net.pins = pins /\ net.routed = DOMAIN pins
<1>0. PICK after : RouteRounds(pins, even, odd, numTurns, len, after)
  BY RouteEquation, Zenon
<1>1. /\ Route(pins, even, odd, numTurns) = after[len]
      /\ after[1] = Unrouted(pins)
      /\ \A k \in 1 .. len - 1 : after[k + 1] = Connect(after[k], even, odd, numTurns)
  BY <1>0 DEF RouteRounds
<1> DEFINE F == {k \in Nat : k + 1 <= len =>
                   /\ Routing(P, even, odd, after[k + 1]) /\ after[k + 1].pins = pins
                   /\ IsFiniteSet(after[k + 1].routed) /\ Cardinality(after[k + 1].routed) = k + 1}
<1>2. 0 \in F
  <2>1. Routing(P, even, odd, after[1])
    BY <1>1, UnroutedRouting
  <2>2. after[1].pins = pins /\ after[1].routed = {1}
    BY <1>1 DEF Unrouted
  <2>3. IsFiniteSet({1}) /\ Cardinality({1}) = 1
    BY FS_Singleton, Zenon
  <2>4. 0 + 1 = 1
    OBVIOUS
  <2>5. QED
    BY <2>1, <2>2, <2>3, <2>4, Zenon
<1>3. ASSUME NEW k \in Nat, k \in F
      PROVE  k + 1 \in F
  <2> SUFFICES ASSUME (k + 1) + 1 <= len
               PROVE  LET new == after[(k + 1) + 1]
                      IN /\ Routing(P, even, odd, new) /\ new.pins = pins
                         /\ IsFiniteSet(new.routed) /\ Cardinality(new.routed) = (k + 1) + 1
    OBVIOUS
  <2> DEFINE net == after[k + 1]
             new == after[(k + 1) + 1]
  <2>1. /\ Routing(P, even, odd, net) /\ net.pins = pins
        /\ IsFiniteSet(net.routed) /\ Cardinality(net.routed) = k + 1
    BY <1>3
  <2>2. k + 1 \in 1 .. len - 1
    OBVIOUS
  <2>3. new = Connect(net, even, odd, numTurns)
    BY <1>1, <2>2
  <2> HIDE DEF net, new
  <2>4. net.routed # DOMAIN net.pins
    <3>1. Cardinality(1 .. len) = len
      BY FS_Interval
    <3>2. k + 1 # len
      OBVIOUS
    <3>3. QED
      BY <2>1, <3>1, <3>2
  <2>5. \A c \in P : Turns(even, odd, net.mark, numTurns)[numTurns][c].dist < Infinity
    <3>1. 1 \in net.routed /\ net.pins[1] \in net.mark /\ net.mark \subseteq P
      BY <2>1 DEF Routing
    <3>2. net.pins[1] \in P
      BY <3>1
    <3>3. QED
      BY <3>1, <3>2
  <2>6. /\ Routing(P, even, odd, new) /\ new.pins = net.pins
        /\ \E pin \in DOMAIN net.pins : pin \notin net.routed /\ new.routed = net.routed \cup {pin}
    <3>1. GoodPins(P, net.pins)
      BY <2>1
    <3>2. OneMore(P, even, odd, net, Connect(net, even, odd, numTurns))
      BY <2>1, <2>4, <2>5, <3>1, ConnectsOne
    <3>3. QED
      BY <2>3, <3>2 DEF OneMore
  <2>7. PICK pin : pin \notin net.routed /\ new.routed = net.routed \cup {pin}
    BY <2>6
  <2>8. IsFiniteSet(new.routed) /\ Cardinality(new.routed) = (k + 1) + 1
    <3>1. IsFiniteSet(net.routed \cup {pin}) /\ Cardinality(net.routed \cup {pin}) = Cardinality(net.routed) + 1
      BY <2>1, <2>7, FS_AddElement, Zenon
    <3>2. QED
      BY <2>1, <2>7, <3>1
  <2>9. QED
    BY <2>1, <2>6, <2>8 DEF new
<1>4. Nat \subseteq F
  <2> HIDE DEF F
  <2>1. QED
    BY <1>2, <1>3, GrowingNumbers, Zenon
<1> DEFINE net == after[len]
<1>5. /\ Routing(P, even, odd, net) /\ net.pins = pins
      /\ IsFiniteSet(net.routed) /\ Cardinality(net.routed) = len
  <2>1. len - 1 \in F
    <3> HIDE DEF F
    <3>1. QED
      BY <1>4
  <2>2. (len - 1) + 1 = len
    OBVIOUS
  <2>3. QED
    BY <2>1, <2>2
<1> HIDE DEF net
<1>6. net.routed \subseteq 1 .. len
  BY <1>5 DEF Routing
<1>7. net.routed = 1 .. len
  <2>1. IsFiniteSet(1 .. len) /\ Cardinality(1 .. len) = len
    BY FS_Interval
  <2>2. QED
    BY <1>5, <1>6, <2>1, FS_Subset
<1>8. QED
  BY <1>1, <1>5, <1>7 DEF net
-----------------------------------------------------------------------------
(* The guides.                                                             *)

(* The cells of a coarse route lie in the box of its ends. *)
LEMMA CoarseWithin ==
  ASSUME NEW bx, GoodBox(bx), NEW a \in CoarseCells(bx), NEW b, NEW x,
         Reached(CoarseLines(bx, H), CoarseLines(bx, V), a, b, x)
  PROVE  /\ Within(a[1], b[1], x[1]) /\ Within(a[2], b[2], x[2])
         /\ b[1] \in Nat /\ b[2] \in Nat /\ x[1] \in Nat /\ x[2] \in Nat
<1>1. PICK d \in {H, V} : /\ Marking(CoarseLines(bx, d), a, b)
                          /\ x \in Between(CoarseLines(bx, d)[a], b)
  BY DEF Reached
<1> DEFINE f == CoarseLines(bx, d)
           P == CoarseCells(bx)
           low == BoxLow(bx, d)
           high == BoxHigh(bx, d)
<1>2. GoodLines(f, P) /\ OneLine(f)
  BY CoarseLinesGood
<1>3. /\ f[a].cells = [k \in 1 .. high - low |-> Put(a, d, low + k - 1)]
      /\ f[a].index = Coord(a, d) - low + 1
  BY CoarseLineFacts, ZenonT(30)
<1>4. PICK j \in DOMAIN f[a].cells : b = f[a].cells[j]
  BY <1>1 DEF Marking, OnLine
<1>5. PICK k \in DOMAIN f[a].cells :
        /\ x = f[a].cells[k]
        /\ (j <= k /\ k <= f[a].index) \/ (f[a].index <= k /\ k <= j)
  <2>1. a \in P /\ x \in Between(f[a], f[a].cells[j])
    BY <1>1, <1>4
  <2> HIDE DEF f, P
  <2>2. QED
    BY <1>2, <2>1, BetweenFacts
<1>6. low \in Nat /\ high \in Nat /\ a[1] \in Nat /\ a[2] \in Nat
      /\ Coord(a, d) \in low .. high - 1
  BY PutFacts
<1> HIDE DEF f, low, high
<1>7. /\ j \in Nat /\ k \in Nat /\ j >= 1 /\ k >= 1
      /\ b = Put(a, d, low + j - 1) /\ x = Put(a, d, low + k - 1)
  BY <1>3, <1>4, <1>5, <1>6, SMTT(30)
<1>8. low + j - 1 \in Nat /\ low + k - 1 \in Nat /\ Coord(a, d) = low + f[a].index - 1
  BY <1>3, <1>6, <1>7
<1>9. Within(Coord(a, d), low + j - 1, low + k - 1)
  BY <1>3, <1>5, <1>6, <1>7 DEF Within
<1>10. \A y \in Nat : Within(y, y, y)
  BY DEF Within
<1> DEFINE m == low + j - 1
           n == low + k - 1
<1> HIDE DEF m, n
<1>11. m \in Nat /\ n \in Nat /\ Within(Coord(a, d), m, n) /\ b = Put(a, d, m) /\ x = Put(a, d, n)
  BY <1>7, <1>8, <1>9 DEF m, n
<1>12. CASE d = H
  <2>1. b = <<m, a[2]>> /\ x = <<n, a[2]>> /\ Coord(a, d) = a[1]
    BY <1>11, <1>12 DEF Put, Coord
  <2>2. b[1] = m /\ b[2] = a[2] /\ x[1] = n /\ x[2] = a[2]
    BY <2>1
  <2>3. QED
    BY <1>6, <1>10, <1>11, <2>1, <2>2
<1>13. CASE d = V
  <2>1. b = <<a[1], m>> /\ x = <<a[1], n>> /\ Coord(a, d) = a[2]
    BY <1>11, <1>13 DEF Put, Coord, H, V
  <2>2. b[2] = m /\ b[1] = a[1] /\ x[2] = n /\ x[1] = a[1]
    BY <2>1
  <2>3. QED
    BY <1>6, <1>10, <1>11, <2>1, <2>2
<1>14. QED
  BY <1>12, <1>13

(* Coordinates of a point. *)
LEMMA PointFacts ==
  ASSUME NEW p \in Points
  PROVE  /\ p.l \in Layers /\ p.c \in Cells /\ p = [l |-> p.l, c |-> p.c]
         /\ p.c = <<p.c[1], p.c[2]>>
         /\ p.c[1] \in 0 .. xSize - 1 /\ p.c[2] \in 0 .. ySize - 1
         /\ xSize \in Nat /\ ySize \in Nat
BY GridAssumption DEF Points, Cells

(* The coarse cell of a cell is in the coarse grid. *)
LEMMA CoarseInGrid ==
  ASSUME NEW size \in Nat \ {0}, NEW n \in Nat, NEW c \in 0 .. n - 1
  PROVE  LET m == (n + size - 1) \div size
         IN c \div size \in Nat /\ m \in Nat /\ c \div size < m
<1> DEFINE a == n + size - 1
           q == c \div size
           r == a \div size
<1>1. a \in Nat /\ c \in Nat /\ c + size <= a
  OBVIOUS
<1> HIDE DEF a
<1>2. /\ q \in Nat /\ q * size \in Nat /\ q * size <= c
      /\ r \in Nat /\ r * size \in Nat /\ a < r * size + size
  BY <1>1, Division
<1> HIDE DEF q, r
<1>3. q * size < r * size
  BY <1>1, <1>2
<1>4. ~(r <= q)
  <2> SUFFICES ASSUME r <= q
               PROVE  FALSE
    OBVIOUS
  <2>1. (q - r) * size \in Nat
    BY <1>2
  <2>2. q * size = r * size + (q - r) * size
    BY <1>2
  <2>3. QED
    BY <1>2, <1>3, <2>1, <2>2
<1>5. QED
  BY <1>2, <1>4 DEF a, q, r

(* The box of the pins, and what the coarse box makes of one coordinate.   *)
LEMMA PinsBox ==
  ASSUME NEW points, points \subseteq Points, points # {}
  PROVE  LET bx == getPinIndicesBoundingBox(points)
         IN /\ \E p \in points : bx.lx = p.c[1]
            /\ \E p \in points : bx.ly = p.c[2]
            /\ \E p \in points : bx.hx = p.c[1]
            /\ \E p \in points : bx.hy = p.c[2]
            /\ \A p \in points : /\ bx.lx <= p.c[1] /\ p.c[1] <= bx.hx
                                 /\ bx.ly <= p.c[2] /\ p.c[2] <= bx.hy
<1> DEFINE xs == {p.c[1] : p \in points}
           ys == {p.c[2] : p \in points}
<1>1. getPinIndicesBoundingBox(points) = [lx |-> Min(xs), ly |-> Min(ys), hx |-> Max(xs), hy |-> Max(ys)]
  BY DEF getPinIndicesBoundingBox
<1>2. xs \subseteq 0 .. xSize - 1 /\ ys \subseteq 0 .. ySize - 1 /\ xs # {} /\ ys # {}
  BY PointFacts
<1>3. xSize \in Nat /\ ySize \in Nat
  BY GridAssumption
<1>4. \A p \in points : p.c[1] \in xs /\ p.c[2] \in ys
  OBVIOUS
<1>5. /\ \A x \in xs : \E p \in points : x = p.c[1]
      /\ \A y \in ys : \E p \in points : y = p.c[2]
  OBVIOUS
<1> HIDE DEF xs, ys
<1>6. /\ xs \subseteq Nat /\ ys \subseteq Nat /\ xs \subseteq 0 .. xSize /\ ys \subseteq 0 .. ySize
  BY <1>2, <1>3
<1>7. /\ Min(xs) \in xs /\ \A x \in xs : Min(xs) <= x
      /\ Min(ys) \in ys /\ \A y \in ys : Min(ys) <= y
  BY <1>2, <1>6, MinElement, Zenon
<1>8. /\ Max(xs) \in xs /\ \A x \in xs : x <= Max(xs)
      /\ Max(ys) \in ys /\ \A y \in ys : y <= Max(ys)
  BY <1>2, <1>3, <1>6, MaxElement, Zenon
<1> DEFINE bx == getPinIndicesBoundingBox(points)
<1> HIDE DEF bx
<1>9. bx.lx = Min(xs) /\ bx.ly = Min(ys) /\ bx.hx = Max(xs) /\ bx.hy = Max(ys)
  BY <1>1 DEF bx
<1>10. QED
  BY <1>4, <1>5, <1>7, <1>8, <1>9 DEF bx

(* The sides of the coarse box, widened by the margin, are in the grid. *)
LEMMA CoarseSide ==
  ASSUME NEW size \in Nat \ {0}, NEW n \in Nat, NEW low \in 0 .. n - 1, NEW high \in 0 .. n - 1
  PROVE  LET m == (n + size - 1) \div size
             a == High(0, low \div size - Margin)
             b == Low(m, Low(m, high \div size + 1) + Margin)
         IN /\ a \in Nat /\ b \in Nat /\ b <= m
            /\ \A c \in low .. high : a <= c \div size /\ c \div size < b
<1>1. Margin \in Nat
  BY ScaleAssumption
<1>2. /\ low \div size \in Nat /\ high \div size \in Nat /\ (n + size - 1) \div size \in Nat
      /\ high \div size < (n + size - 1) \div size
  BY CoarseInGrid
<1>3. \A c \in low .. high : /\ c \div size \in Nat /\ low \div size <= c \div size
                             /\ c \div size <= high \div size
  <2> SUFFICES ASSUME NEW c \in low .. high
               PROVE  /\ c \div size \in Nat /\ low \div size <= c \div size
                      /\ c \div size <= high \div size
    OBVIOUS
  <2>1. c \in Nat /\ low \in Nat /\ high \in Nat /\ low <= c /\ c <= high
    OBVIOUS
  <2>2. QED
    BY <1>1, <2>1, Division, DivisionOrder
<1> DEFINE l == low \div size
           h == high \div size
           m == (n + size - 1) \div size
<1> HIDE DEF l, h, m
<1>4. l \in Nat /\ h \in Nat /\ m \in Nat /\ h < m
  BY <1>2 DEF l, h, m
<1>5. High(0, l - Margin) \in Nat /\ High(0, l - Margin) <= l
  BY <1>1, <1>4 DEF High
<1>6. LET b == Low(m, Low(m, h + 1) + Margin) IN b \in Nat /\ b <= m /\ h < b
  BY <1>1, <1>4 DEF Low
<1>7. \A c \in low .. high : c \div size \in Nat /\ l <= c \div size /\ c \div size <= h
  BY <1>3 DEF l, h
<1>8. \A c \in low .. high : High(0, l - Margin) <= c \div size
                             /\ c \div size < Low(m, Low(m, h + 1) + Margin)
  <2> SUFFICES ASSUME NEW c \in low .. high
               PROVE  High(0, l - Margin) <= c \div size
                      /\ c \div size < Low(m, Low(m, h + 1) + Margin)
    OBVIOUS
  <2>1. PICK q \in Nat : q = c \div size /\ l <= q /\ q <= h
    BY <1>7
  <2>2. PICK b \in Nat : b = Low(m, Low(m, h + 1) + Margin) /\ h < b
    BY <1>6
  <2>3. High(0, l - Margin) <= q /\ q < b
    BY <1>4, <1>5, <2>1, <2>2
  <2>4. QED
    BY <2>1, <2>2, <2>3
<1>9. QED
  BY <1>5, <1>6, <1>8 DEF l, h, m

(* The coarse box holds the coarse cells of the pins. *)
LEMMA CoarseBoxHolds ==
  ASSUME NEW points, points \subseteq Points, points # {}
  PROVE  LET bx == CoarseBox(getPinIndicesBoundingBox(points))
         IN GoodBox(bx) /\ \A p \in points : Coarse(p.c) \in CoarseCells(bx)
<1> DEFINE pins == getPinIndicesBoundingBox(points)
           bx == CoarseBox(pins)
<1>1. /\ \E p \in points : pins.lx = p.c[1]
      /\ \E p \in points : pins.ly = p.c[2]
      /\ \E p \in points : pins.hx = p.c[1]
      /\ \E p \in points : pins.hy = p.c[2]
      /\ \A p \in points : /\ pins.lx <= p.c[1] /\ p.c[1] <= pins.hx
                           /\ pins.ly <= p.c[2] /\ p.c[2] <= pins.hy
  BY PinsBox
<1> HIDE DEF pins
<1>2. /\ pins.lx \in 0 .. xSize - 1 /\ pins.hx \in 0 .. xSize - 1
      /\ pins.ly \in 0 .. ySize - 1 /\ pins.hy \in 0 .. ySize - 1
      /\ xSize \in Nat /\ ySize \in Nat
      /\ ScaleX \in Nat \ {0} /\ ScaleY \in Nat \ {0}
  BY <1>1, PointFacts, GridAssumption, ScaleAssumption
<1>3. \A p \in points : p.c[1] \in pins.lx .. pins.hx /\ p.c[2] \in pins.ly .. pins.hy
  BY <1>1, <1>2, PointFacts
<1>4. /\ bx.lx = High(0, pins.lx \div ScaleX - Margin)
      /\ bx.ly = High(0, pins.ly \div ScaleY - Margin)
      /\ bx.hx = Low(coarseX, Low(coarseX, pins.hx \div ScaleX + 1) + Margin)
      /\ bx.hy = Low(coarseY, Low(coarseY, pins.hy \div ScaleY + 1) + Margin)
  BY DEF CoarseBox
<1> HIDE DEF bx
<1>5. /\ bx.lx \in Nat /\ bx.hx \in Nat /\ bx.hx <= coarseX
      /\ \A c \in pins.lx .. pins.hx : bx.lx <= c \div ScaleX /\ c \div ScaleX < bx.hx
  <2>1. LET m == (xSize + ScaleX - 1) \div ScaleX
            a == High(0, pins.lx \div ScaleX - Margin)
            b == Low(m, Low(m, pins.hx \div ScaleX + 1) + Margin)
        IN /\ a \in Nat /\ b \in Nat /\ b <= m
           /\ \A c \in pins.lx .. pins.hx : a <= c \div ScaleX /\ c \div ScaleX < b
    BY <1>2, CoarseSide, Zenon
  <2>2. QED
    BY <1>4, <2>1, Zenon DEF coarseX
<1>6. /\ bx.ly \in Nat /\ bx.hy \in Nat /\ bx.hy <= coarseY
      /\ \A c \in pins.ly .. pins.hy : bx.ly <= c \div ScaleY /\ c \div ScaleY < bx.hy
  <2>1. LET m == (ySize + ScaleY - 1) \div ScaleY
            a == High(0, pins.ly \div ScaleY - Margin)
            b == Low(m, Low(m, pins.hy \div ScaleY + 1) + Margin)
        IN /\ a \in Nat /\ b \in Nat /\ b <= m
           /\ \A c \in pins.ly .. pins.hy : a <= c \div ScaleY /\ c \div ScaleY < b
    BY <1>2, CoarseSide, Zenon
  <2>2. QED
    BY <1>4, <2>1, Zenon DEF coarseY
<1>7. GoodBox(bx)
  BY <1>5, <1>6 DEF GoodBox
<1>8. ASSUME NEW p \in points
      PROVE  Coarse(p.c) \in CoarseCells(bx)
  <2> DEFINE x == p.c[1] \div ScaleX
             y == p.c[2] \div ScaleY
  <2>1. x \in Nat /\ y \in Nat
    <3>1. p.c[1] \in 0 .. xSize - 1 /\ p.c[2] \in 0 .. ySize - 1
      BY PointFacts
    <3>2. QED
      BY <1>2, <3>1, CoarseInGrid
  <2>2. bx.lx <= x /\ x < bx.hx /\ bx.ly <= y /\ y < bx.hy
    BY <1>3, <1>5, <1>6
  <2>3. Coarse(p.c) = <<x, y>>
    BY DEF Coarse
  <2> HIDE DEF x, y
  <2>4. x \in bx.lx .. bx.hx - 1 /\ y \in bx.ly .. bx.hy - 1
    BY <1>5, <1>6, <2>1, <2>2
  <2>5. QED
    BY <2>3, <2>4 DEF CoarseCells
<1>9. QED
  BY <1>7, <1>8 DEF bx, pins

(* A fine box holds the cells of the coarse cells it is made of. *)
LEMMA FineHolds ==
  ASSUME NEW c \in Cells, NEW b, b.lx \in Nat, b.ly \in Nat, b.hx \in Nat, b.hy \in Nat,
         b.lx <= Coarse(c)[1], Coarse(c)[1] < b.hx, b.ly <= Coarse(c)[2], Coarse(c)[2] < b.hy
  PROVE  InBox(Fine(b), c)
<1>1. ScaleX \in Nat \ {0} /\ ScaleY \in Nat \ {0} /\ xSize \in Nat /\ ySize \in Nat
  BY ScaleAssumption, GridAssumption
<1>2. c[1] \in 0 .. xSize - 1 /\ c[2] \in 0 .. ySize - 1
  BY <1>1 DEF Cells
<1>3. Coarse(c)[1] = c[1] \div ScaleX /\ Coarse(c)[2] = c[2] \div ScaleY
  BY DEF Coarse
<1>4. ASSUME NEW size \in Nat \ {0}, NEW n \in Nat, NEW k \in 0 .. n - 1, NEW low \in Nat, NEW high \in Nat,
             low <= k \div size, k \div size < high
      PROVE  low * size <= k /\ k < Low(n, high * size)
  <2> DEFINE q == k \div size
  <2>1. q \in Nat /\ q * size \in Nat /\ q * size <= k /\ k < q * size + size
    BY <1>1, Division
  <2>2. low <= q /\ q < high
    BY <1>4
  <2> HIDE DEF q
  <2>3. low * size <= k
    <3>1. (q - low) * size \in Nat /\ low * size \in Nat
      BY <1>1, <2>1, <2>2
    <3>2. q * size = low * size + (q - low) * size
      BY <1>1, <2>1, <2>2
    <3>3. QED
      BY <2>1, <3>1, <3>2
  <2>4. k < high * size
    <3>1. (high - q - 1) * size \in Nat /\ high * size \in Nat
      BY <1>1, <2>1, <2>2
    <3>2. high * size = q * size + size + (high - q - 1) * size
      BY <1>1, <2>1, <2>2
    <3>3. QED
      BY <1>1, <2>1, <3>1, <3>2
  <2>5. QED
    BY <2>3, <2>4 DEF Low
<1>5. /\ b.lx * ScaleX <= c[1] /\ c[1] < Low(xSize, b.hx * ScaleX)
      /\ b.ly * ScaleY <= c[2] /\ c[2] < Low(ySize, b.hy * ScaleY)
  BY <1>1, <1>2, <1>3, <1>4, ZenonT(30)
<1> DEFINE g == Fine(b)
<1>6. g.lx = b.lx * ScaleX /\ g.ly = b.ly * ScaleY /\ g.hx = Low(xSize, b.hx * ScaleX) /\ g.hy = Low(ySize, b.hy * ScaleY)
  BY DEF Fine
<1> HIDE DEF g
<1>7. QED
  BY <1>5, <1>6 DEF InBox, g
-----------------------------------------------------------------------------
(* The pins of the coarse route. *)
LEMMA CoarsePinsFacts ==
  ASSUME NEW points, points \subseteq Points, points # {}, IsFiniteSet(points)
  PROVE  LET q == coarsePins(points)
         IN \E len \in Nat \ {0} :
              /\ q \in Seq({Coarse(p.c) : p \in points})
              /\ DOMAIN q = 1 .. len /\ Len(q) = len
              /\ \A j, k \in DOMAIN q : q[j] = q[k] => j = k
              /\ \A j \in DOMAIN q : \E p \in points : q[j] = Coarse(p.c)
              /\ \A p \in points : \E j \in DOMAIN q : q[j] = Coarse(p.c)
              /\ \A j, k \in DOMAIN q : j < k => CoarseRank(q[j]) <= CoarseRank(q[k])
<1> DEFINE cells == {Coarse(p.c) : p \in points}
           rank == [b \in cells |-> CoarseRank(b)]
           q == coarsePins(points)
           n == Cardinality(cells)
<1>1. IsFiniteSet(cells) /\ cells # {}
  <2>1. IsFiniteSet(cells)
    <3> DEFINE f == [p \in points |-> Coarse(p.c)]
    <3>1. f \in Surjection(points, cells)
      BY DEF Surjection
    <3>2. QED
      BY <3>1, FS_Surjection
  <2>2. QED
    BY <2>1
<1>2. \A b \in cells : rank[b] = CoarseRank(b)
  OBVIOUS
<1>3. \A b \in cells : CoarseRank(b) \in Nat
  <2> SUFFICES ASSUME NEW p \in points
               PROVE  CoarseRank(Coarse(p.c)) \in Nat
    OBVIOUS
  <2>1. p.c[1] \in 0 .. xSize - 1 /\ p.c[2] \in 0 .. ySize - 1 /\ xSize \in Nat /\ ySize \in Nat
    BY PointFacts
  <2>2. ScaleX \in Nat \ {0} /\ ScaleY \in Nat \ {0}
    BY ScaleAssumption
  <2>3. p.c[1] \div ScaleX \in Nat /\ p.c[2] \div ScaleY \in Nat /\ coarseX \in Nat
    BY <2>1, <2>2, CoarseInGrid DEF coarseX
  <2> DEFINE x == p.c[1] \div ScaleX
             y == p.c[2] \div ScaleY
  <2>4. CoarseRank(Coarse(p.c)) = x + y * coarseX
    BY DEF CoarseRank, Coarse
  <2> HIDE DEF x, y
  <2>5. x \in Nat /\ y \in Nat
    BY <2>3 DEF x, y
  <2>6. y * coarseX \in Nat
    BY <2>3, <2>5
  <2>7. QED
    BY <2>4, <2>5, <2>6
<1>4. q = CHOOSE x \in SortedBy(rank, cells) : TRUE
  BY DEF coarsePins
<1>5. \A p \in points : Coarse(p.c) \in cells
  OBVIOUS
<1>6. \A b \in cells : \E p \in points : b = Coarse(p.c)
  OBVIOUS
<1> HIDE DEF rank, q
<1>10. q \in Seq(cells) => q \in Seq({Coarse(p.c) : p \in points})
  OBVIOUS
<1> HIDE DEF cells
<1>7. q \in SortedBy(rank, cells)
  BY <1>1, <1>2, <1>3, <1>4, SortedExists
<1>8. /\ n \in Nat /\ q \in Seq(cells) /\ Len(q) = n /\ DOMAIN q = 1 .. n
      /\ \A j \in 1 .. n : q[j] \in cells
      /\ \A j, k \in 1 .. n : q[j] = q[k] => j = k
      /\ \A x \in cells : \E j \in 1 .. n : q[j] = x
      /\ \A j, k \in 1 .. n : j < k => rank[q[j]] <= rank[q[k]]
  BY <1>1, <1>7, SortedFacts
<1> HIDE DEF n
<1>9. n # 0
  BY <1>1, <1>8
<1>12. \A j, k \in DOMAIN q : j < k => CoarseRank(q[j]) <= CoarseRank(q[k])
  BY <1>2, <1>8
<1>11. /\ n \in Nat \ {0} /\ q \in Seq({Coarse(p.c) : p \in points})
       /\ DOMAIN q = 1 .. n /\ Len(q) = n
       /\ \A j, k \in DOMAIN q : q[j] = q[k] => j = k
       /\ \A j \in DOMAIN q : \E p \in points : q[j] = Coarse(p.c)
       /\ \A p \in points : \E j \in DOMAIN q : q[j] = Coarse(p.c)
       /\ \A j, k \in DOMAIN q : j < k => CoarseRank(q[j]) <= CoarseRank(q[k])
  <2>1. q \in Seq({Coarse(p.c) : p \in points})
    BY <1>8, <1>10
  <2>2. \A j \in DOMAIN q : \E p \in points : q[j] = Coarse(p.c)
    BY <1>6, <1>8
  <2>3. \A p \in points : \E j \in DOMAIN q : q[j] = Coarse(p.c)
    BY <1>5, <1>8
  <2>4. QED
    BY <1>8, <1>9, <1>12, <2>1, <2>2, <2>3
<1>13. QED
  BY <1>11, Zenon DEF q

(* Two numbers that are a scale apart are in different coarse cells. *)
LEMMA FarApart ==
  ASSUME NEW size \in Nat \ {0}, NEW a \in Nat, NEW b \in Nat, b - a >= size
  PROVE  a \div size # b \div size
<1> DEFINE q == a \div size
           r == b \div size
<1>1. /\ q \in Nat /\ q * size \in Nat /\ q * size <= a /\ a < q * size + size
      /\ r \in Nat /\ r * size \in Nat /\ r * size <= b /\ b < r * size + size
  BY Division
<1> HIDE DEF q, r
<1>2. q # r
  BY <1>1
<1>3. QED
  BY <1>2 DEF q, r

(* The coarse route of a net whose pins are apart covers their cells. *)
LEMMA CoarseCovers ==
  ASSUME NEW points, points \subseteq Points, points # {}, IsFiniteSet(points),
         NEW bx, GoodBox(bx), \A p \in points : Coarse(p.c) \in CoarseCells(bx),
         NEW one \in points, NEW two \in points, Coarse(one.c) # Coarse(two.c),
         NEW p \in points
  PROVE  \E k \in DOMAIN CoarseRoute(points, bx).routes :
           LET r == CoarseRoute(points, bx).routes[k]
           IN /\ r[1] \in CoarseCells(bx)
              /\ Reached(CoarseLines(bx, H), CoarseLines(bx, V), r[1], r[2], Coarse(p.c))
<1> DEFINE P == CoarseCells(bx)
           even == CoarseLines(bx, H)
           odd == CoarseLines(bx, V)
           q == coarsePins(points)
           net == CoarseRoute(points, bx)
<1>1. PICK len \in Nat \ {0} :
        /\ DOMAIN q = 1 .. len /\ Len(q) = len
        /\ \A j, k \in DOMAIN q : q[j] = q[k] => j = k
        /\ \A j \in DOMAIN q : \E r \in points : q[j] = Coarse(r.c)
        /\ \A r \in points : \E j \in DOMAIN q : q[j] = Coarse(r.c)
  BY CoarsePinsFacts, Zenon
<1>2. net = Route(q, even, odd, CoarseTurns)
  BY DEF CoarseRoute, CoarseLines, CoarsePositions, CoarseCells
<1>3. /\ GoodLines(even, P) /\ GoodLines(odd, P) /\ OneLine(even) /\ OneLine(odd)
  BY CoarseLinesGood DEF H, V
<1>4. CoarseTurns \in Nat
  BY TurnsAssumption
<1>5. \A mark : \A a, c \in P : a \in mark =>
         Turns(even, odd, mark, CoarseTurns)[CoarseTurns][c].dist < Infinity
  BY CoarseReached
<1> HIDE DEF P, even, odd, q, net
<1>6. GoodPins(P, q)
  <2>1. \A j \in DOMAIN q : q[j] \in P
    BY <1>1 DEF P
  <2>2. QED
    BY <1>1, <2>1, Zenon DEF GoodPins
<1>7. Routing(P, even, odd, net) /\ net.pins = q /\ net.routed = DOMAIN q
  BY <1>1, <1>2, <1>3, <1>4, <1>5, <1>6, RouteAll
<1>8. net.routed # {1}
  <2>1. PICK j \in DOMAIN q : q[j] = Coarse(one.c)
    BY <1>1
  <2>2. PICK k \in DOMAIN q : q[k] = Coarse(two.c)
    BY <1>1
  <2>3. QED
    BY <1>7, <2>1, <2>2
<1>9. PICK j \in DOMAIN q : q[j] = Coarse(p.c)
  BY <1>1
<1>10. Coarse(p.c) \in net.mark
  <2>1. net.pins[j] \in net.mark
    BY <1>7 DEF Routing
  <2>2. QED
    BY <1>7, <1>9, <2>1
<1>11. PICK k \in DOMAIN net.routes : Reached(even, odd, net.routes[k][1], net.routes[k][2], Coarse(p.c))
  BY <1>7, <1>8, <1>10 DEF Routing
<1>12. net.routes[k][1] \in P
  BY <1>7 DEF Routing
<1>13. QED
  BY <1>11, <1>12 DEF net, P, even, odd

(* The guides a net is routed in hold all of its pins. *)
LEMMA GuidesHold ==
  ASSUME NEW points, points \subseteq Points, points # {}, IsFiniteSet(points), NEW p \in points
  PROVE  p.c \in GuideCells(Guides(points))
<1> DEFINE pins == getPinIndicesBoundingBox(points)
           bx == CoarseBox(pins)
<1>1. GoodBox(bx) /\ \A r \in points : Coarse(r.c) \in CoarseCells(bx)
  BY CoarseBoxHolds
<1>2. p.c \in Cells /\ p.c[1] \in Nat /\ p.c[2] \in Nat
  BY PointFacts
<1>3. Guides(points) = IF pins.hx - pins.lx < ScaleX /\ pins.hy - pins.ly < ScaleY
                       THEN {Fine(bx)} ELSE getGuideFromRoutes2D(CoarseRoute(points, bx).routes)
  BY DEF Guides
<1>4. PICK x \in bx.lx .. bx.hx - 1, y \in bx.ly .. bx.hy - 1 : Coarse(p.c) = <<x, y>>
  BY <1>1 DEF CoarseCells
<1>5. /\ bx.lx \in Nat /\ bx.ly \in Nat /\ bx.hx \in Nat /\ bx.hy \in Nat
  BY <1>1 DEF GoodBox
<1>6. CASE pins.hx - pins.lx < ScaleX /\ pins.hy - pins.ly < ScaleY
  <2>1. Guides(points) = {Fine(bx)}
    BY <1>3, <1>6
  <2> HIDE DEF bx
  <2>2. Coarse(p.c)[1] = x /\ Coarse(p.c)[2] = y
    BY <1>4
  <2>3. /\ bx.lx <= Coarse(p.c)[1] /\ Coarse(p.c)[1] < bx.hx
        /\ bx.ly <= Coarse(p.c)[2] /\ Coarse(p.c)[2] < bx.hy
    BY <1>4, <1>5, <2>2
  <2>4. InBox(Fine(bx), p.c)
    BY <1>2, <1>5, <2>3, FineHolds
  <2>5. QED
    BY <1>2, <2>1, <2>4 DEF GuideCells
<1>7. CASE ~(pins.hx - pins.lx < ScaleX /\ pins.hy - pins.ly < ScaleY)
  <2>1. PICK one \in points, two \in points : Coarse(one.c) # Coarse(two.c)
    <3>1. /\ \E r \in points : pins.lx = r.c[1]
          /\ \E r \in points : pins.ly = r.c[2]
          /\ \E r \in points : pins.hx = r.c[1]
          /\ \E r \in points : pins.hy = r.c[2]
      BY PinsBox
    <3> HIDE DEF pins
    <3>2. ScaleX \in Nat \ {0} /\ ScaleY \in Nat \ {0}
      BY ScaleAssumption
    <3>3. \A r \in points : /\ r.c[1] \in Nat /\ r.c[2] \in Nat
                            /\ Coarse(r.c) = <<r.c[1] \div ScaleX, r.c[2] \div ScaleY>>
      BY PointFacts DEF Coarse
    <3>4. CASE pins.hx - pins.lx >= ScaleX
      <4>1. PICK a \in points, b \in points : pins.lx = a.c[1] /\ pins.hx = b.c[1]
        BY <3>1
      <4>2. a.c[1] \div ScaleX # b.c[1] \div ScaleX
        BY <3>2, <3>3, <3>4, <4>1, FarApart
      <4>3. Coarse(a.c) # Coarse(b.c)
        BY <3>3, <4>2
      <4>4. QED
        BY <4>3
    <3>5. CASE pins.hy - pins.ly >= ScaleY
      <4>1. PICK a \in points, b \in points : pins.ly = a.c[2] /\ pins.hy = b.c[2]
        BY <3>1
      <4>2. a.c[2] \div ScaleY # b.c[2] \div ScaleY
        BY <3>2, <3>3, <3>5, <4>1, FarApart
      <4>3. Coarse(a.c) # Coarse(b.c)
        BY <3>3, <4>2
      <4>4. QED
        BY <4>3
    <3>6. pins.lx \in Int /\ pins.hx \in Int /\ pins.ly \in Int /\ pins.hy \in Int
      BY <3>1, <3>3
    <3>7. QED
      BY <1>7, <3>2, <3>4, <3>5, <3>6
  <2> DEFINE routed == CoarseRoute(points, bx).routes
  <2>2. PICK k \in DOMAIN routed :
          /\ routed[k][1] \in CoarseCells(bx)
          /\ Reached(CoarseLines(bx, H), CoarseLines(bx, V), routed[k][1], routed[k][2], Coarse(p.c))
    <3> HIDE DEF bx
    <3>1. QED
      BY <1>1, <2>1, CoarseCovers
  <2> DEFINE a == routed[k][1]
             b == routed[k][2]
             g == [lx |-> Low(a[1], b[1]), ly |-> Low(a[2], b[2]),
                   hx |-> High(a[1], b[1]) + 1, hy |-> High(a[2], b[2]) + 1]
  <2>3. Fine(g) \in Guides(points)
    <3>1. Guides(points) = getGuideFromRoutes2D(routed)
      BY <1>3, <1>7
    <3>2. Fine(g) \in getGuideFromRoutes2D(routed)
      <4> HIDE DEF routed
      <4>1. QED
        BY DEF getGuideFromRoutes2D
    <3>3. QED
      BY <3>1, <3>2
  <2>4. /\ Within(a[1], b[1], Coarse(p.c)[1]) /\ Within(a[2], b[2], Coarse(p.c)[2])
        /\ b[1] \in Nat /\ b[2] \in Nat /\ Coarse(p.c)[1] \in Nat /\ Coarse(p.c)[2] \in Nat
        /\ a[1] \in Nat /\ a[2] \in Nat
    <3> HIDE DEF bx, routed
    <3>1. a \in CoarseCells(bx) /\ Reached(CoarseLines(bx, H), CoarseLines(bx, V), a, b, Coarse(p.c))
      BY <2>2
    <3> HIDE DEF a, b
    <3>2. /\ Within(a[1], b[1], Coarse(p.c)[1]) /\ Within(a[2], b[2], Coarse(p.c)[2])
          /\ b[1] \in Nat /\ b[2] \in Nat /\ Coarse(p.c)[1] \in Nat /\ Coarse(p.c)[2] \in Nat
      BY <1>1, <3>1, CoarseWithin
    <3>3. a[1] \in Nat /\ a[2] \in Nat
      BY <1>1, <3>1, PutFacts
    <3>4. QED
      BY <3>2, <3>3
  <2> HIDE DEF a, b
  <2>5. /\ g.lx \in Nat /\ g.ly \in Nat /\ g.hx \in Nat /\ g.hy \in Nat
        /\ g.lx <= Coarse(p.c)[1] /\ Coarse(p.c)[1] < g.hx
        /\ g.ly <= Coarse(p.c)[2] /\ Coarse(p.c)[2] < g.hy
    BY <2>4 DEF Within, Low, High
  <2> HIDE DEF g
  <2>6. InBox(Fine(g), p.c)
    BY <1>2, <2>5, FineHolds
  <2>7. QED
    BY <1>2, <2>3, <2>6 DEF GuideCells
<1>8. QED
  BY <1>6, <1>7
-----------------------------------------------------------------------------
(* Two elements or one. *)
LEMMA TwoElements ==
  \A a, b : /\ IsFiniteSet({a, b}) /\ Cardinality({a, b}) <= 2
            /\ Cardinality({a, b}) \in Nat
<1> TAKE a, b
<1>1. {a, b} = {a} \cup {b}
  OBVIOUS
<1>2. IsFiniteSet({a}) /\ Cardinality({a}) = 1
  BY FS_Singleton, Zenon
<1> DEFINE S == {a} \cup {b}
<1>3. IsFiniteSet(S) /\ (Cardinality(S) = Cardinality({a}) \/ Cardinality(S) = Cardinality({a}) + 1)
  BY <1>2, FS_AddElement
<1> DEFINE size == Cardinality(S)
<1>4. size = 1 \/ size = 2
  <2> HIDE DEF S
  <2>1. size = 1 \/ size = 1 + 1
    BY <1>2, <1>3
  <2>2. QED
    BY <2>1
<1>5. size <= 2 /\ size \in Nat
  BY <1>4
<1>6. QED
  BY <1>1, <1>3, <1>5

(* The access points of a net.                                             *)

(* The access point of a pin is one of its points. *)
LEMMA SelectedPoint ==
  ASSUME NEW pins \in Seq(Seq(Points) \ {<<>>}) \ {<<>>}, NEW m \in DOMAIN pins
  PROVE  Selected(pins, pins[m]) \in Points
<1> DEFINE points == pins[m]
           center == NetCenter(pins)
           Far(p) == Distance(center[1], p.c[1]) + Distance(center[2], p.c[2])
           access == [j \in DOMAIN points |-> Accessibility(points[j])]
           most == {j \in DOMAIN points : \A k \in DOMAIN points : access[k] <= access[j]}
           nearest == {j \in most : \A k \in most : Far(points[j]) <= Far(points[k])}
           cells == {p.c : p \in UNION {ToSet(pins[j]) : j \in DOMAIN pins}}
           xs == {c[1] : c \in cells}
           ys == {c[2] : c \in cells}
<1>1. \A j \in DOMAIN pins : /\ pins[j] \in Seq(Points) /\ pins[j] # <<>>
                             /\ ToSet(pins[j]) \subseteq Points
  <2> SUFFICES ASSUME NEW j \in DOMAIN pins
               PROVE  /\ pins[j] \in Seq(Points) /\ pins[j] # <<>>
                      /\ ToSet(pins[j]) \subseteq Points
    OBVIOUS
  <2>1. pins \in Seq(Seq(Points) \ {<<>>})
    OBVIOUS
  <2>2. pins[j] \in Seq(Points) \ {<<>>}
    BY <2>1
  <2>3. QED
    BY <2>2 DEF ToSet
<1>2. /\ points \in Seq(Points) /\ points # <<>> /\ DOMAIN points # {}
      /\ \A j \in DOMAIN points : points[j] \in Points
      /\ DOMAIN points \subseteq Nat
  <2>1. points \in Seq(Points) /\ points # <<>>
    BY <1>1
  <2> HIDE DEF points
  <2>2. Len(points) \in Nat /\ DOMAIN points = 1 .. Len(points) /\ Len(points) # 0
    BY <2>1
  <2>3. \A j \in DOMAIN points : points[j] \in Points
    BY <2>1
  <2>4. DOMAIN points # {} /\ DOMAIN points \subseteq Nat
    <3>1. 1 \in 1 .. Len(points)
      BY <2>2
    <3>2. QED
      BY <2>2, <3>1, SMTT(20)
  <2>5. QED
    BY <2>1, <2>3, <2>4
<1>3. xs \subseteq 0 .. xSize /\ ys \subseteq 0 .. ySize /\ xs # {} /\ ys # {}
  <2>1. \A c \in cells : c \in Cells
    BY <1>1, PointFacts
  <2>2. \E c \in cells : TRUE
    <3>1. PICK j \in DOMAIN points : points[j] \in Points
      BY <1>2
    <3>2. points[j] \in ToSet(points)
      BY <3>1 DEF ToSet
    <3>3. QED
      BY <3>2, Zenon
  <2> HIDE DEF cells
  <2>3. \A c \in cells : c[1] \in 0 .. xSize /\ c[2] \in 0 .. ySize
    BY <2>1, GridAssumption DEF Cells
  <2>4. QED
    BY <2>2, <2>3
<1>4. center[1] \in Int /\ center[2] \in Int
  <2>1. center = [k \in {1, 2} |-> LET x == {c[k] : c \in cells} IN (Min(x) + Max(x)) \div 2]
    BY DEF NetCenter
  <2>2. center[1] = (Min(xs) + Max(xs)) \div 2 /\ center[2] = (Min(ys) + Max(ys)) \div 2
    BY <2>1
  <2>3. xSize \in Nat /\ ySize \in Nat
    BY GridAssumption
  <2> HIDE DEF xs, ys
  <2>4. xs \subseteq Nat /\ ys \subseteq Nat
    BY <1>3, <2>3
  <2>5. Min(xs) \in Nat /\ Max(xs) \in Nat /\ Min(ys) \in Nat /\ Max(ys) \in Nat
    <3>1. Min(xs) \in xs /\ Min(ys) \in ys
      BY <1>3, <2>4, MinElement, Zenon
    <3>2. Max(xs) \in xs /\ Max(ys) \in ys
      BY <1>3, <2>3, MaxElement, Zenon
    <3>3. QED
      BY <2>4, <3>1, <3>2, Zenon
  <2> HIDE DEF center
  <2>6. QED
    BY <2>2, <2>5
<1>5. \A j \in DOMAIN points : Far(points[j]) \in Nat
  <2> SUFFICES ASSUME NEW p \in Points
               PROVE  Far(p) \in Nat
    BY <1>2
  <2>1. p.c[1] \in Nat /\ p.c[2] \in Nat
    BY PointFacts
  <2> HIDE DEF center
  <2>2. \A a, b \in Int : Distance(a, b) \in Nat
    BY DEF Distance
  <2>3. Distance(center[1], p.c[1]) \in Nat /\ Distance(center[2], p.c[2]) \in Nat
    <3>1. PICK a \in Int, b \in Int : a = center[1] /\ b = center[2]
      BY <1>4
    <3>2. p.c[1] \in Int /\ p.c[2] \in Int
      BY <2>1
    <3>3. Distance(a, p.c[1]) \in Nat /\ Distance(b, p.c[2]) \in Nat
      BY <2>2, <3>2, Zenon
    <3>4. QED
      BY <3>1, <3>3
  <2>4. QED
    BY <2>3
<1>6. \A j \in DOMAIN points : access[j] \in 0 .. 2
  <2> SUFFICES ASSUME NEW p
               PROVE  Accessibility(p) \in 0 .. 2
    OBVIOUS
  <2> DEFINE two == {Edge(p.l, p.c), Edge(p.l, Shift(p.c, layerDirections[p.l], -1))}
             S == {e \in two : Capacity(e) >= 2}
  <2>1. IsFiniteSet(two) /\ Cardinality(two) <= 2 /\ Cardinality(two) \in Nat
    BY TwoElements, Zenon
  <2>2. S \subseteq two
    OBVIOUS
  <2> HIDE DEF two
  <2>3. Cardinality(S) <= Cardinality(two) /\ Cardinality(S) \in Nat
    <3> HIDE DEF S
    <3>1. QED
      BY <2>1, <2>2, FS_Subset, FS_CardinalityType
  <2>4. Accessibility(p) = IF p.l >= min_routing_layer THEN Cardinality(S) ELSE 1
    BY DEF Accessibility, two
  <2> HIDE DEF S
  <2>5. QED
    BY <2>1, <2>3, <2>4
<1>7. most # {}
  <2> DEFINE R == {access[j] : j \in DOMAIN points}
  <2>1. R # {} /\ R \subseteq 0 .. 2
    <3> HIDE DEF access, points
    <3>1. QED
      BY <1>2, <1>6, Zenon
  <2>2. Max(R) \in R /\ \A r \in R : r <= Max(R)
    <3> HIDE DEF R
    <3>1. QED
      BY <2>1, MaxElement, Zenon
  <2> HIDE DEF access, points
  <2>3. PICK j \in DOMAIN points : access[j] = Max(R)
    BY <2>2, Zenon
  <2>4. \A k \in DOMAIN points : access[k] <= access[j]
    BY <2>2, <2>3
  <2>5. QED
    BY <2>4
<1>8. nearest # {} /\ nearest \subseteq DOMAIN points
  <2>1. most \subseteq DOMAIN points
    OBVIOUS
  <2> DEFINE R == {Far(points[j]) : j \in most}
  <2> HIDE DEF most
  <2>2. R # {} /\ R \subseteq Nat
    <3> HIDE DEF Far, points
    <3>1. QED
      BY <1>5, <1>7, <2>1
  <2>3. PICK r \in R : \A n \in R : r <= n
    <3> HIDE DEF R
    <3>1. QED
      BY <2>2, LeastNumber, Zenon
  <2> HIDE DEF Far, points
  <2>4. PICK j \in most : r = Far(points[j])
    BY <2>3
  <2>5. \A k \in most : Far(points[j]) <= Far(points[k])
    BY <2>3, <2>4
  <2>6. QED
    BY <2>1, <2>5
<1>9. Selected(pins, points) = points[Min(nearest)]
  BY DEF Selected
<1> HIDE DEF points, nearest
<1>10. Min(nearest) \in nearest
  BY <1>2, <1>8, MinElement, Zenon
<1>11. QED
  BY <1>2, <1>8, <1>9, <1>10 DEF points

(* So a net has access points in the grid, finitely many. *)
LEMMA AccessPoints ==
  ASSUME problem \in Problems, NEW n \in Nets
  PROVE  LET points == selectAccessPoints(problem.nets[n].pins)
         IN points \subseteq Points /\ points # {} /\ IsFiniteSet(points)
<1> DEFINE pins == problem.nets[n].pins
           points == selectAccessPoints(pins)
<1>1. pins \in Seq(Seq(Points) \ {<<>>}) \ {<<>>}
  <2>1. problem.nets[n] \in NetRecord
    BY NetsFinite
  <2>2. QED
    BY <2>1 DEF NetRecord
<1> HIDE DEF pins
<1>2. points = {Selected(pins, pins[j]) : j \in DOMAIN pins}
  BY DEF selectAccessPoints
<1>3. points \subseteq Points
  BY <1>1, <1>2, SelectedPoint, Zenon
<1>4. Len(pins) \in Nat /\ DOMAIN pins = 1 .. Len(pins) /\ Len(pins) # 0
  BY <1>1
<1>5. points # {}
  <2>1. 1 \in DOMAIN pins
    BY <1>4
  <2>2. QED
    BY <1>2, <2>1
<1>6. IsFiniteSet(points)
  <2> DEFINE f == [j \in DOMAIN pins |-> Selected(pins, pins[j])]
  <2>1. f \in Surjection(DOMAIN pins, points)
    BY <1>2 DEF Surjection
  <2>2. IsFiniteSet(DOMAIN pins)
    BY <1>4, FS_Interval
  <2>3. QED
    BY <2>1, <2>2, FS_Surjection
<1>7. QED
  BY <1>3, <1>5, <1>6 DEF pins
-----------------------------------------------------------------------------
(* The pins of the fine route.                                             *)

(* No two cells of the coarse grid have one rank. *)
LEMMA RankInjective ==
  ASSUME NEW p \in Points, NEW q \in Points, CoarseRank(Coarse(p.c)) = CoarseRank(Coarse(q.c))
  PROVE  Coarse(p.c) = Coarse(q.c)
<1>1. /\ xSize \in Nat /\ ySize \in Nat /\ ScaleX \in Nat \ {0} /\ ScaleY \in Nat \ {0}
      /\ p.c[1] \in 0 .. xSize - 1 /\ q.c[1] \in 0 .. xSize - 1
      /\ p.c[2] \in 0 .. ySize - 1 /\ q.c[2] \in 0 .. ySize - 1
  BY PointFacts, ScaleAssumption
<1> DEFINE a == p.c[1] \div ScaleX
           b == p.c[2] \div ScaleY
           c == q.c[1] \div ScaleX
           d == q.c[2] \div ScaleY
<1>2. /\ a \in Nat /\ b \in Nat /\ c \in Nat /\ d \in Nat /\ coarseX \in Nat
      /\ a < coarseX /\ c < coarseX
  BY <1>1, CoarseInGrid DEF coarseX
<1>3. Coarse(p.c) = <<a, b>> /\ Coarse(q.c) = <<c, d>>
  BY DEF Coarse
<1>4. CoarseRank(<<a, b>>) = a + b * coarseX /\ CoarseRank(<<c, d>>) = c + d * coarseX
  BY DEF CoarseRank
<1> HIDE DEF a, b, c, d
<1>5. a \in 0 .. coarseX - 1 /\ c \in 0 .. coarseX - 1
  BY <1>2
<1>6. b * coarseX \in Nat /\ d * coarseX \in Nat
  BY <1>2
<1>7. b * coarseX + a = d * coarseX + c
  <2>1. a + b * coarseX = c + d * coarseX
    BY <1>3, <1>4, Zenon
  <2> DEFINE x == b * coarseX
             y == d * coarseX
  <2> HIDE DEF x, y
  <2>2. x \in Nat /\ y \in Nat /\ a + x = c + y
    BY <1>6, <2>1 DEF x, y
  <2>3. x + a = y + c
    BY <1>2, <2>2
  <2>4. QED
    BY <2>3 DEF x, y
<1>8. ~(b < d)
  BY <1>2, <1>5, <1>7, Digits
<1>9. ~(d < b)
  BY <1>2, <1>5, <1>7, Digits
<1>10. b = d
  BY <1>2, <1>8, <1>9
<1>11. a = c
  BY <1>2, <1>6, <1>7, <1>10
<1>12. QED
  BY <1>3, <1>10, <1>11

(* The pins of a fine route, and where it starts. *)
LEMMA FinePins ==
  ASSUME NEW points, points \subseteq Points, points # {}, IsFiniteSet(points),
         NEW order \in SortedByRank(points)
  PROVE  /\ \E len \in Nat \ {0} : DOMAIN order = 1 .. len /\ Cardinality(points) = len /\ Len(order) = len
         /\ \A j \in DOMAIN order : order[j] \in points
         /\ \A j, k \in DOMAIN order : order[j] = order[k] => j = k
         /\ ToSet(order) = points /\ \A p \in points : \E j \in DOMAIN order : order[j] = p
         /\ Coarse(order[1].c) = Head(coarsePins(points))
<1> DEFINE rank == [p \in points |-> CoarseRank(Coarse(p.c))]
           n == Cardinality(points)
           q == coarsePins(points)
<1>1. order \in SortedBy(rank, points)
  BY DEF SortedByRank
<1>2. \A p \in points : rank[p] = CoarseRank(Coarse(p.c))
  OBVIOUS
<1> HIDE DEF rank
<1>3. /\ n \in Nat /\ order \in Seq(points) /\ Len(order) = n /\ DOMAIN order = 1 .. n
      /\ \A j \in 1 .. n : order[j] \in points
      /\ \A j, k \in 1 .. n : order[j] = order[k] => j = k
      /\ \A x \in points : \E j \in 1 .. n : order[j] = x
      /\ \A j, k \in 1 .. n : j < k => rank[order[j]] <= rank[order[k]]
      /\ ToSet(order) = points
  BY <1>1, SortedFacts
<1>4. n # 0
  BY <1>3
<1>5. PICK len \in Nat \ {0} :
        /\ q \in Seq({Coarse(p.c) : p \in points})
        /\ DOMAIN q = 1 .. len /\ Len(q) = len
        /\ \A j, k \in DOMAIN q : q[j] = q[k] => j = k
        /\ \A j \in DOMAIN q : \E p \in points : q[j] = Coarse(p.c)
        /\ \A p \in points : \E j \in DOMAIN q : q[j] = Coarse(p.c)
        /\ \A j, k \in DOMAIN q : j < k => CoarseRank(q[j]) <= CoarseRank(q[k])
  BY CoarsePinsFacts, Zenon
<1> HIDE DEF n, q
<1>6. 1 \in 1 .. n /\ 1 \in DOMAIN q /\ order[1] \in points
  BY <1>3, <1>4, <1>5
<1>7. Head(q) = q[1]
  BY <1>5
<1>8. \A p \in points : CoarseRank(Coarse(p.c)) \in Nat
  <2> SUFFICES ASSUME NEW p \in points
               PROVE  CoarseRank(Coarse(p.c)) \in Nat
    OBVIOUS
  <2>1. /\ p.c[1] \in 0 .. xSize - 1 /\ p.c[2] \in 0 .. ySize - 1 /\ xSize \in Nat /\ ySize \in Nat
        /\ ScaleX \in Nat \ {0} /\ ScaleY \in Nat \ {0}
    BY PointFacts, ScaleAssumption
  <2>2. p.c[1] \div ScaleX \in Nat /\ p.c[2] \div ScaleY \in Nat /\ coarseX \in Nat
    BY <2>1, CoarseInGrid DEF coarseX
  <2> DEFINE x == p.c[1] \div ScaleX
             y == p.c[2] \div ScaleY
  <2>3. CoarseRank(Coarse(p.c)) = x + y * coarseX /\ x \in Nat /\ y \in Nat
    BY <2>2 DEF CoarseRank, Coarse
  <2> HIDE DEF x, y
  <2>4. QED
    BY <2>2, <2>3
<1>9. PICK p \in points : q[1] = Coarse(p.c)
  BY <1>5, <1>6
<1>10. CoarseRank(Coarse(order[1].c)) <= CoarseRank(Coarse(p.c))
  <2>1. PICK j \in 1 .. n : order[j] = p
    BY <1>3
  <2>2. CASE j = 1
    BY <1>8, <2>1, <2>2
  <2>3. CASE j # 1
    <3>1. 1 < j
      BY <1>3, <2>3
    <3>2. rank[order[1]] <= rank[order[j]]
      BY <1>3, <1>6, <3>1
    <3>3. QED
      BY <1>2, <1>6, <2>1, <3>2
  <2>4. QED
    BY <2>2, <2>3
<1>11. CoarseRank(Coarse(p.c)) <= CoarseRank(Coarse(order[1].c))
  <2>1. PICK j \in DOMAIN q : q[j] = Coarse(order[1].c)
    BY <1>5, <1>6
  <2>2. CASE j = 1
    BY <1>8, <1>9, <2>1, <2>2
  <2>3. CASE j # 1
    <3>1. 1 < j
      BY <1>5, <2>3
    <3>2. CoarseRank(q[1]) <= CoarseRank(q[j])
      BY <1>5, <1>6, <3>1, Zenon
    <3>3. QED
      BY <1>9, <2>1, <3>2
  <2>4. QED
    BY <2>2, <2>3
<1>12. CoarseRank(Coarse(p.c)) = CoarseRank(Coarse(order[1].c))
  BY <1>6, <1>8, <1>10, <1>11
<1>13. Coarse(p.c) = Coarse(order[1].c)
  BY <1>6, <1>12, RankInjective
<1>14. Coarse(order[1].c) = Head(q)
  BY <1>7, <1>9, <1>13
<1>15. QED
  BY <1>3, <1>4, <1>14 DEF n, q

-----------------------------------------------------------------------------
(* The net being routed.                                                   *)

Fined(boxes, fine) == FineRouting(GuidePoints(boxes), Vias(boxes), Wires(boxes), fine)
Accesses(n) == selectAccessPoints(problem.nets[n].pins)

(* Its pins are its access points, on its guides, in the order of the      *)
(* coarse route, and its routes are those of the pins connected so far.    *)
WorkInv ==
  work # Idle =>
    /\ work.fine.pins \in SortedByRank(Accesses(work.net))
    /\ \A p \in Accesses(work.net) : p.c \in GuideCells(work.boxes)
    /\ Fined(work.boxes, work.fine)

(* What a net gets: the segments of its routes, ordered.                   *)
SegmentsOf(r) == [k \in DOMAIN r |-> Ordered(r[k][1], r[k][2])]

(* The routes of a net with all pins connected, of which there are two at  *)
(* least: segments that hang together and end in all pins.                 *)
Joining(r, points) ==
  /\ \A k \in DOMAIN r : Segment(r[k])
  /\ points \subseteq RouteEnds(r)
  /\ \A S : \A p \in points :
       /\ p \in S
       /\ \A k \in DOMAIN r : \A x, y \in RouteEnds(r) :
            OnRoute(r[k], x) /\ OnRoute(r[k], y) /\ x \in S => y \in S
       => RouteEnds(r) \subseteq S

(* The lines of the guides change with the demands only. *)
LEMMA LinesKept ==
  ASSUME NEW boxes, UNCHANGED <<problem, devDemand>>
  PROVE  Wires(boxes)' = Wires(boxes)
BY DEF Wires, Wire, Along, WireCost

(* And the access points do not change at all. *)
LEMMA AccessKept ==
  ASSUME NEW n, UNCHANGED problem
  PROVE  Accesses(n)' = Accesses(n)
BY DEF Accesses, selectAccessPoints, Selected, Accessibility, Capacity, NetCenter

(* The routes of a net of which all pins are connected. *)
LEMMA JoinedRoutes ==
  ASSUME NEW boxes, NEW fine, Fined(boxes, fine), GoodPins(GuidePoints(boxes), fine.pins),
         fine.routed = DOMAIN fine.pins, fine.routed # {1},
         NEW r, r = SegmentsOf(fine.routes)
  PROVE  Joining(r, ToSet(fine.pins))
<1> DEFINE P == GuidePoints(boxes)
           even == Vias(boxes)
           odd == Wires(boxes)
           routed == fine.routes
<1>1. /\ Routing(P, even, odd, fine)
      /\ \A j \in fine.routed : fine.pins[j] \in RouteCells(routed)
      /\ HangTogether(even, odd, fine)
  BY DEF Fined, FineRouting
<1>2. P \subseteq Points
  BY DEF GuidePoints, GuideCells, Points
<1>3. /\ DOMAIN r = DOMAIN routed
      /\ \A k \in DOMAIN routed : r[k] = Ordered(routed[k][1], routed[k][2])
  BY DEF SegmentsOf
<1>4. \A k \in DOMAIN routed :
        /\ routed[k][1] \in P /\ routed[k][2] \in P /\ routed[k][1] # routed[k][2]
        /\ \E f \in {even, odd} : Marking(f, routed[k][1], routed[k][2])
  BY <1>1 DEF Routing
<1> HIDE DEF routed
<1>5. ASSUME NEW k \in DOMAIN routed, NEW x \in Points,
             Reached(even, odd, routed[k][1], routed[k][2], x)
      PROVE  OnRoute(r[k], x)
  <2>1. PICK a \in P, b \in P : a = routed[k][1] /\ b = routed[k][2] /\ a # b
    BY <1>4
  <2>2. Reached(even, odd, a, b, x)
    BY <1>5, <2>1
  <2>3. OnRoute(Ordered(a, b), x)
    BY <2>1, <2>2, ReachedOnRoute
  <2>4. QED
    BY <1>3, <2>1, <2>3
<1>6. ASSUME NEW k \in DOMAIN routed
      PROVE  Segment(r[k]) /\ {r[k].u, r[k].v} = {routed[k][1], routed[k][2]}
  <2>1. PICK a \in P, b \in P : a = routed[k][1] /\ b = routed[k][2] /\ a # b
    BY <1>4
  <2>2. PICK f \in {even, odd} : Marking(f, a, b)
    BY <1>4, <2>1
  <2>3. Reached(even, odd, a, b, a)
    BY <2>2 DEF Reached, Marking
  <2>4. OnVia(a, b, a) \/ OnRow(a, b, a)
    BY <2>1, <2>3, ReachedOnRoute
  <2>5. Segment(Ordered(a, b)) /\ {Ordered(a, b).u, Ordered(a, b).v} = {a, b}
    BY <1>2, <2>4, OrderedSegment
  <2>6. QED
    BY <1>3, <2>1, <2>5
<1>7. RouteEnds(r) = RouteCells(routed)
  <2> DEFINE F(k) == {r[k].u, r[k].v}
             G(k) == {routed[k][1], routed[k][2]}
  <2>1. \A k \in DOMAIN r : F(k) = G(k)
    BY <1>3, <1>6
  <2>2. RouteEnds(r) = UNION {F(k) : k \in DOMAIN r} /\ RouteCells(routed) = UNION {G(k) : k \in DOMAIN routed}
    BY DEF RouteEnds, RouteCells
  <2> HIDE DEF F, G
  <2>3. QED
    BY <1>3, <2>1, <2>2
<1>8. \A p \in ToSet(fine.pins) : \E j \in DOMAIN fine.pins : p = fine.pins[j]
  BY DEF ToSet
<1>9. ToSet(fine.pins) \subseteq RouteEnds(r)
  BY <1>1, <1>7, <1>8
<1>10. RouteCells(routed) \subseteq Points
  <2>1. RouteCells(routed) = UNION {{routed[k][1], routed[k][2]} : k \in DOMAIN routed}
    BY DEF RouteCells
  <2>2. QED
    BY <1>2, <1>4, <2>1
<1>11. ASSUME NEW S, NEW p \in ToSet(fine.pins), p \in S,
              \A k \in DOMAIN r : \A x, y \in RouteEnds(r) :
                OnRoute(r[k], x) /\ OnRoute(r[k], y) /\ x \in S => y \in S
       PROVE  RouteEnds(r) \subseteq S
  <2> DEFINE first == fine.pins[1]
             rest == RouteCells(routed) \ S
  <2>1. first \in RouteCells(routed) /\ p \in RouteCells(routed)
    <3>1. 1 \in fine.routed
      BY <1>1 DEF Routing
    <3>2. QED
      BY <1>1, <1>7, <1>9, <3>1
  <2>2. ASSUME NEW k \in DOMAIN routed, NEW x \in RouteCells(routed), NEW y \in RouteCells(routed),
               Reached(even, odd, routed[k][1], routed[k][2], x),
               Reached(even, odd, routed[k][1], routed[k][2], y)
        PROVE  x \in S <=> y \in S
    <3>1. x \in Points /\ y \in Points
      BY <1>10
    <3>2. OnRoute(r[k], x) /\ OnRoute(r[k], y)
      BY <1>5, <2>2, <3>1
    <3>3. QED
      BY <1>3, <1>7, <1>11, <3>2
  <2>3. Linked(even, odd, routed, S) /\ Linked(even, odd, routed, rest)
    BY <2>2 DEF Linked
  <2>4. \A T : first \in T /\ Linked(even, odd, routed, T) => RouteCells(routed) \subseteq T
    BY <1>1 DEF HangTogether, routed
  <2>5. QED
    BY <1>7, <1>11, <2>1, <2>3, <2>4
<1>12. QED
  BY <1>3, <1>6, <1>9, <1>11 DEF Joining

(* A net of one pin has no routes. *)
LEMMA OneRoute ==
  ASSUME NEW boxes, NEW fine, Fined(boxes, fine), fine.routed = {1}
  PROVE  SegmentsOf(fine.routes) = <<>>
<1>1. DOMAIN fine.routes = {}
  BY DEF Fined, FineRouting, Routing
<1> DEFINE r == SegmentsOf(fine.routes)
<1>2. DOMAIN r = {} /\ r = [k \in DOMAIN r |-> r[k]]
  BY <1>1 DEF SegmentsOf
<1>3. QED
  BY <1>2

-----------------------------------------------------------------------------
(* The nets whose routes are to be applied. *)
Placed == IF phase = "route" THEN isOverflow \ todo ELSE IF phase = "apply" THEN todo ELSE {}

(* Their routes lead from the root to all pins, if all were connected.     *)
JoinedNet(n) ==
  /\ rootIdx[n] \in Accesses(n)
  /\ isRouted[n] => IF Cardinality(Accesses(n)) = 1 THEN routes[n] = <<>>
                    ELSE Joining(routes[n], Accesses(n))

RoutesInv ==
  /\ rootIdx = [n \in Nets |-> rootIdx[n]] /\ isRouted = [n \in Nets |-> isRouted[n]]
  /\ work # Idle => rootIdx[work.net] \in Accesses(work.net)
  /\ \A n \in Placed : JoinedNet(n)

(* What holds of the lines holds of them while the demands stay. *)
LEMMA FinedKept ==
  ASSUME NEW boxes, NEW fine, Fined(boxes, fine), UNCHANGED <<problem, devDemand>>
  PROVE  Fined(boxes, fine)'
<1>1. Wires(boxes)' = Wires(boxes)
  BY LinesKept
<1>2. QED
  BY <1>1 DEF Fined

(* A new state of the net being routed. *)
LEMMA NewWork ==
  ASSUME NEW net, NEW boxes, NEW fine, UNCHANGED <<problem, devDemand>>,
         work'.net = net, work'.boxes = boxes, work'.fine = fine,
         fine.pins \in SortedByRank(Accesses(net)),
         \A p \in Accesses(net) : p.c \in GuideCells(boxes),
         Fined(boxes, fine)
  PROVE  WorkInv'
<1>1. Fined(boxes, fine)'
  BY FinedKept
<1>2. Accesses(net)' = Accesses(net)
  BY AccessKept
<1>3. QED
  BY <1>1, <1>2 DEF WorkInv

(* The pins of a net being routed are points of its guides. *)
LEMMA WorkPins ==
  ASSUME NetsInv, NEW net \in Nets, NEW boxes, NEW pins \in SortedByRank(Accesses(net)),
         \A p \in Accesses(net) : p.c \in GuideCells(boxes)
  PROVE  /\ GoodPins(GuidePoints(boxes), pins)
         /\ ToSet(pins) = Accesses(net)
         /\ pins[1].c \in GuideCells(boxes)
         /\ Coarse(pins[1].c) = Head(coarsePins(Accesses(net)))
         /\ \E len \in Nat \ {0} : DOMAIN pins = 1 .. len /\ Cardinality(Accesses(net)) = len
         /\ \A j \in DOMAIN pins : pins[j].c \in GuideCells(boxes)
<1> DEFINE points == Accesses(net)
<1>1. points \subseteq Points /\ points # {} /\ IsFiniteSet(points)
  BY AccessPoints DEF NetsInv, Accesses
<1> HIDE DEF points
<1>2. pins \in SortedByRank(points)
  BY DEF points
<1>3. /\ \E len \in Nat \ {0} : DOMAIN pins = 1 .. len /\ Cardinality(points) = len /\ Len(pins) = len
      /\ \A j \in DOMAIN pins : pins[j] \in points
      /\ \A j, k \in DOMAIN pins : pins[j] = pins[k] => j = k
      /\ ToSet(pins) = points
      /\ Coarse(pins[1].c) = Head(coarsePins(points))
  BY <1>1, <1>2, FinePins
<1>4. \A p \in points : p \in GuidePoints(boxes) /\ p.c \in GuideCells(boxes)
  <2> SUFFICES ASSUME NEW p \in points
               PROVE  p \in GuidePoints(boxes) /\ p.c \in GuideCells(boxes)
    OBVIOUS
  <2>1. p.c \in GuideCells(boxes)
    BY DEF points
  <2>2. p = [l |-> p.l, c |-> p.c] /\ p.l \in Layers
    BY <1>1, PointFacts
  <2>3. QED
    BY <2>1, <2>2 DEF GuidePoints
<1>5. 1 \in DOMAIN pins
  BY <1>3
<1>6. GoodPins(GuidePoints(boxes), pins)
  BY <1>3, <1>4 DEF GoodPins
<1>7. QED
  BY <1>3, <1>4, <1>5, <1>6 DEF points

(* Choosing the next net. *)
LEMMA WorkPrepare ==
  ASSUME NetsInv, RoutesInv, Prepare
  PROVE  WorkInv' /\ RoutesInv'
<1>1. PICK net \in Nets : net = Min(todo)
  BY NetsFinite, MinElement DEF Prepare, NetsInv
<1> DEFINE points == Accesses(net)
<1>2. points \subseteq Points /\ points # {} /\ IsFiniteSet(points)
  BY AccessPoints DEF NetsInv, Accesses
<1>3. PICK order \in SortedByRank(points) :
        work' = [net |-> net, boxes |-> Guides(points), round |-> 1, fine |-> Unrouted(order)]
  BY <1>1 DEF Prepare, Accesses
<1>4. /\ UNCHANGED <<problem, devDemand, routes, isRouted, isOverflow, todo, phase>>
      /\ rootIdx' = [rootIdx EXCEPT ![net] = Foremost(points)]
      /\ net \in todo /\ phase = "route"
  BY <1>1, NetsFinite, MinElement DEF Prepare, Accesses, NetsInv
<1>5. PICK boxes : boxes = Guides(points)
  OBVIOUS
<1>6. \A p \in points : p.c \in GuideCells(boxes)
  <2> HIDE DEF points
  <2>1. QED
    BY <1>2, <1>5, GuidesHold
<1>7. GoodPins(GuidePoints(boxes), order)
  BY <1>6, WorkPins
<1> DEFINE fine == Unrouted(order)
<1>8. Fined(boxes, fine)
  BY <1>7, UnroutedFine DEF Fined
<1>9. fine.pins = order
  BY DEF Unrouted
<1> HIDE DEF fine
<1>10. work' = [net |-> net, boxes |-> boxes, round |-> 1, fine |-> fine]
  BY <1>3, <1>5 DEF fine
<1>11. work'.net = net /\ work'.boxes = boxes /\ work'.fine = fine
  BY <1>10
<1>12. WorkInv'
  BY <1>3, <1>4, <1>6, <1>8, <1>9, <1>11, NewWork
<1>13. Foremost(points) \in points
  <2> HIDE DEF points
  <2> DEFINE S == {Index(p) : p \in points}
  <2>1. S \subseteq Nat /\ S # {}
    BY <1>2, IndexOrder
  <2>2. PICK m \in S : \A k \in S : m <= k
    <3> HIDE DEF S
    <3>1. QED
      BY <2>1, LeastNumber, Zenon
  <2>3. PICK p \in points : m = Index(p)
    BY <2>2
  <2>4. \A q \in points : Index(p) <= Index(q)
    BY <2>2, <2>3
  <2>5. QED
    BY <2>4 DEF Foremost
<1>14. \A n : Accesses(n)' = Accesses(n)
  BY <1>4, AccessKept
<1>15. Nets' = Nets /\ Placed' = Placed /\ net \notin Placed
  BY <1>4 DEF Nets, Placed
<1> HIDE DEF points
<1>16. rootIdx' = [n \in Nets |-> IF n = net THEN Foremost(points) ELSE rootIdx[n]]
  BY <1>4 DEF RoutesInv
<1>17. rootIdx'[net] \in Accesses(net)
  BY <1>13, <1>16 DEF points
<1>18. \A n \in Placed : n \in Nets /\ n # net
  BY <1>4, <1>15 DEF Placed, NetsInv
<1>19. ASSUME NEW n \in Placed
       PROVE  JoinedNet(n)'
  <2>1. rootIdx'[n] = rootIdx[n] /\ routes'[n] = routes[n] /\ isRouted'[n] = isRouted[n]
    BY <1>4, <1>16, <1>18
  <2>2. JoinedNet(n)
    BY DEF RoutesInv
  <2>3. QED
    BY <1>14, <2>1, <2>2 DEF JoinedNet
<1>20. rootIdx' = [n \in Nets |-> rootIdx'[n]] /\ isRouted' = [n \in Nets |-> isRouted'[n]]
  BY <1>4, <1>16 DEF RoutesInv
<1>21. rootIdx'[work'.net] \in Accesses(work.net)'
  BY <1>11, <1>14, <1>17
<1>22. RoutesInv'
  BY <1>15, <1>19, <1>20, <1>21 DEF RoutesInv
<1>23. QED
  BY <1>12, <1>22

(* The steps after which the nets to be applied are as they were. *)
LEMMA RoutesKept ==
  ASSUME RoutesInv, UNCHANGED <<problem, routes, rootIdx, isRouted>>, Placed' \subseteq Placed,
         work' = Idle \/ (work # Idle /\ work'.net = work.net)
  PROVE  RoutesInv'
<1>1. \A n : Accesses(n)' = Accesses(n)
  BY AccessKept
<1>2. Nets' = Nets
  BY DEF Nets
<1>3. \A n \in Placed' : JoinedNet(n)'
  BY <1>1 DEF RoutesInv, JoinedNet
<1>4. work' # Idle => rootIdx'[work'.net] \in Accesses(work.net)'
  <2> SUFFICES ASSUME work' # Idle
               PROVE  rootIdx'[work'.net] \in Accesses(work.net)'
    OBVIOUS
  <2>1. PICK net : net = work.net
    OBVIOUS
  <2>2. work'.net = net /\ rootIdx[net] \in Accesses(net)
    BY <2>1 DEF RoutesInv
  <2>3. QED
    BY <1>1, <2>2
<1>5. QED
  BY <1>2, <1>3, <1>4 DEF RoutesInv

(* Connecting one more pin. *)
LEMMA WorkRoute ==
  ASSUME NetsInv, WorkInv, RoutesInv, RoutePin
  PROVE  WorkInv' /\ RoutesInv'
<1>1. work # Idle /\ phase = "route" /\ work.net \in todo
  BY DEF RoutePin, NetsInv
<1>2. PICK net, boxes, old, round :
        /\ work = [net |-> net, boxes |-> boxes, round |-> round, fine |-> old]
        /\ net = work.net /\ boxes = work.boxes /\ old = work.fine
  BY <1>1 DEF NetsInv
<1>3. PICK fine : fine = Connect(old, Vias(boxes), Wires(boxes), FineTurns)
  OBVIOUS
<1>4. work' = [work EXCEPT !.round = @ + 1, !.fine = fine]
  BY <1>2, <1>3 DEF RoutePin, Vias, Wires, GuidePoints
<1>5. work'.net = net /\ work'.boxes = boxes /\ work'.fine = fine /\ work' # Idle
  BY <1>2, <1>4, Zenon DEF Idle
<1>6. /\ old.pins \in SortedByRank(Accesses(net))
      /\ \A p \in Accesses(net) : p.c \in GuideCells(boxes)
      /\ Fined(boxes, old)
  BY <1>1, <1>2 DEF WorkInv
<1>7. GoodPins(GuidePoints(boxes), old.pins)
  BY <1>1, <1>2, <1>6, WorkPins DEF NetsInv
<1>8. Fined(boxes, fine) /\ fine.pins = old.pins
  BY <1>3, <1>6, <1>7, TurnsAssumption, FineLines, FineConnect DEF Fined
<1>9. UNCHANGED <<problem, devDemand, routes, rootIdx, isRouted, isOverflow, todo, phase>>
  BY DEF RoutePin
<1>10. WorkInv'
  BY <1>5, <1>6, <1>8, <1>9, NewWork
<1>11. Placed' = Placed
  BY <1>9 DEF Placed
<1>12. RoutesInv'
  BY <1>1, <1>2, <1>5, <1>9, <1>11, RoutesKept
<1>13. QED
  BY <1>10, <1>12

(* Committing a net: if all of its pins are connected, its routes lead     *)
(* from any of them to all of them.                                        *)
LEMMA WorkCommit ==
  ASSUME NetsInv, WorkInv, RoutesInv, CommitNet
  PROVE  WorkInv' /\ RoutesInv'
<1>1. work # Idle /\ phase = "route" /\ work.net \in todo /\ work.net \in Nets
  BY DEF CommitNet, NetsInv
<1>2. PICK net, boxes, fine : net \in Nets /\ net = work.net /\ boxes = work.boxes /\ fine = work.fine
  BY <1>1
<1> DEFINE r == SegmentsOf(fine.routes)
           points == Accesses(net)
<1>3. /\ routes' = [routes EXCEPT ![net] = r]
      /\ isRouted' = [isRouted EXCEPT ![net] = (fine.routed = DOMAIN fine.pins)]
      /\ work' = Idle /\ todo' = todo \ {net}
      /\ UNCHANGED <<problem, rootIdx, isOverflow, phase>>
  BY <1>2 DEF CommitNet, SegmentsOf, IsRouted
<1>4. /\ fine.pins \in SortedByRank(points)
      /\ \A p \in points : p.c \in GuideCells(boxes)
      /\ Fined(boxes, fine) /\ rootIdx[net] \in points
  BY <1>1, <1>2 DEF WorkInv, RoutesInv
<1>5. /\ GoodPins(GuidePoints(boxes), fine.pins) /\ ToSet(fine.pins) = points
      /\ \E len \in Nat \ {0} : DOMAIN fine.pins = 1 .. len /\ Cardinality(points) = len
  BY <1>2, <1>4, WorkPins, Zenon
<1> HIDE DEF r, points
<1>6. fine.routed = DOMAIN fine.pins => IF Cardinality(points) = 1 THEN r = <<>> ELSE Joining(r, points)
  <2> SUFFICES ASSUME fine.routed = DOMAIN fine.pins
               PROVE  IF Cardinality(points) = 1 THEN r = <<>> ELSE Joining(r, points)
    OBVIOUS
  <2>1. PICK len \in Nat \ {0} : DOMAIN fine.pins = 1 .. len /\ Cardinality(points) = len
    BY <1>5
  <2>2. CASE len = 1
    <3>1. 1 .. 1 = {1}
      OBVIOUS
    <3>2. fine.routed = {1}
      BY <2>1, <2>2, <3>1
    <3>3. r = <<>>
      BY <1>4, <3>2, OneRoute DEF r
    <3>4. QED
      BY <2>1, <2>2, <3>3
  <2>3. CASE len # 1
    <3>1. len \in 1 .. len
      OBVIOUS
    <3>2. fine.routed # {1}
      BY <2>1, <2>3, <3>1
    <3>3. Joining(r, ToSet(fine.pins))
      BY <1>4, <1>5, <3>2, JoinedRoutes, Zenon DEF r
    <3>4. QED
      BY <1>5, <2>1, <2>3, <3>3
  <2>4. QED
    BY <2>2, <2>3
<1>7. \A n : Accesses(n)' = Accesses(n)
  BY <1>3, AccessKept
<1>8. Nets' = Nets /\ Placed \subseteq Nets /\ net \notin Placed /\ Placed' \subseteq Placed \cup {net}
  BY <1>1, <1>2, <1>3 DEF Nets, Placed, NetsInv
<1>9. /\ routes'[net] = r /\ isRouted'[net] = (fine.routed = DOMAIN fine.pins)
      /\ \A n \in Nets : n # net => routes'[n] = routes[n] /\ isRouted'[n] = isRouted[n]
      /\ isRouted' = [n \in Nets |-> isRouted'[n]] /\ rootIdx' = [n \in Nets |-> rootIdx'[n]]
  BY <1>2, <1>3 DEF NetsInv, RoutesInv
<1>10. JoinedNet(net)'
  <2>1. rootIdx'[net] \in Accesses(net)' /\ Accesses(net)' = points
    BY <1>3, <1>4, <1>7 DEF points
  <2>2. isRouted'[net] => IF Cardinality(points) = 1 THEN routes'[net] = <<>> ELSE Joining(routes'[net], points)
    BY <1>6, <1>9, Zenon
  <2>3. QED
    BY <2>1, <2>2 DEF JoinedNet
<1>11. ASSUME NEW n \in Placed
       PROVE  JoinedNet(n)'
  <2>1. /\ rootIdx'[n] = rootIdx[n] /\ routes'[n] = routes[n] /\ isRouted'[n] = isRouted[n]
        /\ Accesses(n)' = Accesses(n)
    BY <1>3, <1>7, <1>8, <1>9
  <2>2. JoinedNet(n)
    BY DEF RoutesInv
  <2>3. QED
    BY <2>1, <2>2 DEF JoinedNet
<1>12. RoutesInv'
  <2>1. \A n \in Placed' : JoinedNet(n)'
    BY <1>8, <1>10, <1>11
  <2>2. QED
    BY <1>3, <1>8, <1>9, <2>1 DEF RoutesInv
<1>13. WorkInv'
  BY <1>3 DEF WorkInv
<1>14. QED
  BY <1>12, <1>13

RouteInv == NetsInv /\ WorkInv /\ RoutesInv

(* At first no net is being routed and none is to be applied. *)
LEMMA RouteInit == Init => RouteInv
<1> SUFFICES ASSUME Init
             PROVE  RouteInv
  OBVIOUS
<1>1. NetsInv
  BY DemandInit DEF DemandInv
<1>2. WorkInv
  BY Zenon DEF Init, WorkInv
<1>3. rootIdx = [n \in Nets |-> rootIdx[n]] /\ isRouted = [n \in Nets |-> isRouted[n]]
  BY Zenon DEF Init
<1>4. RoutesInv
  BY <1>3, Zenon DEF Init, RoutesInv, Placed
<1>5. QED
  BY <1>1, <1>2, <1>4 DEF RouteInv

(* Every action keeps it so. *)
LEMMA RouteStep == RouteInv /\ [Next]_vars => RouteInv'
<1> SUFFICES ASSUME RouteInv, [Next]_vars
             PROVE  RouteInv'
  OBVIOUS
<1>1. NetsInv /\ WorkInv /\ RoutesInv /\ NetsInv'
  BY NetsStep DEF RouteInv
<1>2. WorkInv' /\ RoutesInv'
  <2>1. CASE Prepare
    BY <1>1, <2>1, WorkPrepare
  <2>2. CASE RoutePin
    BY <1>1, <2>2, WorkRoute
  <2>3. CASE CommitNet
    BY <1>1, <2>3, WorkCommit
  <2>4. CASE RipUp \/ MarkOverflow
    <3>1. work = Idle /\ work' = Idle /\ UNCHANGED <<problem, routes, rootIdx, isRouted>>
      BY <1>1, <2>4 DEF RipUp, MarkOverflow, NetsInv
    <3>2. Placed' \subseteq Placed
      BY <1>1, <2>4 DEF RipUp, MarkOverflow, NetsInv, Placed
    <3>3. QED
      BY <1>1, <3>1, <3>2, RoutesKept DEF WorkInv
  <2>5. CASE Apply \/ Write \/ UNCHANGED vars
    <3>1. UNCHANGED <<problem, devDemand, routes, rootIdx, isRouted, work>>
      BY <2>5 DEF Apply, Write, vars
    <3>2. Placed' \subseteq Placed
      BY <2>5 DEF Apply, Write, vars, Placed
    <3>3. work' = Idle \/ (work # Idle /\ work'.net = work.net)
      BY <3>1
    <3>4. RoutesInv'
      BY <1>1, <3>1, <3>2, <3>3, RoutesKept
    <3>5. WorkInv'
      <4>1. PICK net, boxes, fine : net = work.net /\ boxes = work.boxes /\ fine = work.fine
        OBVIOUS
      <4>2. CASE work = Idle
        BY <3>1, <4>2 DEF WorkInv
      <4>3. CASE work # Idle
        <5>1. /\ fine.pins \in SortedByRank(Accesses(net))
              /\ \A p \in Accesses(net) : p.c \in GuideCells(boxes)
              /\ Fined(boxes, fine)
          BY <1>1, <4>1, <4>3 DEF WorkInv
        <5>2. work'.net = net /\ work'.boxes = boxes /\ work'.fine = fine
          BY <3>1, <4>1
        <5>3. QED
          BY <3>1, <5>1, <5>2, NewWork
      <4>4. QED
        BY <4>2, <4>3
    <3>6. QED
      BY <3>4, <3>5
  <2>6. QED
    BY <2>1, <2>2, <2>3, <2>4, <2>5 DEF Next, Finished
<1>3. QED
  BY <1>1, <1>2 DEF RouteInv

(* What is said of the net being routed and of the nets that were. *)
LEMMA RouteImplies == RouteInv => PinsOnGuides /\ PinsEndRoutes
<1> SUFFICES ASSUME RouteInv
             PROVE  PinsOnGuides /\ PinsEndRoutes
  OBVIOUS
<1>1. NetsInv /\ WorkInv /\ RoutesInv
  BY DEF RouteInv
<1>2. PinsOnGuides
  <2> SUFFICES ASSUME work # Idle
               PROVE  /\ \A j \in DOMAIN work.fine.pins : work.fine.pins[j].c \in GuideCells(work.boxes)
                      /\ Coarse(work.fine.pins[1].c) = Head(coarsePins(ToSet(work.fine.pins)))
    BY DEF PinsOnGuides
  <2>1. PICK net, boxes, pins : net \in Nets /\ net = work.net /\ boxes = work.boxes /\ pins = work.fine.pins
    BY <1>1 DEF NetsInv
  <2>2. pins \in SortedByRank(Accesses(net)) /\ \A p \in Accesses(net) : p.c \in GuideCells(boxes)
    BY <1>1, <2>1 DEF WorkInv
  <2>3. /\ ToSet(pins) = Accesses(net)
        /\ Coarse(pins[1].c) = Head(coarsePins(Accesses(net)))
        /\ \A j \in DOMAIN pins : pins[j].c \in GuideCells(boxes)
    BY <1>1, <2>1, <2>2, WorkPins, Zenon
  <2>4. QED
    BY <2>1, <2>3
<1>3. PinsEndRoutes
  <2> SUFFICES ASSUME NEW n \in Nets, phase = "route", n \in isOverflow \ todo, isRouted[n],
                      Cardinality(Accesses(n)) > 1
               PROVE  Accesses(n) \subseteq RouteEnds(routes[n])
    BY DEF PinsEndRoutes, Accesses
  <2>1. JoinedNet(n)
    BY <1>1 DEF RoutesInv, Placed
  <2>2. Joining(routes[n], Accesses(n))
    <3>1. Cardinality(Accesses(n)) # 1
      <4>1. ~(1 > 1)
        OBVIOUS
      <4>2. QED
        BY <4>1
    <3>2. QED
      BY <2>1, <3>1 DEF JoinedNet
  <2>3. QED
    BY <2>2 DEF Joining
<1>4. QED
  BY <1>2, <1>3

(* The nets done have routes that join their pins, and the routes of the   *)
(* net under way hang together, whichever nets fail.                       *)
THEOREM RoutesInvariant == Spec => []RouteInv
  BY RouteInit, RouteStep, PTL DEF Spec

(* The guides a net is routed in hold all of its pins, and its fine route  *)
(* starts in the coarse cell its coarse one started in.                    *)
THEOREM GuidesHoldPins == Spec => []PinsOnGuides
<1>1. RouteInv => PinsOnGuides
  BY RouteImplies
<1>2. QED
  BY <1>1, RouteInit, RouteStep, PTL DEF Spec

(* Every pin of a net that was routed is the end of a route.               *)
THEOREM RoutesEndInPins == Spec => []PinsEndRoutes
<1>1. RouteInv => PinsEndRoutes
  BY RouteImplies
<1>2. QED
  BY <1>1, RouteInit, RouteStep, PTL DEF Spec
-----------------------------------------------------------------------------
(* The walk of extractGRTree.                                              *)

(* Between the points of a route in a set and those out of it there is a   *)
(* piece.                                                                  *)
LEMMA PiecesConnect ==
  ASSUME NEW on, on \subseteq Points, NEW S, NEW x \in on, x \in S, NEW y \in on, y \notin S
  PROVE  \E p \in on, q \in on : p \in S /\ q \notin S /\ {p, q} \in Pieces(on)
<1> DEFINE D == {Distance(Index(p), Index(q)) : p \in on \cap S, q \in on \ S}
<1>1. \A p \in on : Index(p) \in Nat
  BY IndexOrder
<1>2. \A a, b \in Nat : Distance(a, b) \in Nat
  BY DEF Distance
<1>3. D \subseteq Nat /\ D # {}
  <2>1. \A p \in on, q \in on : Distance(Index(p), Index(q)) \in Nat
    BY <1>1, <1>2
  <2>2. Distance(Index(x), Index(y)) \in D
    OBVIOUS
  <2>3. QED
    BY <2>1, <2>2
<1>4. PICK d \in D : \A e \in D : d <= e
  <2> HIDE DEF D
  <2>1. QED
    BY <1>3, LeastNumber, Zenon
<1>5. PICK p \in on \cap S, q \in on \ S : d = Distance(Index(p), Index(q))
  BY <1>4
<1>6. \A a \in on \cap S, b \in on \ S : Distance(Index(p), Index(q)) <= Distance(Index(a), Index(b))
  BY <1>4, <1>5
<1>7. Index(p) # Index(q)
  BY <1>5, IndexInjective
<1>8. ASSUME NEW z \in on
      PROVE  /\ ~(Index(p) < Index(z) /\ Index(z) < Index(q))
             /\ ~(Index(q) < Index(z) /\ Index(z) < Index(p))
  <2>1. Index(p) \in Nat /\ Index(q) \in Nat /\ Index(z) \in Nat
    BY <1>1
  <2>2. \/ Distance(Index(p), Index(q)) <= Distance(Index(z), Index(q))
        \/ Distance(Index(p), Index(q)) <= Distance(Index(p), Index(z))
    BY <1>6
  <2>3. QED
    BY <2>1, <2>2 DEF Distance
<1>9. {p, q} \in Pieces(on)
  <2>1. CASE Index(p) < Index(q)
    <3>1. <<p, q>> \in {pq \in on \X on :
                     /\ Index(pq[1]) < Index(pq[2])
                     /\ \A z \in on : Index(z) <= Index(pq[1]) \/ Index(pq[2]) <= Index(z)}
      BY <1>1, <1>8, <2>1
    <3>2. QED
      BY <3>1 DEF Pieces
  <2>2. CASE Index(q) < Index(p)
    <3>1. <<q, p>> \in {pq \in on \X on :
                     /\ Index(pq[1]) < Index(pq[2])
                     /\ \A z \in on : Index(z) <= Index(pq[1]) \/ Index(pq[2]) <= Index(z)}
      BY <1>1, <1>8, <2>2
    <3>2. {<<q, p>>[1], <<q, p>>[2]} = {p, q}
      OBVIOUS
    <3>3. QED
      BY <3>1, <3>2 DEF Pieces
  <2>3. QED
    BY <1>1, <1>7, <2>1, <2>2
<1>10. p \in on /\ q \in on /\ p \in S /\ q \notin S
  BY <1>5
<1> HIDE DEF D
<1>11. QED
  BY <1>9, <1>10, Zenon

(* A piece has two ends on the route. *)
LEMMA PieceEnds ==
  ASSUME NEW on, NEW piece \in Pieces(on)
  PROVE  \E p \in on, q \in on : piece = {p, q} /\ Index(p) < Index(q)
BY DEF Pieces

(* A function on 1 .. m is a sequence. *)
LEMMA FunctionSequence ==
  ASSUME NEW T, NEW m \in Nat, NEW f \in [1 .. m -> T]
  PROVE  f \in Seq(T) /\ Len(f) = m
OBVIOUS

(* A finite set as a sequence. *)
LEMMA SetAsSequence ==
  ASSUME NEW S, IsFiniteSet(S)
  PROVE  LET f == SetToSeq(S)
             n == Cardinality(S)
         IN /\ n \in Nat /\ f \in Seq(S) /\ Len(f) = n /\ DOMAIN f = 1 .. n
            /\ \A j \in 1 .. n : f[j] \in S
            /\ \A j, k \in 1 .. n : f[j] = f[k] => j = k
            /\ \A x \in S : \E j \in 1 .. n : f[j] = x
<1> DEFINE n == Cardinality(S)
           f == SetToSeq(S)
<1>1. n \in Nat
  BY FS_CardinalityType
<1>2. IsFiniteSet(1 .. n) /\ Cardinality(1 .. n) = n
  BY <1>1, FS_Interval
<1>3. ExistsBijection(1 .. n, S)
  BY <1>2, FS_SameCardinalityBij
<1>4. PICK g : g \in Bijection(1 .. n, S)
  BY <1>3 DEF ExistsBijection
<1>5. g \in [1 .. n -> S] /\ \A j, k \in 1 .. n : g[j] = g[k] => j = k
  BY <1>4 DEF Bijection, Injection, IsInjective
<1> DEFINE Good(h) == h \in [1 .. n -> S] /\ \A j, k \in 1 .. n : h[j] = h[k] => j = k
<1>6. \A h \in [1 .. n -> S] : IsInjective(h) <=> \A j, k \in 1 .. n : h[j] = h[k] => j = k
  BY DEF IsInjective
<1>7. f = CHOOSE h \in [1 .. n -> S] : IsInjective(h)
  BY DEF SetToSeq
<1>8. \E h \in [1 .. n -> S] : IsInjective(h)
  BY <1>5, <1>6, Zenon
<1> HIDE DEF f
<1>9. f \in [1 .. n -> S] /\ IsInjective(f)
  BY <1>7, <1>8
<1>10. f \in Injection(1 .. n, S)
  BY <1>9 DEF Injection
<1>11. f \in Surjection(1 .. n, S)
  BY <1>2, <1>10, FS_Injection
<1>12. QED
  BY <1>1, <1>6, <1>9, <1>11 DEF f, Surjection

(* The ends of finitely many routes. *)
LEMMA EndsFinite ==
  ASSUME NEW r, IsFiniteSet(DOMAIN r)
  PROVE  IsFiniteSet(RouteEnds(r))
<1> DEFINE f == [k \in DOMAIN r |-> {r[k].u, r[k].v}]
           family == {{r[k].u, r[k].v} : k \in DOMAIN r}
<1>1. f \in Surjection(DOMAIN r, family)
  BY Zenon DEF Surjection
<1>2. IsFiniteSet(family)
  BY <1>1, FS_Surjection
<1>3. \A S \in family : IsFiniteSet(S)
  <2> SUFFICES ASSUME NEW k \in DOMAIN r
               PROVE  IsFiniteSet({r[k].u, r[k].v})
    OBVIOUS
  <2>1. PICK a, b : a = r[k].u /\ b = r[k].v
    OBVIOUS
  <2>2. {a, b} = {a} \cup {b}
    OBVIOUS
  <2>3. IsFiniteSet({a} \cup {b})
    BY FS_Singleton, FS_AddElement, Zenon
  <2>4. QED
    BY <2>1, <2>2, <2>3
<1>4. RouteEnds(r) = UNION family
  BY DEF RouteEnds
<1> HIDE DEF family
<1>5. QED
  BY <1>2, <1>3, <1>4, FS_UNION

(* The pieces of the routes of a net whose pins are connected: commitTree  *)
(* accepts them, and they lead from any pin to all pins.                   *)
LEMMA JoiningLinks ==
  ASSUME NEW r, IsFiniteSet(DOMAIN r), NEW points, points \subseteq Points, Joining(r, points),
         NEW root \in points
  PROVE  LET links == Links(r)
             ends == UNION links
         IN /\ IsFiniteSet(ends) /\ root \in ends /\ ends \subseteq Points
            /\ \A a, b : {a, b} \in links => Legal([u |-> a, v |-> b])
            /\ \A S : root \in S /\ (\A x \in S : \A q \in ends : {x, q} \in links => q \in S)
                 => points \subseteq S
<1> DEFINE links == Links(r)
           ends == UNION links
           On(k) == {p \in RouteEnds(r) : OnRoute(r[k], p)}
<1>1. links = UNION {Pieces(On(k)) : k \in DOMAIN r}
  BY DEF Links
<1>2. \A k \in DOMAIN r : Segment(r[k])
  BY DEF Joining
<1>3. RouteEnds(r) \subseteq Points
  <2>1. \A k \in DOMAIN r : r[k].u \in Points /\ r[k].v \in Points
    BY <1>2 DEF Segment
  <2>2. QED
    BY <2>1 DEF RouteEnds
<1>4. \A k \in DOMAIN r : On(k) \subseteq Points /\ On(k) \subseteq RouteEnds(r)
  BY <1>3
<1>5. ASSUME NEW piece \in links
      PROVE  \E k \in DOMAIN r : \E p \in On(k), q \in On(k) : piece = {p, q}
  <2>1. PICK k \in DOMAIN r : piece \in Pieces(On(k))
    BY <1>1
  <2> HIDE DEF On
  <2>2. QED
    BY <2>1, PieceEnds
<1>6. ends \subseteq RouteEnds(r)
  <2> HIDE DEF On, links
  <2>1. QED
    BY <1>4, <1>5
<1>7. IsFiniteSet(ends)
  <2> HIDE DEF ends
  <2>1. QED
    BY <1>6, EndsFinite, FS_Subset
<1>8. \A k \in DOMAIN r : \A p, q : {p, q} \in Pieces(On(k)) => p \in ends /\ q \in ends /\ {p, q} \in links
  <2> HIDE DEF On
  <2>1. QED
    BY <1>1
<1>9. root \in ends
  <2>1. PICK k \in DOMAIN r : root \in {r[k].u, r[k].v}
    BY DEF Joining, RouteEnds
  <2>2. r[k].u \in On(k) /\ r[k].v \in On(k) /\ r[k].u # r[k].v
    BY <1>2 DEF Segment, RouteEnds
  <2>3. PICK x \in On(k), y \in On(k) : x \in {root} /\ y \notin {root}
    <3> HIDE DEF On
    <3>1. QED
      BY <2>1, <2>2
  <2>4. On(k) \subseteq Points
    BY <1>4
  <2>5. \E p \in On(k), q \in On(k) : p \in {root} /\ q \notin {root} /\ {p, q} \in Pieces(On(k))
    <3> HIDE DEF On
    <3>1. QED
      BY <2>3, <2>4, PiecesConnect, Zenon
  <2>6. QED
    BY <1>8, <2>5, Zenon
<1>10. ASSUME NEW a, NEW b, {a, b} \in links
       PROVE  Legal([u |-> a, v |-> b])
  <2>1. PICK k \in DOMAIN r : \E p \in On(k), q \in On(k) : {a, b} = {p, q}
    BY <1>5, <1>10
  <2>2. a \in On(k) /\ b \in On(k)
    <3> HIDE DEF On
    <3>1. QED
      BY <2>1
  <2>3. a \in Points /\ b \in Points /\ OnRoute(r[k], a) /\ OnRoute(r[k], b)
    BY <1>4, <2>2
  <2> DEFINE s == [u |-> a, v |-> b]
  <2>4. s.u = a /\ s.v = b
    OBVIOUS
  <2> HIDE DEF s
  <2>5. CASE IsWire(r[k])
    <3>1. /\ a.l = r[k].u.l /\ b.l = r[k].u.l
          /\ Coord(a.c, 1 - layerDirections[a.l]) = Coord(b.c, 1 - layerDirections[a.l])
      BY <2>3, <2>5 DEF OnRoute
    <3>2. QED
      BY <2>3, <2>4, <3>1 DEF Legal, IsWire, IsVia, s
  <2>6. CASE ~IsWire(r[k])
    <3>1. a.c = b.c
      BY <2>3, <2>6 DEF OnRoute
    <3>2. QED
      BY <2>3, <2>4, <3>1 DEF Legal, IsWire, IsVia, s
  <2>7. QED
    BY <2>5, <2>6
<1>11. ASSUME NEW S, root \in S, \A x \in S : \A q \in ends : {x, q} \in links => q \in S
       PROVE  points \subseteq S
  <2>1. ASSUME NEW k \in DOMAIN r, NEW x \in RouteEnds(r), NEW y \in RouteEnds(r),
               OnRoute(r[k], x), OnRoute(r[k], y), x \in S
        PROVE  y \in S
    <3> SUFFICES ASSUME y \notin S
                 PROVE  FALSE
      OBVIOUS
    <3>1. x \in On(k) /\ y \in On(k) /\ On(k) \subseteq Points
      BY <1>4, <2>1
    <3>2. PICK p, q : p \in S /\ q \notin S /\ {p, q} \in Pieces(On(k))
      <4> HIDE DEF On
      <4>1. QED
        BY <2>1, <3>1, PiecesConnect, Zenon
    <3>3. q \in ends /\ {p, q} \in links
      BY <1>8, <3>2, Zenon
    <3> HIDE DEF ends, links
    <3>4. QED
      BY <1>11, <3>2, <3>3
  <2>2. RouteEnds(r) \subseteq S
    BY <1>11, <2>1 DEF Joining
  <2>3. QED
    BY <2>2 DEF Joining
<1>12. QED
  BY <1>3, <1>6, <1>7, <1>9, <1>10, <1>11, Zenon

(* The states of the walk, by their rounds.                                *)
Rounds(links, root, rounds, after) ==
  /\ Walk(links, root) = after[rounds].pairs
  /\ after[0] = [stack |-> <<root>>, mark |-> {root}, pairs |-> <<>>]
  /\ \A k \in 0 .. rounds - 1 : after[k + 1] = Walked(links, after[k])

(* A walk has states. *)
LEMMA WalkEquation ==
  ASSUME NEW links, NEW root, NEW rounds \in Nat, rounds = Cardinality(UNION links)
  PROVE  \E after : Rounds(links, root, rounds, after)
<1> DEFINE Swp(x) == Only({Walked(links, s) : s \in {x}})
           first == [stack |-> <<root>>, mark |-> {root}, pairs |-> <<>>]
           Eq(g, n) == g = [t \in 0 .. n |-> IF t = 0 THEN first ELSE Swp(g[t - 1])]
           F == {n \in Nat : \E g : Eq(g, n)}
<1>1. 0 \in F
  <2> HIDE DEF first, Swp
  <2> DEFINE g == [t \in 0 .. 0 |-> first]
  <2>1. Eq(g, 0)
    <3>1. \A t \in 0 .. 0 : t = 0
      OBVIOUS
    <3>2. QED
      BY <3>1
  <2>2. QED
    BY <2>1, Zenon
<1>2. ASSUME NEW n \in Nat, n \in F
      PROVE  n + 1 \in F
  <2> HIDE DEF first, Swp
  <2>1. PICK g : Eq(g, n)
    BY <1>2
  <2> DEFINE h == [t \in 0 .. n + 1 |-> IF t = n + 1 THEN Swp(g[n]) ELSE g[t]]
  <2>2. \A t \in 0 .. n + 1 : h[t] = IF t = 0 THEN first ELSE Swp(h[t - 1])
    <3> TAKE t \in 0 .. n + 1
    <3>1. CASE t = n + 1
      <4>1. n \in 0 .. n /\ t - 1 = n /\ n \in 0 .. n + 1 /\ n # n + 1 /\ t # 0
        BY <3>1
      <4>2. h[t] = Swp(g[n])
        BY <3>1
      <4>3. h[n] = g[n]
        BY <2>1, <4>1
      <4>4. QED
        BY <3>1, <4>1, <4>2, <4>3
    <3>2. CASE t # n + 1
      <4>1. t \in 0 .. n
        BY <3>2
      <4>2. h[t] = g[t]
        BY <3>2, <4>1
      <4>3. g[t] = IF t = 0 THEN first ELSE Swp(g[t - 1])
        BY <2>1, <4>1
      <4>4. t # 0 => h[t - 1] = g[t - 1]
        <5> SUFFICES ASSUME t # 0
                     PROVE  h[t - 1] = g[t - 1]
          OBVIOUS
        <5>1. t - 1 \in 0 .. n + 1 /\ t - 1 # n + 1
          BY <4>1
        <5>2. QED
          BY <5>1
      <4>5. QED
        BY <4>2, <4>3, <4>4
    <3>3. QED
      BY <3>1, <3>2
  <2>3. Eq(h, n + 1)
    <3>1. h = [t \in 0 .. n + 1 |-> h[t]]
      OBVIOUS
    <3> HIDE DEF h
    <3>2. QED
      BY <2>2, <3>1, Zenon
  <2> HIDE DEF h, Eq
  <2>4. QED
    BY <2>3
<1>3. rounds \in F
  <2> HIDE DEF F
  <2>1. QED
    BY <1>1, <1>2, GrowingNumbers
<1> DEFINE g == CHOOSE g : Eq(g, rounds)
<1>4. Eq(g, rounds)
  <2> HIDE DEF Swp, first
  <2>1. QED
    BY <1>3, Zenon
<1>5. Walk(links, root) = g[rounds].pairs
  BY DEF Walk
<1> HIDE DEF g
<1>6. g[0] = first
  <2>1. 0 \in 0 .. rounds
    OBVIOUS
  <2> HIDE DEF Swp, first
  <2>2. QED
    BY <1>4, <2>1
<1>7. ASSUME NEW k \in 0 .. rounds - 1
      PROVE  g[k + 1] = Walked(links, g[k])
  <2>1. k + 1 \in 0 .. rounds /\ k + 1 # 0 /\ (k + 1) - 1 = k
    OBVIOUS
  <2>2. g[k + 1] = Swp(g[k])
    <3> HIDE DEF Swp, first
    <3>1. QED
      BY <1>4, <2>1, Zenon
  <2>3. {Walked(links, s) : s \in {g[k]}} = {Walked(links, g[k])}
    OBVIOUS
  <2>4. QED
    BY <2>2, <2>3, OnlyOne, Zenon
<1>8. QED
  BY <1>5, <1>6, <1>7, Zenon DEF Rounds

(* The state of the walk: the pairs lead from the root to the marked       *)
(* points, and those that left the stack have had all their neighbours     *)
(* marked.                                                                 *)
Waiting(s) == {s.stack[j] : j \in 1 .. Len(s.stack)}
Reaches(links, root, s) ==
  /\ s.pairs \in Seq([u : UNION links, v : UNION links])
  /\ \A x \in s.mark : x = root \/ \E j \in 1 .. Len(s.pairs) : s.pairs[j].v = x
  /\ \A j \in 1 .. Len(s.pairs) :
       /\ {s.pairs[j].u, s.pairs[j].v} \in links
       /\ s.pairs[j].u = root \/ \E k \in 1 .. j - 1 : s.pairs[k].v = s.pairs[j].u
Stacks(links, root, s) ==
  /\ s.stack \in Seq(UNION links)
  /\ s.mark \subseteq UNION links /\ root \in s.mark
  /\ Waiting(s) \subseteq s.mark
  /\ \A j, k \in 1 .. Len(s.stack) : s.stack[j] = s.stack[k] => j = k
Closes(links, s) ==
  \A x \in s.mark \ Waiting(s) : \A q \in UNION links : {x, q} \in links => q \in s.mark
Walking(links, root, k, s) ==
  /\ Reaches(links, root, s) /\ Stacks(links, root, s) /\ Closes(links, s)
  /\ s.stack = <<>> \/ Cardinality(s.mark \ Waiting(s)) >= k

(* What a round finds. *)
Found(links, s) == {q \in (UNION links) \ s.mark : {Last(s.stack), q} \in links}

(* One round of the walk, in which f is found.                             *)
Round(links, s, t, F, f) ==
  LET n == Len(s.stack)
      m == Len(f)
  IN /\ n \in Nat \ {0} /\ Last(s.stack) = s.stack[n] /\ Last(s.stack) \in s.mark
     /\ Last(s.stack) \in UNION links
     /\ m \in Nat /\ f \in Seq(F) /\ f \in Seq(UNION links) /\ DOMAIN f = 1 .. m
     /\ \A j \in 1 .. m : f[j] \in F
     /\ \A j, k \in 1 .. m : f[j] = f[k] => j = k
     /\ \A x \in F : \E j \in 1 .. m : f[j] = x
     /\ t.stack \in Seq(UNION links) /\ Len(t.stack) = n - 1 + m
     /\ \A j \in 1 .. n - 1 : t.stack[j] = s.stack[j]
     /\ \A j \in 1 .. m : t.stack[n - 1 + j] = f[j]
     /\ t.mark = s.mark \cup F
     /\ t.pairs = s.pairs \o [j \in 1 .. m |-> [u |-> Last(s.stack), v |-> f[j]]]

(* So is every round of the walk. *)
LEMMA WalkedFacts ==
  ASSUME NEW links, IsFiniteSet(UNION links), NEW root, NEW s,
         Stacks(links, root, s), s.stack # <<>>
  PROVE  Round(links, s, Walked(links, s), Found(links, s), SetToSeq(Found(links, s)))
<1> DEFINE F == Found(links, s)
           f == SetToSeq(F)
           n == Len(s.stack)
           m == Len(f)
<1>1. s.stack \in Seq(UNION links) /\ s.stack # <<>>
  BY DEF Stacks
<1>2. n \in Nat \ {0} /\ Last(s.stack) = s.stack[n] /\ Last(s.stack) \in UNION links
  <2>1. n \in Nat /\ n # 0
    BY <1>1
  <2>2. n \in 1 .. n
    BY <2>1
  <2>3. s.stack[n] \in UNION links
    BY <1>1, <2>2
  <2>4. QED
    BY <2>1, <2>3 DEF Last
<1>3. Last(s.stack) \in s.mark
  <2>1. s.stack[n] \in Waiting(s)
    <3>1. n \in 1 .. Len(s.stack)
      BY <1>2
    <3>2. QED
      BY <3>1 DEF Waiting
  <2>2. QED
    BY <1>2, <2>1 DEF Stacks
<1>4. F \subseteq UNION links /\ IsFiniteSet(F)
  <2>1. F \subseteq UNION links
    BY DEF Found
  <2>2. QED
    BY <2>1, FS_Subset
<1>5. /\ m \in Nat /\ f \in Seq(F) /\ DOMAIN f = 1 .. m
      /\ \A j \in 1 .. m : f[j] \in F
      /\ \A j, k \in 1 .. m : f[j] = f[k] => j = k
      /\ \A x \in F : \E j \in 1 .. m : f[j] = x
  <2> HIDE DEF F
  <2>1. QED
    BY <1>4, SetAsSequence
<1>6. f \in Seq(UNION links)
  <2> HIDE DEF f, F
  <2>1. QED
    BY <1>4, <1>5
<1>7. ToSet(f) = F
  <2> HIDE DEF f, F
  <2>1. QED
    BY <1>5 DEF ToSet
<1> DEFINE t == Walked(links, s)
<1>8. t = [stack |-> Front(s.stack) \o f, mark |-> s.mark \cup ToSet(f),
           pairs |-> s.pairs \o [j \in DOMAIN f |-> [u |-> Last(s.stack), v |-> f[j]]]]
  BY <1>1 DEF Walked, Found
<1> HIDE DEF f, F, t
<1>9. /\ t.stack = Front(s.stack) \o f /\ t.mark = s.mark \cup F
      /\ t.pairs = s.pairs \o [j \in 1 .. m |-> [u |-> Last(s.stack), v |-> f[j]]]
  BY <1>5, <1>7, <1>8, Zenon
<1>10. /\ Front(s.stack) \in Seq(UNION links) /\ Len(Front(s.stack)) = n - 1
       /\ \A j \in 1 .. n - 1 : Front(s.stack)[j] = s.stack[j]
  BY <1>1, <1>2 DEF Front
<1> DEFINE front == Front(s.stack)
<1> HIDE DEF front, m, n
<1>11. /\ front \in Seq(UNION links) /\ f \in Seq(UNION links) /\ Len(front) = n - 1 /\ Len(f) = m
       /\ n \in Nat \ {0} /\ m \in Nat /\ t.stack = front \o f
  BY <1>2, <1>5, <1>6, <1>9, <1>10 DEF front, m
<1>12. /\ t.stack \in Seq(UNION links) /\ Len(t.stack) = n - 1 + m
       /\ \A j \in 1 .. n - 1 : t.stack[j] = front[j]
       /\ \A j \in 1 .. m : t.stack[n - 1 + j] = f[j]
  BY <1>11
<1>13. \A j \in 1 .. n - 1 : t.stack[j] = s.stack[j]
  BY <1>10, <1>12 DEF front
<1>14. QED
  BY <1>2, <1>3, <1>5, <1>6, <1>9, <1>12, <1>13, Zenon DEF t, f, F, m, n, Round

(* A round keeps what holds of the walk, and one more point has left the   *)
(* stack.                                                                  *)
LEMMA WalkedStep ==
  ASSUME NEW links, IsFiniteSet(UNION links), NEW root, NEW k \in Nat, NEW s,
         Walking(links, root, k, s), s.stack # <<>>
  PROVE  Walking(links, root, k + 1, Walked(links, s))
<1> DEFINE E == UNION links
           t == Walked(links, s)
           node == Last(s.stack)
           n == Len(s.stack)
           F == Found(links, s)
           f == SetToSeq(F)
           m == Len(f)
<1>0. Round(links, s, t, F, f)
  BY WalkedFacts DEF Walking
<1>1. Reaches(links, root, s) /\ Stacks(links, root, s) /\ Closes(links, s)
      /\ Cardinality(s.mark \ Waiting(s)) >= k
  BY DEF Walking
<1>2. /\ n \in Nat \ {0} /\ node = s.stack[n] /\ node \in s.mark /\ node \in E
      /\ m \in Nat /\ f \in Seq(F) /\ f \in Seq(E) /\ DOMAIN f = 1 .. m
      /\ \A j \in 1 .. m : f[j] \in F
      /\ \A i1, j \in 1 .. m : f[i1] = f[j] => i1 = j
      /\ \A x \in F : \E j \in 1 .. m : f[j] = x
      /\ t.stack \in Seq(E) /\ Len(t.stack) = n - 1 + m
      /\ \A j \in 1 .. n - 1 : t.stack[j] = s.stack[j]
      /\ \A j \in 1 .. m : t.stack[n - 1 + j] = f[j]
      /\ t.mark = s.mark \cup F
      /\ t.pairs = s.pairs \o [j \in 1 .. m |-> [u |-> node, v |-> f[j]]]
  <2> HIDE DEF t, F, f
  <2>1. QED
    BY <1>0, Zenon DEF Round
<1>3. \A x : x \in F <=> (x \in E /\ x \notin s.mark /\ {node, x} \in links)
  <2>1. F = {q \in E \ s.mark : {node, q} \in links}
    BY DEF Found
  <2> HIDE DEF F, E, node
  <2>2. QED
    BY <2>1
<1>4. /\ s.stack \in Seq(E) /\ s.mark \subseteq E /\ root \in s.mark
      /\ \A j \in 1 .. n : s.stack[j] \in s.mark
      /\ \A i1, j \in 1 .. n : s.stack[i1] = s.stack[j] => i1 = j
  BY <1>1 DEF Stacks, Waiting
<1> HIDE DEF t, node, n, F, f, m, E
<1>5. \A j \in 1 .. n - 1 + m : \/ j \in 1 .. n - 1 /\ t.stack[j] = s.stack[j]
                                \/ \E i1 \in 1 .. m : j = n - 1 + i1 /\ t.stack[j] = f[i1]
  <2> SUFFICES ASSUME NEW j \in 1 .. n - 1 + m, j \notin 1 .. n - 1
               PROVE  \E i1 \in 1 .. m : j = n - 1 + i1 /\ t.stack[j] = f[i1]
    BY <1>2
  <2>1. j - (n - 1) \in 1 .. m /\ j = n - 1 + (j - (n - 1))
    BY <1>2
  <2>2. QED
    BY <1>2, <2>1
<1>6. Waiting(t) = (Waiting(s) \ {node}) \cup F
  <2>1. Waiting(t) = {t.stack[j] : j \in 1 .. n - 1 + m} /\ Waiting(s) = {s.stack[j] : j \in 1 .. n}
    BY <1>2 DEF Waiting, n
  <2>2. ASSUME NEW x \in Waiting(t)
        PROVE  x \in (Waiting(s) \ {node}) \cup F
    <3>1. PICK j \in 1 .. n - 1 + m : x = t.stack[j]
      BY <2>1
    <3>2. CASE j \in 1 .. n - 1 /\ t.stack[j] = s.stack[j]
      <4>1. j \in 1 .. n /\ n \in 1 .. n /\ j # n
        BY <1>2, <3>2
      <4>2. s.stack[j] # s.stack[n]
        BY <1>4, <4>1
      <4>3. QED
        BY <1>2, <2>1, <3>1, <3>2, <4>1, <4>2
    <3>3. CASE \E i1 \in 1 .. m : t.stack[j] = f[i1]
      BY <1>2, <3>1, <3>3
    <3>4. QED
      BY <1>5, <3>2, <3>3
  <2>3. ASSUME NEW x \in Waiting(s), x # node
        PROVE  x \in Waiting(t)
    <3>1. PICK j \in 1 .. n : x = s.stack[j]
      BY <2>1
    <3>2. j \in 1 .. n - 1 /\ j \in 1 .. n - 1 + m
      BY <1>2, <2>3, <3>1
    <3>3. QED
      BY <1>2, <2>1, <3>1, <3>2, Zenon
  <2>4. ASSUME NEW x \in F
        PROVE  x \in Waiting(t)
    <3>1. PICK j \in 1 .. m : f[j] = x
      BY <1>2
    <3>2. PICK i1 \in 1 .. n - 1 + m : i1 = n - 1 + j
      <4>1. n \in Nat \ {0} /\ m \in Nat /\ j \in 1 .. m
        BY <1>2
      <4>2. n - 1 + j \in 1 .. n - 1 + m
        BY <4>1
      <4>3. QED
        BY <4>2
    <3>3. t.stack[n - 1 + j] = f[j]
      BY <1>2, <3>1
    <3>4. t.stack[i1] = x
      BY <3>1, <3>2, <3>3
    <3>5. QED
      BY <2>1, <3>4
  <2>5. QED
    BY <2>2, <2>3, <2>4
<1>7. Waiting(s) \subseteq s.mark /\ node \in Waiting(s)
  <2>1. Waiting(s) \subseteq s.mark
    BY <1>1 DEF Stacks
  <2>2. n \in 1 .. n
    BY <1>2
  <2>3. QED
    BY <1>2, <2>1, <2>2 DEF Waiting, n
<1>8. t.mark \ Waiting(t) = (s.mark \ Waiting(s)) \cup {node}
  <2>1. node \in s.mark /\ node \notin F /\ F \cap s.mark = {} /\ t.mark = s.mark \cup F
    BY <1>2, <1>3, Zenon
  <2>2. QED
    BY <1>6, <1>7, <2>1
<1>9. Stacks(links, root, t)
  <2>1. t.mark \subseteq E /\ root \in t.mark /\ Waiting(t) \subseteq t.mark
    BY <1>2, <1>3, <1>4, <1>6, <1>7
  <2>2. ASSUME NEW i1 \in 1 .. n - 1 + m, NEW j \in 1 .. n - 1 + m, t.stack[i1] = t.stack[j]
        PROVE  i1 = j
    <3>1. \A i2 \in 1 .. n - 1 : i2 \in 1 .. n /\ s.stack[i2] \in s.mark
      BY <1>2, <1>4
    <3>2. \A i2 \in 1 .. m : f[i2] \notin s.mark
      BY <1>2, <1>3, Zenon
    <3>3. CASE i1 \in 1 .. n - 1 /\ j \in 1 .. n - 1
      BY <1>2, <1>4, <2>2, <3>1, <3>3
    <3>4. CASE i1 \notin 1 .. n - 1 /\ j \notin 1 .. n - 1
      <4>1. PICK i2 \in 1 .. m : i1 = n - 1 + i2 /\ t.stack[i1] = f[i2]
        BY <1>5, <3>4
      <4>2. PICK j2 \in 1 .. m : j = n - 1 + j2 /\ t.stack[j] = f[j2]
        BY <1>5, <3>4
      <4>3. i2 = j2
        BY <1>2, <2>2, <4>1, <4>2
      <4>4. QED
        BY <4>1, <4>2, <4>3
    <3>8. \A i2 \in 1 .. n - 1 + m : t.stack[i2] \in s.mark <=> i2 \in 1 .. n - 1
      <4> TAKE i2 \in 1 .. n - 1 + m
      <4>1. CASE i2 \in 1 .. n - 1
        BY <1>2, <3>1, <4>1
      <4>2. CASE i2 \notin 1 .. n - 1
        BY <1>5, <3>2, <4>2
      <4>3. QED
        BY <4>1, <4>2
    <3>5. i1 \in 1 .. n - 1 <=> j \in 1 .. n - 1
      BY <2>2, <3>8
    <3>7. QED
      BY <3>3, <3>4, <3>5
  <2>3. QED
    BY <1>2, <2>1, <2>2 DEF Stacks, E
<1>10. Closes(links, t)
  <2> SUFFICES ASSUME NEW x \in t.mark \ Waiting(t), NEW q \in E, {x, q} \in links
               PROVE  q \in t.mark
    BY DEF Closes, E
  <2>1. CASE x = node
    BY <1>2, <1>3, <2>1
  <2>2. CASE x \in s.mark \ Waiting(s)
    BY <1>1, <1>2, <2>2, Zenon DEF Closes, E
  <2>3. QED
    BY <1>8, <2>1, <2>2
<1>11. Cardinality(t.mark \ Waiting(t)) >= k + 1
  <2>1. IsFiniteSet(s.mark \ Waiting(s))
    BY <1>4, FS_Subset DEF E
  <2>2. node \notin s.mark \ Waiting(s)
    BY <1>7
  <2> DEFINE D == s.mark \ Waiting(s)
  <2> HIDE DEF D
  <2>3. IsFiniteSet(D) /\ node \notin D /\ Cardinality(D) >= k /\ t.mark \ Waiting(t) = D \cup {node}
    BY <1>1, <1>8, <2>1, <2>2 DEF D
  <2>4. Cardinality(D \cup {node}) = Cardinality(D) + 1 /\ Cardinality(D) \in Nat
    BY <2>3, FS_AddElement, FS_CardinalityType
  <2>5. Cardinality(t.mark \ Waiting(t)) = Cardinality(D) + 1
    BY <2>3, <2>4, Zenon
  <2>6. QED
    BY <2>3, <2>4, <2>5
<1>12. Reaches(links, root, t)
  <2> DEFINE p == s.pairs
             b == Len(p)
             new == [j \in 1 .. m |-> [u |-> node, v |-> f[j]]]
             w == t.pairs
  <2>1. /\ p \in Seq([u : E, v : E])
        /\ \A x \in s.mark : x = root \/ \E j \in 1 .. b : p[j].v = x
        /\ \A j \in 1 .. b :
             /\ {p[j].u, p[j].v} \in links
             /\ p[j].u = root \/ \E i1 \in 1 .. j - 1 : p[i1].v = p[j].u
    BY <1>1 DEF Reaches, E
  <2>2. new \in Seq([u : E, v : E]) /\ Len(new) = m
    <3>1. \A j \in 1 .. m : f[j] \in E
      BY <1>2, <1>3
    <3>2. new \in [1 .. m -> [u : E, v : E]]
      BY <1>2, <3>1
    <3>3. QED
      BY <1>2, <3>2, FunctionSequence
  <2>3. \A j \in 1 .. m : new[j].u = node /\ new[j].v = f[j]
    OBVIOUS
  <2>4. w = p \o new
    BY <1>2
  <2> HIDE DEF p, new, w
  <2>5. b \in Nat
    BY <2>1
  <2>6. /\ w \in Seq([u : E, v : E]) /\ Len(w) = b + m
        /\ \A j \in 1 .. b : w[j] = p[j]
        /\ \A j \in 1 .. m : w[b + j] = new[j]
    <3> DEFINE T == [u : E, v : E]
    <3>1. p \in Seq(T) /\ new \in Seq(T) /\ Len(new) = m /\ Len(p) = b /\ w = p \o new
      BY <2>1, <2>2, <2>4
    <3>2. m \in Nat
      BY <1>2
    <3> HIDE DEF T
    <3>3. w \in Seq(T) /\ Len(w) = b + m
      <4> HIDE DEF b
      <4>1. w \in Seq(T)
        BY <3>1
      <4>2. Len(w) = Len(p) + Len(new)
        <5>1. p \in Seq(T) /\ new \in Seq(T)
          BY <3>1
        <5>2. Len(p \o new) = Len(p) + Len(new)
          BY <5>1
        <5>3. w = p \o new
          BY <3>1
        <5>4. QED
          BY <5>2, <5>3
      <4>3. QED
        BY <3>1, <4>1, <4>2
    <3>4. \A j \in 1 .. b : w[j] = p[j]
      BY <3>1
    <3>5. \A j \in 1 .. m : w[b + j] = new[j]
      BY <3>1, <3>2
    <3>6. QED
      BY <3>3, <3>4, <3>5 DEF T
  <2> HIDE DEF b
  <2>7. \A j \in 1 .. b : j \in 1 .. b + m
    BY <1>2, <2>5
  <2>8. \A j \in 1 .. m : b + j \in 1 .. b + m /\ w[b + j].u = node /\ w[b + j].v = f[j]
    <3>1. m \in Nat
      BY <1>2
    <3>2. \A j \in 1 .. m : b + j \in 1 .. b + m
      BY <2>5, <3>1
    <3>3. \A j \in 1 .. m : w[b + j] = new[j]
      BY <2>6
    <3>4. QED
      BY <2>3, <3>2, <3>3
  <2>9. ASSUME NEW x \in t.mark
        PROVE  x = root \/ \E j \in 1 .. b + m : w[j].v = x
    <3>1. CASE x \in s.mark
      BY <2>1, <2>6, <2>7, <3>1
    <3>2. CASE x \in F
      <4>1. PICK j \in 1 .. m : f[j] = x
        BY <1>2, <3>2
      <4>2. PICK i1 \in 1 .. b + m : i1 = b + j /\ w[b + j].v = x
        BY <2>8, <4>1
      <4>3. QED
        BY <4>2
    <3>3. QED
      BY <1>2, <3>1, <3>2
  <2>10. ASSUME NEW j \in 1 .. b + m
         PROVE  /\ {w[j].u, w[j].v} \in links
                /\ w[j].u = root \/ \E i1 \in 1 .. j - 1 : w[i1].v = w[j].u
    <3>1. CASE j \in 1 .. b
      <4>1. w[j] = p[j] /\ \A i1 \in 1 .. j - 1 : i1 \in 1 .. b
        BY <2>5, <2>6, <3>1
      <4>2. \A i1 \in 1 .. j - 1 : w[i1] = p[i1]
        BY <2>6, <4>1
      <4>3. QED
        BY <2>1, <3>1, <4>1, <4>2, Zenon
    <3>2. CASE j \notin 1 .. b
      <4>1. j - b \in 1 .. m /\ b + (j - b) = j
        BY <1>2, <2>5, <3>2
      <4>2. w[j].u = node /\ w[j].v = f[j - b]
        BY <2>8, <4>1
      <4>3. {node, f[j - b]} \in links
        BY <1>2, <1>3, <4>1, Zenon
      <4>4. node = root \/ \E i1 \in 1 .. b : p[i1].v = node
        BY <1>2, <2>1, Zenon
      <4>5. \A i1 \in 1 .. b : i1 \in 1 .. j - 1 /\ w[i1] = p[i1]
        BY <1>2, <2>5, <2>6, <3>2
      <4>6. QED
        BY <4>2, <4>3, <4>4, <4>5
    <3>3. QED
      BY <3>1, <3>2
  <2>11. t.pairs \in Seq([u : E, v : E]) /\ Len(t.pairs) = b + m
    BY <2>6 DEF w
  <2>12. QED
    BY <2>9, <2>10, <2>11 DEF Reaches, E, w
<1>13. Walking(links, root, k + 1, t)
  BY <1>9, <1>10, <1>11, <1>12 DEF Walking
<1>14. QED
  BY <1>13 DEF t

(* The pairs of the walk lead from the root to points that are closed      *)
(* under the links.                                                        *)
LEMMA WalkReaches ==
  ASSUME NEW links, IsFiniteSet(UNION links), NEW root \in UNION links
  PROVE  \E s : /\ s.pairs = Walk(links, root) /\ Reaches(links, root, s) /\ root \in s.mark
                /\ \A x \in s.mark : \A q \in UNION links : {x, q} \in links => q \in s.mark
<1> DEFINE E == UNION links
           rounds == Cardinality(E)
<1>1. rounds \in Nat /\ rounds = Cardinality(UNION links)
  BY FS_CardinalityType
<1> HIDE DEF rounds
<1>2. PICK after : Rounds(links, root, rounds, after)
  BY <1>1, WalkEquation, Zenon
<1> DEFINE K == {k \in Nat : k <= rounds => Walking(links, root, k, after[k])}
<1>3. 0 \in K
  <2> DEFINE s == after[0]
  <2>1. s.stack = <<root>> /\ s.mark = {root} /\ s.pairs = <<>>
    <3>1. s = [stack |-> <<root>>, mark |-> {root}, pairs |-> <<>>]
      BY <1>2 DEF Rounds
    <3>2. QED
      BY <3>1
  <2> HIDE DEF s
  <2>2. Len(s.stack) = 1 /\ s.stack[1] = root /\ s.stack \in Seq(E) /\ 1 .. 1 = {1}
    BY <2>1
  <2>3. Waiting(s) = {root}
    BY <2>2 DEF Waiting
  <2>4. Stacks(links, root, s)
    BY <2>1, <2>2, <2>3 DEF Stacks
  <2>5. Len(s.pairs) = 0 /\ 1 .. 0 = {} /\ s.pairs \in Seq([u : E, v : E])
    BY <2>1
  <2>6. Reaches(links, root, s)
    BY <2>1, <2>5 DEF Reaches
  <2>7. Closes(links, s)
    BY <2>1, <2>3 DEF Closes
  <2>8. s.mark \ Waiting(s) = {} /\ Cardinality({}) = 0
    BY <2>1, <2>3, FS_EmptySet
  <2>9. Walking(links, root, 0, s)
    <3>1. Cardinality(s.mark \ Waiting(s)) = 0
      BY <2>8
    <3>2. Cardinality(s.mark \ Waiting(s)) >= 0
      BY <3>1
    <3>3. QED
      BY <2>4, <2>6, <2>7, <3>2 DEF Walking
  <2>10. QED
    BY <2>9 DEF s
<1>4. ASSUME NEW k \in Nat, k \in K
      PROVE  k + 1 \in K
  <2> SUFFICES ASSUME k + 1 <= rounds
               PROVE  Walking(links, root, k + 1, after[k + 1])
    OBVIOUS
  <2>1. after[k + 1] = Walked(links, after[k]) /\ Walking(links, root, k, after[k])
    <3>1. k \in 0 .. rounds - 1 /\ k <= rounds
      BY <1>1
    <3>2. QED
      BY <1>2, <1>4, <3>1 DEF Rounds
  <2>2. CASE after[k].stack = <<>>
    <3>1. after[k + 1] = after[k]
      BY <2>1, <2>2 DEF Walked
    <3>2. QED
      BY <2>1, <2>2, <3>1 DEF Walking
  <2>3. CASE after[k].stack # <<>>
    BY <2>1, <2>3, WalkedStep
  <2>4. QED
    BY <2>2, <2>3
<1>5. rounds \in K
  <2> HIDE DEF K
  <2>1. QED
    BY <1>1, <1>3, <1>4, GrowingNumbers
<1> DEFINE s == after[rounds]
<1>6. Walking(links, root, rounds, s)
  BY <1>1, <1>5
<1>7. s.pairs = Walk(links, root)
  BY <1>2 DEF Rounds
<1> HIDE DEF s
<1>8. Reaches(links, root, s) /\ Stacks(links, root, s) /\ Closes(links, s)
  BY <1>6 DEF Walking
<1>9. s.stack = <<>>
  <2> SUFFICES ASSUME s.stack # <<>>
               PROVE  FALSE
    OBVIOUS
  <2> DEFINE D == s.mark \ Waiting(s)
  <2>1. Cardinality(D) >= rounds
    BY <1>6 DEF Walking
  <2>2. s.stack \in Seq(E) /\ Waiting(s) \subseteq E /\ D \subseteq E
    BY <1>8 DEF Stacks
  <2>3. PICK x : x \in Waiting(s)
    <3>1. Len(s.stack) \in Nat /\ Len(s.stack) # 0
      BY <2>2
    <3>2. 1 \in 1 .. Len(s.stack)
      BY <3>1
    <3>3. QED
      BY <3>2, Zenon DEF Waiting
  <2>4. x \in E /\ x \notin D
    BY <2>2, <2>3
  <2> HIDE DEF D, E
  <2>5. IsFiniteSet(E)
    BY DEF E
  <2>6. Cardinality(D) < Cardinality(E)
    <3>1. D \subseteq E /\ D # E
      BY <2>2, <2>4
    <3>2. QED
      BY <2>5, <3>1, FS_Subset, FS_CardinalityType
  <2>7. IsFiniteSet(D)
    BY <2>2, <2>5, FS_Subset
  <2>8. Cardinality(D) \in Nat
    BY <2>7, FS_CardinalityType
  <2>9. QED
    BY <1>1, <2>1, <2>6, <2>8 DEF E
<1>10. Waiting(s) = {}
  <2>1. Len(s.stack) = 0 /\ 1 .. 0 = {}
    BY <1>9
  <2>2. QED
    BY <2>1 DEF Waiting
<1>11. root \in s.mark /\ \A x \in s.mark : \A q \in UNION links : {x, q} \in links => q \in s.mark
  BY <1>8, <1>10, Zenon DEF Stacks, Closes
<1>12. QED
  BY <1>7, <1>8, <1>11

-----------------------------------------------------------------------------
(* The trees of the host.                                                  *)

(* A tree that joins some pins, as commitTree wants it.                    *)
JoinsPins(t, points) ==
  LET nodes == {t.root} \cup {t.pairs[k].v : k \in DOMAIN t.pairs}
  IN /\ \A k \in DOMAIN t.pairs :
          /\ Legal(t.pairs[k])
          /\ t.pairs[k].u = t.root \/ \E j \in 1 .. k - 1 : t.pairs[j].v = t.pairs[k].u
     /\ t.pairs # <<>> => ~ \A k \in DOMAIN t.pairs : t.pairs[k].u = t.pairs[k].v
     /\ points \subseteq nodes

(* No piece of a route stays in its point. *)
LEMMA LinkEnds ==
  ASSUME NEW r, NEW a \in Points, NEW b \in Points, {a, b} \in Links(r)
  PROVE  a # b
<1>1. PICK k \in DOMAIN r : {a, b} \in Pieces({p \in RouteEnds(r) : OnRoute(r[k], p)})
  BY Zenon DEF Links
<1>2. PICK p, q : {a, b} = {p, q} /\ Index(p) < Index(q)
  BY <1>1, PieceEnds
<1>3. p \in {a, b} /\ q \in {a, b} /\ Index(p) \in Nat
  BY <1>2, IndexOrder
<1>4. QED
  BY <1>2, <1>3

(* A root and pairs of points. *)
TreeShape(t) == t.root \in Points /\ t.pairs \in Seq([u : Points, v : Points])

(* The tree of routes that end in all pins joins these. *)
THEOREM ExtractedJoins ==
  ASSUME NEW r, IsFiniteSet(DOMAIN r), NEW points, points \subseteq Points, NEW root \in points,
         IF Cardinality(points) = 1 THEN r = <<>> ELSE Joining(r, points), IsFiniteSet(points)
  PROVE  LET t == extractGRTree(r, root)
         IN JoinsPins(t, points) /\ TreeShape(t)
<1> DEFINE t == extractGRTree(r, root)
<1>1. t.root = root /\ t.pairs = IF r = <<>> THEN <<>> ELSE Walk(Links(r), root)
  BY DEF extractGRTree
<1> HIDE DEF t
<1>2. CASE Cardinality(points) = 1
  <2>1. t.pairs = <<>> /\ DOMAIN t.pairs = {}
    BY <1>1, <1>2
  <2>2. points = {root}
    <3>1. PICK x : points = {x}
      BY <1>2, FS_Singleton, Zenon
    <3>2. QED
      BY <3>1
  <2>3. JoinsPins(t, points)
    BY <1>1, <2>1, <2>2 DEF JoinsPins
  <2>4. QED
    <3>1. \A T : <<>> \in Seq(T)
      OBVIOUS
    <3>2. root \in Points
      OBVIOUS
    <3>3. t.root \in Points /\ t.pairs \in Seq([u : Points, v : Points])
      BY <1>1, <2>1, <3>1, <3>2, Zenon
    <3>4. QED
      BY <2>3, <3>3 DEF TreeShape, t
<1>3. CASE Cardinality(points) # 1
  <2>1. Joining(r, points)
    BY <1>3
  <2> DEFINE links == Links(r)
             ends == UNION links
  <2>2. /\ IsFiniteSet(ends) /\ root \in ends /\ ends \subseteq Points
        /\ \A a, b : {a, b} \in links => Legal([u |-> a, v |-> b])
        /\ \A S : root \in S /\ (\A x \in S : \A q \in ends : {x, q} \in links => q \in S)
             => points \subseteq S
    BY <2>1, JoiningLinks, Zenon
  <2>3. r # <<>>
    <3> SUFFICES ASSUME r = <<>>
                 PROVE  FALSE
      OBVIOUS
    <3>1. RouteEnds(r) = {}
      BY DEF RouteEnds
    <3>2. QED
      BY <2>1, <3>1 DEF Joining
  <2> HIDE DEF links
  <2>4. PICK s : /\ s.pairs = Walk(links, root) /\ Reaches(links, root, s) /\ root \in s.mark
                 /\ \A x \in s.mark : \A q \in UNION links : {x, q} \in links => q \in s.mark
    BY <2>2, WalkReaches, Zenon
  <2>5. t.pairs = s.pairs
    BY <1>1, <2>3, <2>4 DEF links
  <2> DEFINE p == t.pairs
             n == Len(p)
  <2>6. /\ p \in Seq([u : ends, v : ends])
        /\ \A x \in s.mark : x = root \/ \E j \in 1 .. n : p[j].v = x
        /\ \A j \in 1 .. n :
             /\ {p[j].u, p[j].v} \in links
             /\ p[j].u = root \/ \E k \in 1 .. j - 1 : p[k].v = p[j].u
    BY <2>4, <2>5 DEF Reaches
  <2>7. n \in Nat /\ DOMAIN p = 1 .. n
    BY <2>6
  <2>8. points \subseteq s.mark
    BY <2>2, <2>4, Zenon
  <2>9. \A j \in 1 .. n : p[j] = [u |-> p[j].u, v |-> p[j].v]
    <3> TAKE j \in 1 .. n
    <3>1. p[j] \in [u : ends, v : ends]
      <4> DEFINE T == [u : ends, v : ends]
      <4>1. p \in Seq(T)
        BY <2>6
      <4> HIDE DEF T, p
      <4>2. p[j] \in T
        BY <2>7, <4>1
      <4>3. QED
        BY <4>2 DEF T
    <3>2. QED
      BY <3>1
  <2>10. \A j \in 1 .. n : Legal(p[j])
    <3> TAKE j \in 1 .. n
    <3>1. Legal([u |-> p[j].u, v |-> p[j].v])
      BY <2>2, <2>6, Zenon
    <3>2. QED
      BY <2>9, <3>1
  <2>11. p # <<>> => p[1].u # p[1].v /\ 1 \in DOMAIN p
    <3> SUFFICES ASSUME p # <<>>
                 PROVE  p[1].u # p[1].v /\ 1 \in DOMAIN p
      OBVIOUS
    <3>1. 1 \in 1 .. n
      <4>1. n # 0
        BY <2>6
      <4>2. QED
        BY <2>7, <4>1
    <3>2. p[1].u \in Points /\ p[1].v \in Points
      BY <2>10, <3>1 DEF Legal
    <3>3. {p[1].u, p[1].v} \in Links(r)
      BY <2>6, <3>1 DEF links
    <3>4. QED
      BY <2>7, <3>1, <3>2, <3>3, LinkEnds
  <2>12. JoinsPins(t, points)
    BY <1>1, <2>6, <2>7, <2>8, <2>10, <2>11, ZenonT(30) DEF JoinsPins
  <2>13. p \in Seq([u : Points, v : Points])
    <3>1. \A j \in 1 .. n : p[j] \in [u : Points, v : Points]
      <4> TAKE j \in 1 .. n
      <4>1. p[j].u \in Points /\ p[j].v \in Points
        BY <2>10 DEF Legal
      <4>2. [u |-> p[j].u, v |-> p[j].v] \in [u : Points, v : Points]
        BY <4>1
      <4>3. p[j] = [u |-> p[j].u, v |-> p[j].v]
        BY <2>9
      <4>4. QED
        BY <4>2, <4>3
    <3>2. p = [j \in 1 .. n |-> p[j]]
      BY <2>6, <2>7
    <3>3. p \in [1 .. n -> [u : Points, v : Points]]
      BY <3>1, <3>2
    <3>4. QED
      BY <2>7, <3>3, FunctionSequence, Zenon
  <2>14. QED
    BY <1>1, <2>12, <2>13 DEF TreeShape, t
<1>4. QED
  BY <1>2, <1>3

(* What commitTree and ripUpTree do to one edge. *)
LEMMA TreeUpdate ==
  ASSUME NEW d, NEW pairs, IsFiniteSet(DOMAIN pairs), NEW e \in Edges, d[e] \in Int
  PROVE  /\ Commit(d, pairs)[e] = d[e] + Usage(pairs, e)
         /\ RipUpTree(d, pairs)[e] = d[e] - Usage(pairs, e)
         /\ Usage(pairs, e) \in Nat
<1>1. Usage(pairs, e) \in Nat
  BY UsageNumber
<1>2. CASE e \in TreeEdges(pairs)
  BY <1>1, <1>2 DEF Commit, RipUpTree
<1>3. CASE e \notin TreeEdges(pairs)
  <2> DEFINE f == [k \in DOMAIN pairs |->
                     IF e \in SegmentEdges(pairs[k]) THEN SegmentDemand(pairs[k], e) ELSE 0]
  <2>1. \A k \in DOMAIN pairs : e \notin SegmentEdges(pairs[k])
    BY <1>3 DEF TreeEdges
  <2>2. DOMAIN f = DOMAIN pairs /\ \A k \in DOMAIN f : f[k] = 0
    BY <2>1
  <2>3. SumFunction(f) = 0
    <3> HIDE DEF f
    <3>1. QED
      BY <2>2, SumOfZeros
  <2>4. Usage(pairs, e) = 0
    BY <2>3 DEF Usage
  <2>5. Commit(d, pairs)[e] = d[e] /\ RipUpTree(d, pairs)[e] = d[e]
    BY <1>3 DEF Commit, RipUpTree
  <2>6. QED
    BY <2>4, <2>5
<1>4. QED
  BY <1>2, <1>3

(* The trees of the host, with its demands.                                *)
HostInv ==
  /\ tree = [n \in Nets |-> tree[n]]
  /\ demand = [e \in Edges |-> demand[e]]
  /\ \A n \in Nets : TreeShape(tree[n]) /\ JoinsPins(tree[n], Accesses(n))
  /\ \A e \in Edges : demand[e] = SumFunction([n \in Nets |-> Usage(tree[n].pairs, e)])

(* The property says the same. *)
LEMMA HostImplies == HostInv => HostTreesJoinPins
BY Zenon DEF HostInv, HostTreesJoinPins, Joins, JoinsPins, Accesses

(* A tree has finitely many pairs. *)
LEMMA PairsFinite ==
  ASSUME NEW t, TreeShape(t)
  PROVE  IsFiniteSet(DOMAIN t.pairs)
<1> DEFINE n == Len(t.pairs)
<1>1. n \in Nat /\ DOMAIN t.pairs = 1 .. n
  BY DEF TreeShape
<1>2. QED
  BY <1>1, FS_Interval

(* The first trees are supposed to join the pins. *)
LEMMA HostInit == Init => HostInv
<1> SUFFICES ASSUME Init
             PROVE  HostInv
  OBVIOUS
<1>1. problem \in Problems /\ tree = [n \in Nets |-> problem.nets[n].tree]
  BY Zenon DEF Init
<1>2. \A n \in Nets : TreeShape(tree[n])
  BY <1>1, NetsFinite, Zenon DEF TreeShape
<1>3. \A n \in Nets : Joins(n, tree[n])
  BY Zenon DEF Init
<1>4. \A n \in Nets : JoinsPins(tree[n], Accesses(n))
  BY <1>3 DEF Joins, JoinsPins, Accesses
<1>5. tree = [n \in Nets |-> tree[n]]
  BY <1>1
<1>6. demand = [e \in Edges |-> SumFunction([n \in Nets |-> Usage(tree[n].pairs, e)])]
  BY Zenon DEF Init
<1>7. /\ demand = [e \in Edges |-> demand[e]]
      /\ \A e \in Edges : demand[e] = SumFunction([n \in Nets |-> Usage(tree[n].pairs, e)])
  BY <1>6
<1>8. QED
  BY <1>2, <1>4, <1>5, <1>7 DEF HostInv

(* The demand of an edge is what the trees use. *)
Summed(d, nets, trees, e) == d[e] = SumFunction([k \in nets |-> Usage(trees[k].pairs, e)])

(* Replacing a tree keeps the demands the sum of what the trees take. *)
LEMMA DemandReplaced ==
  ASSUME NEW nets, IsFiniteSet(nets), NEW trees, NEW news, NEW n \in nets, NEW e \in Edges, NEW d,
         \A k \in nets : IsFiniteSet(DOMAIN trees[k].pairs),
         \A k \in nets \ {n} : news[k] = trees[k],
         IsFiniteSet(DOMAIN news[n].pairs),
         Summed(d, nets, trees, e)
  PROVE  Summed(Commit(RipUpTree(d, trees[n].pairs), news[n].pairs), nets, news, e)
<1> DEFINE f == [k \in nets |-> Usage(trees[k].pairs, e)]
           g == [k \in nets |-> Usage(news[k].pairs, e)]
           a == Usage(trees[n].pairs, e)
           b == Usage(news[n].pairs, e)
<1>1. \A k \in nets : Usage(trees[k].pairs, e) \in Nat
  BY UsageNumber
<1>2. b \in Nat
  BY UsageNumber
<1>3. \A k \in nets \ {n} : Usage(news[k].pairs, e) = Usage(trees[k].pairs, e)
  OBVIOUS
<1>4. f \in [nets -> Nat]
  BY <1>1
<1>5. \A k \in nets : g[k] \in Nat
  <2>1. TAKE k \in nets
  <2>2. CASE k = n
    BY <1>2, <2>2
  <2>3. CASE k # n
    BY <1>1, <1>3, <2>3
  <2>4. QED
    BY <2>2, <2>3
<1>6. a \in Nat
  BY <1>1
<1>7. /\ SumFunction(g) = SumFunction(f) - a + b
      /\ SumFunction(f) \in Nat
  <2>1. g \in [nets -> Nat]
    BY <1>5
  <2>2. f[n] = a /\ g[n] = b /\ \A y \in nets \ {n} : g[y] = f[y]
    BY <1>3
  <2> HIDE DEF f, g, a, b
  <2>3. SumFunction(g) = SumFunction(f) - f[n] + g[n]
    BY <1>4, <2>1, <2>2, SumUpdate
  <2>4. DOMAIN f = nets /\ \A k \in nets : f[k] \in Nat
    BY <1>4
  <2>5. SumFunction(f) \in Nat
    BY <2>4, SumType
  <2>6. QED
    BY <2>2, <2>3, <2>5
<1>8. d[e] = SumFunction(f)
  BY DEF Summed
<1>9. d[e] \in Int
  <2> HIDE DEF f, a
  <2>1. QED
    BY <1>6, <1>7, <1>8
<1>10. RipUpTree(d, trees[n].pairs)[e] = d[e] - a
  BY <1>9, TreeUpdate
<1> DEFINE c == RipUpTree(d, trees[n].pairs)
<1>11. c[e] \in Int /\ c[e] = d[e] - a
  <2> HIDE DEF a
  <2>1. QED
    BY <1>6, <1>9, <1>10
<1> HIDE DEF c
<1>12. Commit(c, news[n].pairs)[e] = c[e] + b
  BY <1>11, TreeUpdate
<1> HIDE DEF f, g, a, b
<1>13. Commit(c, news[n].pairs)[e] = SumFunction(g)
  BY <1>2, <1>6, <1>7, <1>8, <1>9, <1>11, <1>12
<1>14. QED
  BY <1>13 DEF Summed, c, g

(* A step that replaces no tree. *)
LEMMA HostKept ==
  ASSUME HostInv, UNCHANGED <<problem, tree, demand>>
  PROVE  HostInv'
<1>1. \A n : Accesses(n)' = Accesses(n)
  BY AccessKept
<1>2. Nets' = Nets
  BY DEF Nets
<1>3. \A n \in Nets : TreeShape(tree'[n]) /\ JoinsPins(tree'[n], Accesses(n)')
  BY <1>1 DEF HostInv
<1>4. /\ tree' = [n \in Nets |-> tree'[n]]
      /\ demand' = [e \in Edges |-> demand'[e]]
      /\ \A e \in Edges : demand'[e] = SumFunction([n \in Nets |-> Usage(tree'[n].pairs, e)])
  BY DEF HostInv
<1>5. QED
  BY <1>2, <1>3, <1>4 DEF HostInv

(* Replacing the tree of a net whose pins are all connected. *)
LEMMA HostApply ==
  ASSUME RouteInv, HostInv, Apply
  PROVE  HostInv'
<1>1. NetsInv /\ RoutesInv /\ phase = "apply" /\ UNCHANGED problem
  BY DEF RouteInv, Apply
<1>2. PICK net \in Nets : net = Min(todo) /\ net \in todo
  BY <1>1, NetsFinite, MinElement DEF Apply, NetsInv
<1>3. PICK new : new = extractGRTree(routes[net], rootIdx[net])
  OBVIOUS
<1>4. CASE ~ isRouted[net]
  <2>1. UNCHANGED <<problem, tree, demand>>
    BY <1>2, <1>4 DEF Apply
  <2>2. QED
    BY <2>1, HostKept
<1>5. CASE isRouted[net]
  <2>1. /\ tree' = [tree EXCEPT ![net] = new]
        /\ demand' = Commit(RipUpTree(demand, tree[net].pairs), new.pairs)
    BY <1>2, <1>3, <1>5 DEF Apply
  <2>2. JoinedNet(net) /\ IsFiniteSet(DOMAIN routes[net])
    BY <1>1, <1>2 DEF RoutesInv, NetsInv, Placed
  <2>3. /\ Accesses(net) \subseteq Points /\ IsFiniteSet(Accesses(net))
    BY <1>1, AccessPoints DEF NetsInv, Accesses
  <2>4. /\ rootIdx[net] \in Accesses(net)
        /\ IF Cardinality(Accesses(net)) = 1 THEN routes[net] = <<>>
           ELSE Joining(routes[net], Accesses(net))
    BY <1>5, <2>2 DEF JoinedNet
  <2>5. JoinsPins(new, Accesses(net)) /\ TreeShape(new)
    BY <1>3, <2>2, <2>3, <2>4, ExtractedJoins
  <2>6. \A n : Accesses(n)' = Accesses(n)
    BY <1>1, AccessKept
  <2>7. Nets' = Nets
    BY <1>1 DEF Nets
  <2>8. /\ tree' = [n \in Nets |-> tree'[n]] /\ tree'[net] = new
        /\ \A n \in Nets \ {net} : tree'[n] = tree[n]
    BY <2>1 DEF HostInv
  <2>9. \A n \in Nets : TreeShape(tree[n]) /\ JoinsPins(tree[n], Accesses(n))
    BY DEF HostInv
  <2>10. \A n \in Nets : TreeShape(tree'[n]) /\ JoinsPins(tree'[n], Accesses(n)')
    <3>1. TAKE n \in Nets
    <3>2. CASE n = net
      BY <2>5, <2>6, <2>8, <3>2
    <3>3. CASE n # net
      BY <2>6, <2>8, <2>9, <3>3
    <3>4. QED
      BY <3>2, <3>3
  <2>11. demand' = [e \in Edges |-> demand'[e]]
    BY <2>1 DEF Commit
  <2>12. ASSUME NEW e \in Edges
         PROVE  demand'[e] = SumFunction([n \in Nets |-> Usage(tree'[n].pairs, e)])
    <3>1. IsFiniteSet(Nets)
      BY <1>1, NetsFinite DEF NetsInv
    <3>2. PICK trees, news, d, nets : trees = tree /\ news = tree' /\ d = demand /\ nets = Nets
      OBVIOUS
    <3>3. /\ \A k \in nets : IsFiniteSet(DOMAIN trees[k].pairs)
          /\ \A k \in nets \ {net} : news[k] = trees[k]
          /\ IsFiniteSet(DOMAIN news[net].pairs)
          /\ IsFiniteSet(nets) /\ net \in nets
      BY <2>5, <2>8, <2>9, <3>1, <3>2, PairsFinite
    <3>4. Summed(d, nets, trees, e)
      BY <3>2 DEF HostInv, Summed
    <3>5. Summed(Commit(RipUpTree(d, trees[net].pairs), news[net].pairs), nets, news, e)
      BY <3>3, <3>4, DemandReplaced
    <3>6. QED
      BY <2>1, <2>8, <3>2, <3>5 DEF Summed
  <2>13. QED
    BY <2>7, <2>8, <2>10, <2>11, <2>12 DEF HostInv
<1>6. QED
  BY <1>4, <1>5

(* Every action keeps the trees and their demands together. *)
LEMMA HostStep == RouteInv /\ HostInv /\ [Next]_vars => HostInv'
<1> SUFFICES ASSUME RouteInv, HostInv, [Next]_vars
             PROVE  HostInv'
  OBVIOUS
<1>1. CASE Apply
  BY <1>1, HostApply
<1>2. CASE RipUp \/ Prepare \/ RoutePin \/ CommitNet \/ MarkOverflow \/ Write \/ UNCHANGED vars
  <2>1. UNCHANGED <<problem, tree, demand>>
    BY <1>2 DEF RipUp, Prepare, RoutePin, CommitNet, MarkOverflow, Write, vars
  <2>2. QED
    BY <2>1, HostKept
<1>3. QED
  BY <1>1, <1>2 DEF Next, Finished

(* The host's trees join the pins of their nets and its demands are what   *)
(* the trees use: applyToCpu replaces a tree by one that extractGRTree     *)
(* made of routes with an end in every pin.                                *)
THEOREM TreesJoinPins == Spec => []HostTreesJoinPins
<1>1. Init => RouteInv /\ HostInv
  BY RouteInit, HostInit
<1>2. RouteInv /\ HostInv /\ [Next]_vars => RouteInv' /\ HostInv'
  BY RouteStep, HostStep
<1>3. RouteInv /\ HostInv => HostTreesJoinPins
  BY HostImplies
<1>4. QED
  BY <1>1, <1>2, <1>3, PTL DEF Spec

-----------------------------------------------------------------------------
(* The guides as they are written.                                         *)
Covered(lines) == UNION {Spans(g) : g \in lines}
Closed(lines, S) == \A g \in lines : Spans(g) \cap S # {} => Spans(g) \subseteq S
Taken(lines, S) == {g \in lines : Spans(g) \subseteq S}

(* Points that grow with the lines that touch them: after k rounds at      *)
(* least k lines are in, or no other one touches them.                     *)
Growing(lines, root, k, S) ==
  /\ root \in S /\ S \subseteq Covered(lines)
  /\ Closed(lines, S) \/ Cardinality(Taken(lines, S)) >= k

(* One round. *)
LEMMA GrownStep ==
  ASSUME NEW lines, IsFiniteSet(lines), NEW root, NEW k \in Nat, NEW S, Growing(lines, root, k, S)
  PROVE  Growing(lines, root, k + 1, Grown(lines, S))
<1> DEFINE T == Grown(lines, S)
<1>1. /\ S \subseteq T /\ T \subseteq S \cup Covered(lines)
      /\ \A g \in lines : Spans(g) \cap S # {} => Spans(g) \subseteq T
      /\ \A x \in T : x \in S \/ \E g \in lines : Spans(g) \cap S # {} /\ x \in Spans(g)
  BY DEF Grown, Covered
<1> HIDE DEF T
<1>2. root \in T /\ T \subseteq Covered(lines)
  BY <1>1 DEF Growing
<1>3. CASE Closed(lines, S)
  <2>1. T = S
    BY <1>1, <1>3 DEF Closed
  <2>2. QED
    BY <1>2, <1>3, <2>1 DEF Growing, T
<1>4. CASE ~ Closed(lines, S)
  <2>1. PICK g \in lines : Spans(g) \cap S # {} /\ ~ (Spans(g) \subseteq S)
    BY <1>4 DEF Closed
  <2> DEFINE A == Taken(lines, S)
             B == Taken(lines, T)
  <2>2. A \subseteq lines /\ B \subseteq lines /\ g \notin A /\ A \cup {g} \subseteq B
    BY <1>1, <2>1 DEF Taken
  <2>3. Cardinality(A) >= k
    BY <1>4 DEF Growing
  <2> HIDE DEF A, B
  <2>4. IsFiniteSet(A) /\ IsFiniteSet(B)
    BY <2>2, FS_Subset
  <2>5. IsFiniteSet(A \cup {g}) /\ Cardinality(A \cup {g}) = Cardinality(A) + 1
    BY <2>2, <2>4, FS_AddElement, Zenon
  <2>6. Cardinality(A \cup {g}) <= Cardinality(B)
    BY <2>2, <2>4, FS_Subset
  <2>7. Cardinality(A) \in Nat /\ Cardinality(B) \in Nat
    BY <2>4, FS_CardinalityType
  <2>8. Cardinality(B) >= k + 1
    BY <2>3, <2>5, <2>6, <2>7
  <2>9. QED
    BY <1>2, <2>8 DEF Growing, B, T
<1>5. QED
  BY <1>3, <1>4

(* The rounds of Touching.                                                 *)
TouchRounds(lines, root, rounds, after) ==
  /\ Touching(lines, root) = after[rounds]
  /\ after[0] = {root}
  /\ \A k \in 0 .. rounds - 1 : after[k + 1] = Grown(lines, after[k])

(* Touching has rounds. *)
LEMMA TouchEquation ==
  ASSUME NEW lines, NEW root, NEW rounds \in Nat, rounds = Cardinality(lines)
  PROVE  \E after : TouchRounds(lines, root, rounds, after)
<1> DEFINE Swp(x) == Only({Grown(lines, S) : S \in {x}})
           first == {root}
           Eq(g, n) == g = [t \in 0 .. n |-> IF t = 0 THEN first ELSE Swp(g[t - 1])]
           F == {n \in Nat : \E g : Eq(g, n)}
<1>1. 0 \in F
  <2> HIDE DEF first, Swp
  <2> DEFINE g == [t \in 0 .. 0 |-> first]
  <2>1. Eq(g, 0)
    <3>1. \A t \in 0 .. 0 : t = 0
      OBVIOUS
    <3>2. QED
      BY <3>1
  <2>2. QED
    BY <2>1, Zenon
<1>2. ASSUME NEW n \in Nat, n \in F
      PROVE  n + 1 \in F
  <2> HIDE DEF first, Swp
  <2>1. PICK g : Eq(g, n)
    BY <1>2
  <2> DEFINE h == [t \in 0 .. n + 1 |-> IF t = n + 1 THEN Swp(g[n]) ELSE g[t]]
  <2>2. \A t \in 0 .. n + 1 : h[t] = IF t = 0 THEN first ELSE Swp(h[t - 1])
    <3> TAKE t \in 0 .. n + 1
    <3>1. CASE t = n + 1
      <4>1. n \in 0 .. n /\ t - 1 = n /\ n \in 0 .. n + 1 /\ n # n + 1 /\ t # 0
        BY <3>1
      <4>2. h[t] = Swp(g[n])
        BY <3>1
      <4>3. h[n] = g[n]
        BY <2>1, <4>1
      <4>4. QED
        BY <3>1, <4>1, <4>2, <4>3
    <3>2. CASE t # n + 1
      <4>1. t \in 0 .. n
        BY <3>2
      <4>2. h[t] = g[t]
        BY <3>2, <4>1
      <4>3. g[t] = IF t = 0 THEN first ELSE Swp(g[t - 1])
        BY <2>1, <4>1
      <4>4. t # 0 => h[t - 1] = g[t - 1]
        <5> SUFFICES ASSUME t # 0
                     PROVE  h[t - 1] = g[t - 1]
          OBVIOUS
        <5>1. t - 1 \in 0 .. n + 1 /\ t - 1 # n + 1
          BY <4>1
        <5>2. QED
          BY <5>1
      <4>5. QED
        BY <4>2, <4>3, <4>4
    <3>3. QED
      BY <3>1, <3>2
  <2>3. Eq(h, n + 1)
    <3>1. h = [t \in 0 .. n + 1 |-> h[t]]
      OBVIOUS
    <3> HIDE DEF h
    <3>2. QED
      BY <2>2, <3>1, Zenon
  <2> HIDE DEF h, Eq
  <2>4. QED
    BY <2>3
<1>3. rounds \in F
  <2> HIDE DEF F
  <2>1. QED
    BY <1>1, <1>2, GrowingNumbers
<1> DEFINE g == CHOOSE g : Eq(g, rounds)
<1>4. Eq(g, rounds)
  <2> HIDE DEF Swp, first
  <2>1. QED
    BY <1>3, Zenon
<1>5. Touching(lines, root) = g[rounds]
  BY DEF Touching
<1> HIDE DEF g
<1>6. g[0] = first
  <2>1. 0 \in 0 .. rounds
    OBVIOUS
  <2> HIDE DEF Swp, first
  <2>2. QED
    BY <1>4, <2>1
<1>7. ASSUME NEW k \in 0 .. rounds - 1
      PROVE  g[k + 1] = Grown(lines, g[k])
  <2>1. k + 1 \in 0 .. rounds /\ k + 1 # 0 /\ (k + 1) - 1 = k
    OBVIOUS
  <2>2. g[k + 1] = Swp(g[k])
    <3> HIDE DEF Swp, first
    <3>1. QED
      BY <1>4, <2>1
  <2>3. {Grown(lines, S) : S \in {g[k]}} = {Grown(lines, g[k])}
    OBVIOUS
  <2>4. QED
    BY <2>2, <2>3, OnlyOne, Zenon
<1>8. QED
  BY <1>5, <1>6, <1>7 DEF TouchRounds

(* As many rounds as there are lines are enough. *)
LEMMA TouchingCloses ==
  ASSUME NEW lines, IsFiniteSet(lines), NEW root, root \in Covered(lines)
  PROVE  /\ root \in Touching(lines, root) /\ Touching(lines, root) \subseteq Covered(lines)
         /\ Closed(lines, Touching(lines, root))
<1> DEFINE rounds == Cardinality(lines)
<1>1. rounds \in Nat
  BY FS_CardinalityType
<1>2. PICK after : TouchRounds(lines, root, rounds, after)
  BY <1>1, TouchEquation
<1> HIDE DEF rounds
<1>3. /\ Touching(lines, root) = after[rounds] /\ after[0] = {root}
      /\ \A k \in 0 .. rounds - 1 : after[k + 1] = Grown(lines, after[k])
  BY <1>2 DEF TouchRounds
<1> DEFINE F == {k \in Nat : k <= rounds => Growing(lines, root, k, after[k])}
<1>4. 0 \in F
  <2>1. Taken(lines, after[0]) \subseteq lines
    BY DEF Taken
  <2>2. Cardinality(Taken(lines, after[0])) \in Nat
    BY <2>1, FS_Subset, FS_CardinalityType
  <2>3. Growing(lines, root, 0, after[0])
    BY <1>3, <2>2 DEF Growing
  <2>4. QED
    BY <2>3
<1>5. ASSUME NEW k \in Nat, k \in F
      PROVE  k + 1 \in F
  <2> SUFFICES ASSUME k + 1 <= rounds
               PROVE  Growing(lines, root, k + 1, after[k + 1])
    OBVIOUS
  <2>1. k <= rounds /\ k \in 0 .. rounds - 1
    BY <1>1
  <2>2. Growing(lines, root, k, after[k])
    BY <1>5, <2>1
  <2>3. Growing(lines, root, k + 1, Grown(lines, after[k]))
    BY <2>2, GrownStep
  <2>4. QED
    BY <1>3, <2>1, <2>3
<1>6. rounds \in F
  <2> HIDE DEF F
  <2>1. QED
    BY <1>1, <1>4, <1>5, GrowingNumbers
<1> DEFINE S == after[rounds]
<1>7. Growing(lines, root, rounds, S)
  BY <1>1, <1>6
<1> HIDE DEF S, F
<1>8. Closed(lines, S)
  <2> SUFFICES ASSUME Cardinality(Taken(lines, S)) >= rounds
               PROVE  Closed(lines, S)
    BY <1>7 DEF Growing
  <2>1. Taken(lines, S) \subseteq lines
    BY DEF Taken
  <2>2. Taken(lines, S) = lines
    <3> DEFINE A == Taken(lines, S)
    <3> HIDE DEF A
    <3>1. A \subseteq lines /\ Cardinality(A) >= Cardinality(lines)
      BY <2>1 DEF A, rounds
    <3>2. IsFiniteSet(A) /\ Cardinality(A) \in Nat /\ Cardinality(lines) \in Nat
      BY <3>1, FS_Subset, FS_CardinalityType
    <3>3. Cardinality(A) <= Cardinality(lines) /\ (Cardinality(lines) = Cardinality(A) => A = lines)
      BY <3>1, FS_Subset
    <3>4. QED
      BY <3>1, <3>2, <3>3 DEF A
  <2>3. QED
    BY <2>2 DEF Taken, Closed
<1>9. QED
  BY <1>3, <1>7, <1>8 DEF Growing, S

(* A point, number by number. *)
LEMMA PointNumbers ==
  ASSUME NEW p \in Points
  PROVE  /\ p = [l |-> p.l, c |-> p.c] /\ p.c = <<p.c[1], p.c[2]>>
         /\ p.l \in Nat /\ p.c[1] \in Nat /\ p.c[2] \in Nat
<1>1. p.l \in Layers /\ p.c[1] \in 0 .. xSize - 1 /\ p.c[2] \in 0 .. ySize - 1
  BY PointFacts
<1>2. p.l \in Nat
  BY <1>1, GridAssumption DEF Layers
<1>3. p.c[1] \in Nat /\ p.c[2] \in Nat
  BY <1>1, GridAssumption
<1>4. QED
  BY <1>2, <1>3, PointFacts

(* What is closed upwards and downwards holds all layers of a stack. *)
LEMMA StackLayers ==
  ASSUME NEW a \in Int, NEW b \in Int, NEW X, a \in X \/ b \in X, a <= b,
         \A m \in a .. b - 1 : m \in X <=> m + 1 \in X
  PROVE  a .. b \subseteq X
<1>1. CASE a \in X
  <2> DEFINE K == {k \in Nat : a + k <= b => a + k \in X}
  <2>1. 0 \in K
    BY <1>1
  <2>2. ASSUME NEW k \in Nat, k \in K
        PROVE  k + 1 \in K
    <3> SUFFICES ASSUME a + (k + 1) <= b
                 PROVE  a + (k + 1) \in X
      OBVIOUS
    <3>1. a + k \in a .. b - 1 /\ (a + k) + 1 = a + (k + 1) /\ a + k <= b
      OBVIOUS
    <3>2. a + k \in X
      BY <2>2, <3>1
    <3>3. (a + k) + 1 \in X
      BY <3>1, <3>2
    <3>4. QED
      BY <3>1, <3>3
  <2>3. Nat \subseteq K
    <3> HIDE DEF K
    <3>1. QED
      BY <2>1, <2>2, GrowingNumbers
  <2>4. ASSUME NEW m \in a .. b
        PROVE  m \in X
    <3>1. m - a \in Nat /\ a + (m - a) = m
      OBVIOUS
    <3>2. m - a \in K
      BY <2>3, <3>1
    <3>3. QED
      BY <3>1, <3>2
  <2>5. QED
    BY <2>4
<1>2. CASE b \in X
  <2> DEFINE K == {k \in Nat : a <= b - k => b - k \in X}
  <2>1. 0 \in K
    BY <1>2
  <2>2. ASSUME NEW k \in Nat, k \in K
        PROVE  k + 1 \in K
    <3> SUFFICES ASSUME a <= b - (k + 1)
                 PROVE  b - (k + 1) \in X
      OBVIOUS
    <3>1. b - (k + 1) \in a .. b - 1 /\ (b - (k + 1)) + 1 = b - k /\ a <= b - k
      OBVIOUS
    <3>2. b - k \in X
      BY <2>2, <3>1
    <3>3. QED
      BY <3>1, <3>2
  <2>3. Nat \subseteq K
    <3> HIDE DEF K
    <3>1. QED
      BY <2>1, <2>2, GrowingNumbers
  <2>4. ASSUME NEW m \in a .. b
        PROVE  m \in X
    <3>1. b - m \in Nat /\ b - (b - m) = m
      OBVIOUS
    <3>2. b - m \in K
      BY <2>3, <3>1
    <3>3. QED
      BY <3>1, <3>2
  <2>5. QED
    BY <2>4
<1>3. QED
  BY <1>1, <1>2

(* The lines of a pair: they hold its ends, and together they grow from    *)
(* either of them.                                                         *)
Meets(lines, u, v) ==
  /\ IsFiniteSet(lines)
  /\ u \in Covered(lines) /\ v \in Covered(lines)
  /\ \A S : u \in S /\ Closed(lines, S) => Covered(lines) \subseteq S

(* A wire has one line, from end to end. *)
LEMMA WireMeets ==
  ASSUME NEW u \in Points, NEW v \in Points, u.l = v.l
  PROVE  Meets(Written(Guide(u, v)), u, v)
<1> DEFINE g == Guide(u, v)
<1>1. /\ u = [l |-> u.l, c |-> u.c] /\ u.c = <<u.c[1], u.c[2]>> /\ u.l \in Nat
      /\ u.c[1] \in Nat /\ u.c[2] \in Nat
      /\ v = [l |-> v.l, c |-> v.c] /\ v.c = <<v.c[1], v.c[2]>>
      /\ v.c[1] \in Nat /\ v.c[2] \in Nat
  BY PointNumbers
<1>2. /\ g.low = <<Low(u.c[1], v.c[1]), Low(u.c[2], v.c[2])>>
      /\ g.high = <<High(u.c[1], v.c[1]), High(u.c[2], v.c[2])>>
      /\ g.layers = <<Low(u.l, v.l), High(u.l, v.l)>>
  BY DEF Guide
<1>3. Low(u.l, v.l) = u.l /\ High(u.l, v.l) = u.l
  BY DEF Low, High
<1> HIDE DEF g
<1>4. g.layers[1] = u.l /\ g.layers[2] = u.l
  BY <1>2, <1>3
<1>5. Written(g) = {g}
  BY <1>4 DEF Written
<1>6. /\ u.l \in u.l .. u.l
      /\ \A k \in {1, 2} : /\ u.c[k] \in g.low[k] .. g.high[k]
                           /\ v.c[k] \in g.low[k] .. g.high[k]
  BY <1>1, <1>2 DEF Low, High
<1>7. u \in Spans(g)
  <2>1. [l |-> u.l, c |-> <<u.c[1], u.c[2]>>] \in Spans(g)
    BY <1>4, <1>6 DEF Spans
  <2>2. QED
    BY <1>1, <2>1
<1>8. v \in Spans(g)
  <2>1. [l |-> u.l, c |-> <<v.c[1], v.c[2]>>] \in Spans(g)
    BY <1>4, <1>6 DEF Spans
  <2>2. QED
    BY <1>1, <2>1
<1>9. Covered({g}) = Spans(g)
  BY DEF Covered
<1>10. ASSUME NEW S, u \in S, Closed({g}, S)
       PROVE  Spans(g) \subseteq S
  BY <1>7, <1>10 DEF Closed
<1>11. Meets({g}, u, v)
  BY <1>7, <1>8, <1>9, <1>10, FS_Singleton, Zenon DEF Meets
<1>12. QED
  BY <1>5, <1>11 DEF g

(* A via has a line for every two layers. *)
LEMMA ViaMeets ==
  ASSUME NEW u \in Points, NEW v \in Points, u.l # v.l, u.c = v.c
  PROVE  Meets(Written(Guide(u, v)), u, v)
<1> DEFINE g == Guide(u, v)
           a == Low(u.l, v.l)
           b == High(u.l, v.l)
           c == u.c
           Line(m) == [g EXCEPT !.layers = <<m, m + 1>>]
           Pt(m) == [l |-> m, c |-> c]
           lines == Written(g)
<1>1. /\ u = Pt(u.l) /\ c = <<c[1], c[2]>> /\ u.l \in Nat
      /\ c[1] \in Nat /\ c[2] \in Nat
      /\ v = Pt(v.l) /\ v.l \in Nat
  BY PointNumbers
<1>2. /\ a \in Nat /\ b \in Nat /\ a < b
      /\ (u.l = a /\ v.l = b) \/ (u.l = b /\ v.l = a)
  BY <1>1 DEF Low, High
<1>3. g = [low |-> c, high |-> c, layers |-> <<a, b>>]
  <2>1. \A x \in Nat : Low(x, x) = x /\ High(x, x) = x
    BY DEF Low, High
  <2>2. <<Low(u.c[1], v.c[1]), Low(u.c[2], v.c[2])>> = c
    BY <1>1, <2>1
  <2>3. <<High(u.c[1], v.c[1]), High(u.c[2], v.c[2])>> = c
    BY <1>1, <2>1
  <2>4. QED
    BY <2>2, <2>3 DEF Guide
<1> HIDE DEF a, b, c, g
<1>4. \A m : Line(m) = [low |-> c, high |-> c, layers |-> <<m, m + 1>>]
  BY <1>3
<1>5. lines = {Line(m) : m \in a .. b - 1}
  BY <1>2, <1>3 DEF Written
<1>6. ASSUME NEW m \in a .. b - 1
      PROVE  Spans(Line(m)) = {Pt(m), Pt(m + 1)}
  <2>1. Spans([low |-> c, high |-> c, layers |-> <<m, m + 1>>])
          = {[l |-> k, c |-> <<x, y>>] : k \in m .. m + 1, x \in c[1] .. c[1], y \in c[2] .. c[2]}
    BY DEF Spans
  <2>2. m .. m + 1 = {m, m + 1} /\ c[1] .. c[1] = {c[1]} /\ c[2] .. c[2] = {c[2]}
    BY <1>1, <1>2
  <2>3. Spans(Line(m)) = {[l |-> k, c |-> <<x, y>>] : k \in {m, m + 1}, x \in {c[1]}, y \in {c[2]}}
    BY <1>4, <2>1, <2>2
  <2>4. {[l |-> k, c |-> <<x, y>>] : k \in {m, m + 1}, x \in {c[1]}, y \in {c[2]}}
          = {[l |-> m, c |-> <<c[1], c[2]>>], [l |-> m + 1, c |-> <<c[1], c[2]>>]}
    OBVIOUS
  <2>5. QED
    BY <1>1, <2>3, <2>4
<1> HIDE DEF Line, lines
<1>7. \A m \in a .. b : Pt(m) \in Covered(lines)
  <2> TAKE m \in a .. b
  <2>1. PICK k \in a .. b - 1 : m = k \/ m = k + 1
    <3>1. CASE m = a
      BY <1>2, <3>1
    <3>2. CASE m # a
      <4>1. m - 1 \in a .. b - 1 /\ m = (m - 1) + 1
        BY <1>2, <3>2
      <4>2. QED
        BY <4>1
    <3>3. QED
      BY <3>1, <3>2
  <2>2. Pt(m) \in Spans(Line(k)) /\ Line(k) \in lines
    BY <1>5, <1>6, <2>1
  <2>3. QED
    BY <2>2 DEF Covered
<1>8. u \in Covered(lines) /\ v \in Covered(lines)
  <2>1. u.l \in a .. b /\ v.l \in a .. b
    BY <1>2
  <2>2. QED
    BY <1>1, <1>7, <2>1
<1>9. ASSUME NEW S, u \in S, Closed(lines, S)
      PROVE  Covered(lines) \subseteq S
  <2> DEFINE X == {m \in a .. b : Pt(m) \in S}
  <2>1. a \in X \/ b \in X
    BY <1>1, <1>2, <1>9
  <2>2. ASSUME NEW m \in a .. b - 1
        PROVE  m \in X <=> m + 1 \in X
    <3>1. Line(m) \in lines /\ Spans(Line(m)) = {Pt(m), Pt(m + 1)}
      BY <1>5, <1>6
    <3>2. Pt(m) \in S <=> Pt(m + 1) \in S
      BY <1>9, <3>1 DEF Closed
    <3>3. m \in a .. b /\ m + 1 \in a .. b
      BY <1>2
    <3>4. QED
      BY <3>2, <3>3
  <2>3. a .. b \subseteq X
    <3> HIDE DEF X
    <3>1. QED
      BY <1>2, <2>1, <2>2, StackLayers
  <2>4. ASSUME NEW m \in a .. b - 1
        PROVE  Spans(Line(m)) \subseteq S
    <3>1. m \in a .. b /\ m + 1 \in a .. b
      BY <1>2
    <3>2. Pt(m) \in S /\ Pt(m + 1) \in S
      BY <2>3, <3>1
    <3>3. QED
      BY <1>6, <3>2
  <2>5. QED
    BY <1>5, <2>4 DEF Covered
<1>10. IsFiniteSet(lines)
  <2> DEFINE f == [m \in a .. b - 1 |-> Line(m)]
  <2>1. IsFiniteSet(a .. b - 1)
    BY <1>2, FS_Interval
  <2>2. f \in Surjection(a .. b - 1, lines)
    BY <1>5 DEF Surjection
  <2>3. QED
    BY <2>1, <2>2, FS_Surjection
<1>11. QED
  BY <1>8, <1>9, <1>10 DEF Meets, lines, g

(* The lines of a pair of different points. *)
LEMMA PairMeets ==
  ASSUME NEW u, NEW v, Legal([u |-> u, v |-> v]), u # v
  PROVE  Meets(Written(Guide(u, v)), u, v)
<1>1. u \in Points /\ v \in Points
  BY DEF Legal
<1>2. CASE u.l = v.l
  BY <1>1, <1>2, WireMeets
<1>3. CASE u.l # v.l
  <2>1. u.c = v.c
    BY <1>3 DEF Legal, IsVia
  <2>2. QED
    BY <1>1, <1>3, <2>1, ViaMeets
<1>4. QED
  BY <1>2, <1>3

(* The lines of a tree come from its pairs of different points.            *)
FromPairs(lines, p) ==
  /\ \A k \in DOMAIN p : p[k].u # p[k].v => Written(Guide(p[k].u, p[k].v)) \subseteq lines
  /\ \A g \in lines : \E k \in DOMAIN p : p[k].u # p[k].v /\ g \in Written(Guide(p[k].u, p[k].v))

(* So write says. *)
LEMMA LinesOfPairs ==
  ASSUME NEW root, NEW p, p # <<>>
  PROVE  FromPairs(write(root, p), p)
<1>1. getGuide(root, p) = {Guide(p[k].u, p[k].v) : k \in {j \in DOMAIN p : p[j].u # p[j].v}}
  BY DEF getGuide
<1>2. write(root, p) = UNION {Written(g) : g \in getGuide(root, p)}
  BY DEF write
<1>3. QED
  BY <1>1, <1>2 DEF FromPairs

(* The lines of a tree are finitely many. *)
LEMMA LinesFinite ==
  ASSUME NEW p, IsFiniteSet(DOMAIN p), NEW lines, FromPairs(lines, p),
         \A k \in DOMAIN p : Legal(p[k]) /\ p[k] = [u |-> p[k].u, v |-> p[k].v]
  PROVE  IsFiniteSet(lines)
<1> DEFINE K == {k \in DOMAIN p : p[k].u # p[k].v}
           f == [k \in K |-> Written(Guide(p[k].u, p[k].v))]
           family == {Written(Guide(p[k].u, p[k].v)) : k \in K}
<1>1. IsFiniteSet(K)
  BY FS_Subset
<1>2. f \in Surjection(K, family)
  BY DEF Surjection
<1>3. IsFiniteSet(family)
  <2> HIDE DEF f, family, K
  <2>1. QED
    BY <1>1, <1>2, FS_Surjection
<1>4. \A k \in K : IsFiniteSet(Written(Guide(p[k].u, p[k].v)))
  BY PairMeets DEF Meets
<1>5. \A x \in family : IsFiniteSet(x)
  BY <1>4
<1>6. lines \subseteq UNION family
  BY DEF FromPairs
<1>7. IsFiniteSet(UNION family)
  <2> HIDE DEF family
  <2>1. QED
    BY <1>3, <1>5, FS_UNION
<1>8. QED
  BY <1>6, <1>7, FS_Subset

(* Growing from its root, the lines of a tree take in all of its nodes. *)
LEMMA TreeTouches ==
  ASSUME NEW t, TreeShape(t), NEW points, JoinsPins(t, points), t.pairs # <<>>,
         NEW lines, FromPairs(lines, t.pairs),
         NEW S, t.root \in S, Closed(lines, S)
  PROVE  Covered(lines) \subseteq S /\ \A k \in DOMAIN t.pairs : t.pairs[k].v \in S
<1> DEFINE p == t.pairs
           n == Len(p)
<1>1. n \in Nat /\ DOMAIN p = 1 .. n
  BY DEF TreeShape
<1>2. \A k \in 1 .. n : /\ Legal(p[k]) /\ p[k] = [u |-> p[k].u, v |-> p[k].v]
                        /\ p[k].u = t.root \/ \E j \in 1 .. k - 1 : p[j].v = p[k].u
  <2>1. \A k \in 1 .. n : /\ Legal(p[k])
                          /\ p[k].u = t.root \/ \E j \in 1 .. k - 1 : p[j].v = p[k].u
    BY <1>1 DEF JoinsPins
  <2>2. \A k \in 1 .. n : p[k] = [u |-> p[k].u, v |-> p[k].v]
    <3> TAKE k \in 1 .. n
    <3> DEFINE T == [u : Points, v : Points]
    <3>1. p \in Seq(T)
      BY DEF TreeShape
    <3> HIDE DEF T, p
    <3>2. p[k] \in T
      BY <1>1, <3>1
    <3>3. QED
      BY <3>2 DEF T
  <2>3. QED
    BY <2>1, <2>2
<1> HIDE DEF p, n
<1>3. ASSUME NEW k \in 1 .. n, p[k].u \in S
      PROVE  p[k].v \in S /\ (p[k].u # p[k].v => Covered(Written(Guide(p[k].u, p[k].v))) \subseteq S)
  <2>1. CASE p[k].u = p[k].v
    BY <1>3, <2>1
  <2>2. CASE p[k].u # p[k].v
    <3>1. PICK own : own = Written(Guide(p[k].u, p[k].v))
      OBVIOUS
    <3>2. Meets(own, p[k].u, p[k].v)
      BY <1>2, <2>2, <3>1, PairMeets, Zenon
    <3>3. own \subseteq lines
      BY <1>1, <2>2, <3>1 DEF FromPairs, p
    <3>4. Closed(own, S)
      BY <3>3 DEF Closed
    <3>5. Covered(own) \subseteq S /\ p[k].v \in Covered(own)
      BY <1>3, <3>2, <3>4 DEF Meets
    <3>6. QED
      BY <3>1, <3>5
  <2>3. QED
    BY <2>1, <2>2
<1> DEFINE F == {k \in Nat : \A j \in 1 .. k : j <= n => p[j].v \in S /\ p[j].u \in S}
<1>4. 0 \in F
  OBVIOUS
<1>5. ASSUME NEW k \in Nat, k \in F
      PROVE  k + 1 \in F
  <2>1. \A j \in 1 .. k : j <= n => p[j].v \in S /\ p[j].u \in S
    BY <1>5
  <2>2. ASSUME k + 1 <= n
        PROVE  p[k + 1].v \in S /\ p[k + 1].u \in S
    <3>1. k + 1 \in 1 .. n /\ (k + 1) - 1 = k /\ \A j \in 1 .. k : j <= n
      BY <1>1, <2>2
    <3>2. p[k + 1].u = t.root \/ \E j \in 1 .. k : p[j].v = p[k + 1].u
      BY <1>2, <3>1, Zenon
    <3>3. p[k + 1].u \in S
      BY <2>1, <3>1, <3>2
    <3>4. QED
      BY <1>3, <3>1, <3>3
  <2>3. ASSUME NEW j \in 1 .. k + 1, j <= n
        PROVE  p[j].v \in S /\ p[j].u \in S
    <3>1. j \in 1 .. k \/ j = k + 1
      OBVIOUS
    <3>2. QED
      BY <2>1, <2>2, <2>3, <3>1
  <2>4. QED
    BY <2>3
<1>6. \A k \in 1 .. n : p[k].v \in S /\ p[k].u \in S
  <2>1. n \in F
    <3> HIDE DEF F
    <3>1. QED
      BY <1>1, <1>4, <1>5, GrowingNumbers
  <2>2. QED
    BY <1>1, <2>1
<1>7. ASSUME NEW g \in lines
      PROVE  Spans(g) \subseteq S
  <2>1. PICK k \in 1 .. n : p[k].u # p[k].v /\ g \in Written(Guide(p[k].u, p[k].v))
    BY <1>1 DEF FromPairs, p
  <2>2. Covered(Written(Guide(p[k].u, p[k].v))) \subseteq S
    BY <1>3, <1>6, <2>1
  <2>3. QED
    BY <2>1, <2>2 DEF Covered
<1>8. QED
  BY <1>1, <1>6, <1>7 DEF Covered, p

(* The root of a tree is on one of its lines. *)
LEMMA RootTouched ==
  ASSUME NEW t, TreeShape(t), NEW points, JoinsPins(t, points), t.pairs # <<>>,
         NEW lines, FromPairs(lines, t.pairs)
  PROVE  t.root \in Covered(lines)
<1> DEFINE p == t.pairs
           n == Len(p)
           D == {k \in 1 .. n : p[k].u # p[k].v}
<1>1. n \in Nat /\ DOMAIN p = 1 .. n
  BY DEF TreeShape
<1>2. /\ \A k \in 1 .. n : p[k].u = t.root \/ \E j \in 1 .. k - 1 : p[j].v = p[k].u
      /\ D # {}
      /\ \A k \in 1 .. n : Legal(p[k])
  BY <1>1, Zenon DEF JoinsPins
<1>3. PICK k \in D : \A j \in D : k <= j
  <2> HIDE DEF p, n
  <2>1. D \subseteq Nat
    BY <1>1
  <2>2. QED
    BY <1>2, <2>1, LeastNumber, Zenon
<1>4. \A j \in 1 .. k - 1 : j \in 1 .. n /\ p[j].u = p[j].v
  <2> HIDE DEF p, n
  <2> TAKE j \in 1 .. k - 1
  <2>1. j \in 1 .. n /\ ~ (k <= j)
    BY <1>1, <1>3
  <2>2. QED
    BY <1>3, <2>1
<1> HIDE DEF p, n
<1> DEFINE F == {m \in Nat : \A j \in 1 .. m : j <= k - 1 => p[j].v = t.root}
<1>5. 0 \in F
  OBVIOUS
<1>6. ASSUME NEW m \in Nat, m \in F
      PROVE  m + 1 \in F
  <2>1. \A j \in 1 .. m : j <= k - 1 => p[j].v = t.root
    BY <1>6
  <2>2. ASSUME m + 1 <= k - 1
        PROVE  p[m + 1].v = t.root
    <3>1. m + 1 \in 1 .. k - 1 /\ (m + 1) - 1 = m /\ \A j \in 1 .. m : j <= k - 1
      BY <1>1, <2>2
    <3>2. m + 1 \in 1 .. n /\ p[m + 1].u = p[m + 1].v
      BY <1>4, <3>1
    <3>3. p[m + 1].u = t.root \/ \E j \in 1 .. m : p[j].v = p[m + 1].u
      BY <1>2, <3>1, <3>2
    <3>4. QED
      BY <2>1, <3>1, <3>2, <3>3
  <2>3. ASSUME NEW j \in 1 .. m + 1, j <= k - 1
        PROVE  p[j].v = t.root
    <3>1. j \in 1 .. m \/ j = m + 1
      OBVIOUS
    <3>2. QED
      BY <2>1, <2>2, <2>3, <3>1
  <2>4. QED
    BY <2>3
<1>7. \A j \in 1 .. k - 1 : p[j].v = t.root
  <2>1. k - 1 \in Nat
    BY <1>1
  <2>2. k - 1 \in F
    <3> HIDE DEF F
    <3>1. QED
      BY <1>5, <1>6, <2>1, GrowingNumbers
  <2>3. QED
    BY <2>1, <2>2
<1>8. p[k].u = t.root
  BY <1>2, <1>7
<1>9. Meets(Written(Guide(p[k].u, p[k].v)), p[k].u, p[k].v)
  <2>1. Legal([u |-> p[k].u, v |-> p[k].v])
    BY <1>2 DEF Legal, IsVia, IsWire
  <2>2. QED
    BY <2>1, PairMeets
<1>10. Written(Guide(p[k].u, p[k].v)) \subseteq lines
  BY <1>1 DEF FromPairs, p
<1>11. QED
  BY <1>8, <1>9, <1>10 DEF Meets, Covered

(* What the lines of a tree promise: they all meet, from its root on, and  *)
(* hold the points it joins.                                               *)
GuideOf(t, points) ==
  LET lines == write(t.root, t.pairs)
  IN Touching(lines, t.root) = Covered(lines) /\ points \subseteq Covered(lines)

(* A tree of its root has one line, with the layer above. *)
LEMMA RootGuide ==
  ASSUME NEW t, TreeShape(t), NEW points, JoinsPins(t, points), t.pairs = <<>>
  PROVE  GuideOf(t, points)
<1> DEFINE root == t.root
           lines == write(root, <<>>)
           g == [low |-> root.c, high |-> root.c, layers |-> <<root.l, root.l + 1>>]
<1>1. /\ root.l \in Nat /\ root.c = <<root.c[1], root.c[2]>> /\ root = [l |-> root.l, c |-> root.c]
      /\ root.c[1] \in Nat /\ root.c[2] \in Nat
  BY PointNumbers DEF TreeShape
<1>2. root.l \in 0 .. nLayers - 1 /\ nLayers \in Nat
  BY PointFacts, GridAssumption DEF TreeShape, Layers
<1>3. Low(root.l, nLayers - 1) = root.l /\ Low(root.l + 1, nLayers) = root.l + 1
  BY <1>2 DEF Low
<1>4. getGuide(root, <<>>) = {g}
  BY <1>3 DEF getGuide
<1>5. g.layers[1] = root.l /\ g.layers[2] = root.l + 1
  OBVIOUS
<1>6. Written(g) = {g}
  <2>1. g.layers[1] .. g.layers[2] - 1 = {root.l}
    BY <1>1, <1>5
  <2>2. g.layers[1] # g.layers[2]
    BY <1>1, <1>5
  <2>3. Written(g) = {[g EXCEPT !.layers = <<m, m + 1>>] : m \in {root.l}}
    BY <2>1, <2>2 DEF Written
  <2>4. [g EXCEPT !.layers = <<root.l, root.l + 1>>] = g
    OBVIOUS
  <2>5. QED
    BY <2>3, <2>4
<1>7. lines = {g}
  <2> HIDE DEF g
  <2>1. lines = UNION {Written(x) : x \in {g}}
    BY <1>4 DEF write
  <2>2. QED
    BY <1>6, <2>1
<1>8. root \in Spans(g)
  <2>1. root.l \in g.layers[1] .. g.layers[2] /\ root.c[1] \in g.low[1] .. g.high[1]
        /\ root.c[2] \in g.low[2] .. g.high[2]
    BY <1>1
  <2> HIDE DEF g
  <2>2. [l |-> root.l, c |-> <<root.c[1], root.c[2]>>] \in Spans(g)
    BY <2>1 DEF Spans
  <2>3. QED
    BY <1>1, <2>2
<1> HIDE DEF g
<1>9. Covered(lines) = Spans(g) /\ IsFiniteSet(lines)
  BY <1>7, FS_Singleton, Zenon DEF Covered
<1> HIDE DEF lines
<1>10. /\ root \in Touching(lines, root) /\ Touching(lines, root) \subseteq Covered(lines)
       /\ Closed(lines, Touching(lines, root))
  BY <1>8, <1>9, TouchingCloses
<1>11. Touching(lines, root) = Covered(lines)
  BY <1>7, <1>8, <1>9, <1>10, Zenon DEF Closed
<1>12. points \subseteq {root}
  <2>1. DOMAIN t.pairs = {}
    OBVIOUS
  <2>2. QED
    BY <2>1 DEF JoinsPins
<1>13. QED
  BY <1>8, <1>9, <1>11, <1>12 DEF GuideOf, lines

(* The guides of every tree that joins its pins meet. *)
THEOREM GuidesMeet ==
  ASSUME NEW t, TreeShape(t), NEW points, JoinsPins(t, points)
  PROVE  GuideOf(t, points)
<1>1. CASE t.pairs = <<>>
  BY <1>1, RootGuide
<1>2. CASE t.pairs # <<>>
  <2>1. PICK lines : lines = write(t.root, t.pairs)
    OBVIOUS
  <2>2. FromPairs(lines, t.pairs)
    BY <1>2, <2>1, LinesOfPairs
  <2>3. t.root \in Covered(lines)
    BY <1>2, <2>2, RootTouched
  <2>4. IsFiniteSet(lines)
    <3>1. PICK p : p = t.pairs
      OBVIOUS
    <3>2. IsFiniteSet(DOMAIN p)
      BY <3>1, PairsFinite
    <3>3. \A k \in DOMAIN p : Legal(p[k])
      BY <3>1 DEF JoinsPins
    <3>4. \A k \in DOMAIN p : p[k] = [u |-> p[k].u, v |-> p[k].v]
      <4> TAKE k \in DOMAIN p
      <4> DEFINE T == [u : Points, v : Points]
      <4>1. p \in Seq(T)
        BY <3>1 DEF TreeShape
      <4> HIDE DEF T
      <4>2. p[k] \in T
        BY <4>1
      <4>3. QED
        BY <4>2 DEF T
    <3>5. QED
      BY <2>2, <3>1, <3>2, <3>3, <3>4, LinesFinite, Zenon
  <2>5. PICK S : S = Touching(lines, t.root)
    OBVIOUS
  <2>6. t.root \in S /\ S \subseteq Covered(lines) /\ Closed(lines, S)
    BY <2>3, <2>4, <2>5, TouchingCloses
  <2>7. Covered(lines) \subseteq S
    BY <1>2, <2>2, <2>6, TreeTouches
  <2>8. PICK all : all = Covered(lines)
    OBVIOUS
  <2>9. Closed(lines, all)
    BY <2>8 DEF Closed, Covered
  <2>10. t.root \in all
    BY <2>3, <2>8
  <2>11. \A k \in DOMAIN t.pairs : t.pairs[k].v \in all
    BY <1>2, <2>2, <2>9, <2>10, TreeTouches
  <2>12. points \subseteq all
    BY <2>10, <2>11 DEF JoinsPins
  <2>13. QED
    BY <2>1, <2>5, <2>6, <2>7, <2>8, <2>12 DEF GuideOf
<1>3. QED
  BY <1>1, <1>2

(* What is written are the guides of the trees. *)
WriteInv == phase = "done" => guides = [n \in Nets |-> write(tree[n].root, tree[n].pairs)]

(* Every action keeps it so. *)
LEMMA WriteStep == RouteInv /\ WriteInv /\ [Next]_vars => WriteInv'
<1> SUFFICES ASSUME RouteInv, WriteInv, [Next]_vars
             PROVE  WriteInv'
  OBVIOUS
<1>1. work # Idle => phase = "route"
  BY DEF RouteInv, NetsInv
<1>2. CASE RipUp \/ Prepare \/ RoutePin \/ CommitNet \/ MarkOverflow \/ Apply
  <2>1. phase' # "done"
    BY <1>1, <1>2 DEF RipUp, Prepare, RoutePin, CommitNet, MarkOverflow, Apply
  <2>2. QED
    BY <2>1 DEF WriteInv
<1>3. CASE Write
  <2>1. guides' = [n \in Nets |-> write(tree[n].root, tree[n].pairs)] /\ UNCHANGED <<problem, tree>>
    BY <1>3 DEF Write
  <2>2. Nets' = Nets
    BY <2>1 DEF Nets
  <2>3. QED
    BY <2>1, <2>2 DEF WriteInv
<1>4. CASE UNCHANGED vars
  <2>1. UNCHANGED <<problem, tree, guides, phase>>
    BY <1>4 DEF vars
  <2>2. Nets' = Nets
    BY <2>1 DEF Nets
  <2>3. QED
    BY <2>1, <2>2 DEF WriteInv
<1>5. QED
  BY <1>2, <1>3, <1>4 DEF Next, Finished

(* The property says the same. *)
LEMMA WriteImplies == HostInv /\ WriteInv => GuidesTouch
<1> SUFFICES ASSUME HostInv, WriteInv, phase = "done", NEW n \in Nets
             PROVE  /\ Touching(guides[n], tree[n].root) = UNION {Spans(g) : g \in guides[n]}
                    /\ selectAccessPoints(problem.nets[n].pins)
                         \subseteq UNION {Spans(g) : g \in guides[n]}
  BY DEF GuidesTouch
<1>1. guides[n] = write(tree[n].root, tree[n].pairs)
  BY DEF WriteInv
<1>2. GuideOf(tree[n], Accesses(n))
  BY GuidesMeet DEF HostInv
<1>3. QED
  BY <1>1, <1>2 DEF GuideOf, Covered, Accesses

(* The guides of every net, as they are written, touch one another and     *)
(* hold its pins: write names every layer a via passes, and the tree of    *)
(* the host joins the pins.                                                *)
THEOREM WrittenGuidesTouch == Spec => []GuidesTouch
<1>1. Init => RouteInv /\ HostInv /\ WriteInv
  BY RouteInit, HostInit, Zenon DEF Init, WriteInv
<1>2. RouteInv /\ HostInv /\ WriteInv /\ [Next]_vars => RouteInv' /\ HostInv' /\ WriteInv'
  BY RouteStep, HostStep, WriteStep
<1>3. HostInv /\ WriteInv => GuidesTouch
  BY WriteImplies
<1>4. QED
  BY <1>1, <1>2, <1>3, PTL DEF Spec
=============================================================================

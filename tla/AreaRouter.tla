---------------------------- MODULE AreaRouter -----------------------------
(***************************************************************************)
(* GlobalRouter::route_multi: the three routing stages of one area.        *)
(*   Stage 1 routes every net, stage 2 rips up and reroutes, with detours, *)
(* the nets that overflow.  Both run batch after batch; the nets of a      *)
(* batch run concurrently and add their trees to the shared demands        *)
(* without a lock (`demand += d', a load and a store).                     *)
(*   Stage 3 rips up all the nets that still overflow and maze routes them *)
(* one after the other on a 2D cost view kept beside the demands.          *)
(*                                                                         *)
(* A batch is what BatchScheduler promises (ConflictFree), and a batch's   *)
(* runJobsMT is what ParallelFor promises: all of its jobs, in any         *)
(* interleaving, before it returns.  Which tree a net gets (the costs of   *)
(* PatternRoute and MazeRoute decide) is any of a set of candidates.  The  *)
(* updates of a tree are made pair by pair in preorder, those of one pair  *)
(* in any order.                                                           *)
(***************************************************************************)
EXTENDS GridGraph

CONSTANTS Nets,
          boundingBox,    \* boundingBox[n]: [lx, hx, ly, hy]
          PatternTrees,   \* the trees stage 1 can give a net,
          DetourTrees,    \* stage 2,
          MazeTrees,      \* and stage 3
          Capacities,     \* the capacities the edges can have
          NoTree          \* a null routingTree

InBox(c, b) == c[1] \in b.lx .. b.hx /\ c[2] \in b.ly .. b.hy
Overlap(b, c) == b.lx <= c.hx /\ c.lx <= b.hx /\ b.ly <= c.hy /\ c.ly <= b.hy
Trees(n) == PatternTrees[n] \cup DetourTrees[n] \cup MazeTrees[n]

ASSUME AreaAssumption ==
  /\ IsFiniteSet(Nets)
  /\ \A n \in Nets : \A t \in Trees(n) :
       /\ t # NoTree
       /\ DOMAIN t \subseteq Nat /\ IsFiniteSet(DOMAIN t)
       /\ \A k \in DOMAIN t : Legal(t[k])
  /\ \A n \in Nets : boundingBox[n] \in [lx : Int, hx : Int, ly : Int, hy : Int]
  /\ Capacities \subseteq [Edges -> Int]

(* Without detours a tree stays in the net's bounding box: Steiner points  *)
(* lie on the grid of the pins, L-shapes between them.                     *)
ASSUME PatternInBox ==
  \A n \in Nets : \A t \in PatternTrees[n] : \A k \in DOMAIN t :
    InBox(t[k].u.c, boundingBox[n]) /\ InBox(t[k].v.c, boundingBox[n])

VARIABLES
  pc,            \* the stage
  netIndices,    \* the nets of the stage
  pending,       \* those of them no batch (or loop iteration) has taken yet
  batch,         \* the nets of the batch being routed
  jobPc,         \* where the job of each net is
  todo,          \* the updates its commitTree still has to make
  updating,      \* the update it is in the middle of, if any
  reg,           \* the demand it loaded for that update
  tree,          \* each net's routingTree
  demand,        \* the demands of the edges
  capacity,      \* their capacities
  wireCostView,  \* stage 3's view
  contended      \* history: edges that two jobs were updating at once

jobs == <<jobPc, todo, updating, reg>>
vars == <<pc, netIndices, pending, batch, jobs, tree, demand, capacity,
          wireCostView, contended>>

Init ==
  /\ pc = "stage1"
  /\ netIndices = Nets
  /\ pending = Nets
  /\ batch = {}
  /\ jobPc = [n \in Nets |-> "idle"]
  /\ todo = [n \in Nets |-> {}]
  /\ updating = [n \in Nets |-> {}]
  /\ reg = [n \in Nets |-> 0]
  /\ tree = [n \in Nets |-> NoTree]
  /\ demand = [e \in Edges |-> 0]
  /\ capacity \in Capacities
  /\ wireCostView = [v \in ViewCells |-> 0]
  /\ contended = {}
----------------------------------------------------------------------------
(* The loop over the batches of stages 1 and 2. *)
PickAnyBatch ==    \* mutant: a batch of nets that meet
  /\ pc \in {"stage1", "stage2"} /\ batch = {} /\ pending # {}
  /\ \E b \in (SUBSET pending) \ {{}} :
       /\ batch' = b
       /\ pending' = pending \ b
       /\ jobPc' = [n \in Nets |-> IF n \in b THEN "todo" ELSE "idle"]
  /\ UNCHANGED <<pc, netIndices, todo, updating, reg, tree, demand, capacity,
                 wireCostView, contended>>

PickBatch ==
  /\ pc \in {"stage1", "stage2"} /\ batch = {} /\ pending # {}
  /\ \E b \in (SUBSET pending) \ {{}} :
       /\ \A m, n \in b : m # n => ~Overlap(boundingBox[m], boundingBox[n])
       /\ batch' = b
       /\ pending' = pending \ b
       /\ jobPc' = [n \in Nets |-> IF n \in b THEN "todo" ELSE "idle"]
  /\ UNCHANGED <<pc, netIndices, todo, updating, reg, tree, demand, capacity,
                 wireCostView, contended>>

BatchJoinedByStage ==    \* mutant: waits for all the nets of the stage
  /\ batch # {} /\ \A n \in netIndices : jobPc[n] = "done"
  /\ batch' = {}
  /\ jobPc' = [n \in Nets |-> "idle"]
  /\ UNCHANGED <<pc, netIndices, pending, todo, updating, reg, tree, demand, capacity,
                 wireCostView, contended>>

BatchJoined ==
  /\ batch # {} /\ \A n \in batch : jobPc[n] = "done"
  /\ batch' = {}
  /\ jobPc' = [n \in Nets |-> "idle"]
  /\ UNCHANGED <<pc, netIndices, pending, todo, updating, reg, tree, demand, capacity,
                 wireCostView, contended>>

(* A job of stage 2 first takes the old tree out of the demands. *)
RipUp(n) ==
  /\ pc = "stage2" /\ n \in batch /\ jobPc[n] = "todo"
  /\ jobPc' = [jobPc EXCEPT ![n] = "ripup"]
  /\ todo' = [todo EXCEPT ![n] = Commits(tree[n])]
  /\ UNCHANGED <<pc, netIndices, pending, batch, updating, reg, tree, demand, capacity,
                 wireCostView, contended>>

(* PatternRoute::run chooses the tree, which is then committed. *)
Run(n, trees) ==
  /\ \E t \in trees :
       /\ tree' = [tree EXCEPT ![n] = t]
       /\ todo' = [todo EXCEPT ![n] = Commits(t)]
  /\ jobPc' = [jobPc EXCEPT ![n] = "commit"]
  /\ UNCHANGED <<pc, netIndices, pending, batch, updating, reg, demand, capacity,
                 wireCostView, contended>>

RunPattern(n) ==
  /\ pc = "stage1" /\ n \in batch /\ jobPc[n] = "todo"
  /\ Run(n, PatternTrees[n])

RunDetoursEarly(n) ==    \* mutant: the old tree is replaced while it is ripped up
  /\ pc = "stage2" /\ n \in batch /\ jobPc[n] = "ripup" /\ updating[n] = {}
  /\ Run(n, DetourTrees[n])

RunDetours(n) ==
  /\ pc = "stage2" /\ n \in batch /\ jobPc[n] = "ripup" /\ todo[n] = {}
  /\ Run(n, DetourTrees[n])

(* demand += d, without a lock: a load, then a store. *)
Load(n) ==
  /\ n \in batch /\ jobPc[n] \in {"ripup", "commit"} /\ updating[n] = {}
  /\ \E u \in todo[n] :
       /\ \A w \in todo[n] : u[1] <= w[1]
       /\ updating' = [updating EXCEPT ![n] = {u}]
       /\ reg' = [reg EXCEPT ![n] = demand[u[2]]]
       /\ contended' = contended \cup
            {e \in {u[2]} : \E m \in Nets \ {n} : \E w \in updating[m] : w[2] = e}
  /\ UNCHANGED <<pc, netIndices, pending, batch, jobPc, todo, tree, demand, capacity,
                 wireCostView>>

Store(n) ==
  /\ n \in batch
  /\ \E u \in updating[n] :
       LET d == CommitDemand(tree[n], u)
       IN  /\ demand' = [demand EXCEPT ![u[2]] =
                           IF jobPc[n] = "ripup" THEN reg[n] - d ELSE reg[n] + d]
           /\ todo' = [todo EXCEPT ![n] = @ \ {u}]
  /\ updating' = [updating EXCEPT ![n] = {}]
  /\ UNCHANGED <<pc, netIndices, pending, batch, jobPc, reg, tree, capacity,
                 wireCostView, contended>>

JobDone(n) ==
  /\ n \in batch /\ jobPc[n] = "commit" /\ todo[n] = {}
  /\ jobPc' = [jobPc EXCEPT ![n] = "done"]
  /\ UNCHANGED <<pc, netIndices, pending, batch, todo, updating, reg, tree, demand,
                 capacity, wireCostView, contended>>

Job(n) ==
  RunPattern(n) \/ RipUp(n) \/ RunDetours(n) \/ Load(n) \/ Store(n) \/ JobDone(n)
----------------------------------------------------------------------------
(* The checks between the stages look at every net, not only at the nets   *)
(* of the stage: rerouting one net can make another one overflow.          *)
OverflowsAmongListed ==    \* mutant: only the nets of the stage are checked
  {n \in netIndices : checkOverflow(capacity, demand, tree[n])}

Overflows == {n \in Nets : checkOverflow(capacity, demand, tree[n])}

Recheck(next) ==
  /\ netIndices' = Overflows
  /\ pending' = Overflows
  /\ pc' = IF Overflows = {} THEN "done" ELSE next
  /\ UNCHANGED <<batch, jobs, tree, demand, capacity, wireCostView, contended>>

CheckPatternsEarly ==    \* mutant: nets without a tree yet are skipped
  /\ pc = "stage1" /\ batch = {}
  /\ LET listed == {n \in Nets : tree[n] # NoTree /\ checkOverflow(capacity, demand, tree[n])}
     IN  /\ netIndices' = listed
         /\ pending' = listed
         /\ pc' = IF listed = {} THEN "done" ELSE "stage2"
  /\ UNCHANGED <<batch, jobs, tree, demand, capacity, wireCostView, contended>>

CheckPatterns ==
  /\ pc = "stage1" /\ batch = {} /\ pending = {}
  /\ Recheck("stage2")

CheckDetours ==
  /\ pc = "stage2" /\ batch = {} /\ pending = {}
  /\ Recheck("ripup")

(* Stage 3, on one thread. *)
RipUpForMaze(n) ==
  /\ pc = "ripup" /\ n \in pending
  /\ demand' = RipUpTree(demand, tree[n])
  /\ pending' = pending \ {n}
  /\ UNCHANGED <<pc, netIndices, batch, jobs, tree, capacity, wireCostView, contended>>

ExtractView ==
  /\ pc = "ripup" /\ pending = {}
  /\ wireCostView' = extractWireCostView(demand)
  /\ pending' = netIndices
  /\ pc' = "maze"
  /\ UNCHANGED <<netIndices, batch, jobs, tree, demand, capacity, contended>>

MazeRouteWithoutUpdate(n) ==    \* mutant: the view is not updated
  /\ pc = "maze" /\ n \in pending
  /\ \E t \in MazeTrees[n] :
       /\ tree' = [tree EXCEPT ![n] = t]
       /\ demand' = Commit(demand, t)
  /\ pending' = pending \ {n}
  /\ UNCHANGED <<pc, netIndices, batch, jobs, capacity, wireCostView, contended>>

MazeRoute(n) ==
  /\ pc = "maze" /\ n \in pending
  /\ \E t \in MazeTrees[n] :
       /\ tree' = [tree EXCEPT ![n] = t]
       /\ demand' = Commit(demand, t)
       /\ wireCostView' = updateWireCostView(wireCostView, Commit(demand, t), t)
  /\ pending' = pending \ {n}
  /\ UNCHANGED <<pc, netIndices, batch, jobs, capacity, contended>>

CheckMaze ==
  /\ pc = "maze" /\ pending = {}
  /\ netIndices' = Overflows
  /\ pc' = "done"
  /\ UNCHANGED <<pending, batch, jobs, tree, demand, capacity, wireCostView, contended>>

Step ==
  \/ PickBatch \/ BatchJoined \/ (\E n \in Nets : Job(n))
  \/ CheckPatterns \/ CheckDetours
  \/ (\E n \in Nets : RipUpForMaze(n)) \/ ExtractView
  \/ (\E n \in Nets : MazeRoute(n)) \/ CheckMaze

Returned == pc = "done" /\ UNCHANGED vars

Next == Step \/ Returned

(* The area's thread and the threads of its pool keep running. *)
Spec == Init /\ [][Next]_vars /\ WF_vars(Step)
----------------------------------------------------------------------------
ControlTypeOK ==
  /\ pc \in {"stage1", "stage2", "ripup", "maze", "done"}
  /\ netIndices \subseteq Nets
  /\ pending \subseteq netIndices
  /\ batch \subseteq netIndices \ pending
  /\ jobPc \in [Nets -> {"idle", "todo", "ripup", "commit", "done"}]
  /\ todo \in [Nets -> SUBSET (Nat \X Edges)]
  /\ updating \in [Nets -> SUBSET (Nat \X Edges)]
  /\ tree \in [Nets -> {NoTree} \cup UNION {Trees(n) : n \in Nets}]
  /\ contended \subseteq Edges

(* Once stage 1 is over every net has a routing tree, so no later commit   *)
(* or rip-up follows a null one (preorder would), and checkOverflow, which *)
(* counts a null tree as one that fits, passes over no unrouted net.       *)
EveryNetRouted == pc # "stage1" => \A n \in Nets : tree[n] # NoTree

(* The part of its tree a net has in the demands. *)
RippedUp(n) ==
  \/ pc = "ripup" /\ n \in netIndices \ pending
  \/ pc = "maze" /\ n \in pending
Committed(n) ==
  IF jobPc[n] = "commit" THEN Commits(tree[n]) \ todo[n]
  ELSE IF jobPc[n] = "ripup" THEN todo[n]
  ELSE IF tree[n] = NoTree \/ RippedUp(n) THEN {}
  ELSE Commits(tree[n])
Share(n, e) ==
  LET us == {u \in Committed(n) : u[2] = e}
  IN  SumFunction([u \in us |-> CommitDemand(tree[n], u)])
TrueDemand(e) == SumFunction([n \in Nets |-> Share(n, e)])

(* At every moment the demand of an edge is what the trees committed so    *)
(* far take of it, unless two jobs have updated it at once.                *)
DemandExact == \A e \in Edges \ contended : demand[e] = TrueDemand(e)

(* The bounding boxes keep concurrent jobs apart in stage 1: no wire is    *)
(* ever updated together with anything else, and two vias only on an edge  *)
(* that joins the boxes of their nets.                                     *)
Joins(e, b, c) ==
  \E p, q \in Ends(e) : p # q /\ InBox(p, b) /\ InBox(q, c)
StageOneRaces ==
  pc = "stage1" =>
    \A m, n \in Nets : m # n =>
      \A u \in updating[m], w \in updating[n] : u[2] = w[2] =>
        /\ IsVia(tree[m][u[1]]) /\ IsVia(tree[n][w[1]])
        /\ Joins(u[2], boundingBox[m], boundingBox[n])

(* A net that is not handed to the next stage, or not reported in the end, *)
(* has all its wires on edges whose committed trees fit.                   *)
JustChecked ==
  \/ pc \in {"stage2", "ripup"} /\ batch = {} /\ pending = netIndices
  \/ pc = "done"
UnlistedNetsFit ==
  JustChecked =>
    \A n \in Nets \ netIndices : \A k \in DOMAIN tree[n] : IsWire(tree[n][k]) =>
      \A e \in WireEdges(tree[n][k]) \ contended : TrueDemand(e) <= capacity[e]

(* Each maze search sees the demands as they are. *)
ViewFresh ==
  pc = "maze" => wireCostView = extractWireCostView(demand)

(* The three stages end. *)
Terminates == <>(pc = "done")

(* The check left commented out after stage 2: demands recomputed from the *)
(* trees are the demands on the edges (wrong_demand_num is 0).             *)
NoWrongDemand ==
  pc = "ripup" /\ pending = netIndices =>
    \A e \in Edges : demand[e] = TrueDemand(e)
=============================================================================

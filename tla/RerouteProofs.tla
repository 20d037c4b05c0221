---------------------------- MODULE RerouteProofs ----------------------------
(***************************************************************************)
(* Proofs about the two stages of route_multi that route nets again.       *)
(*                                                                         *)
(* Part 1: MazeSearch (stage 3), for every graph that SparseGraph::init    *)
(* can hand over: the search never runs out of solutions before it has all *)
(* pins, each pin it finds is a nearest one to the tree built so far, and  *)
(* getSteinerTree makes one tree of straight edges of the paths.           *)
(*                                                                         *)
(* A pin found at cost 0 would not be pushed again, so the search would    *)
(* not go on from it.  That this never happens is what the last two parts  *)
(* of IInv are for.  NearInv is for the second result: minCosts, cut off   *)
(* at the least cost in the queue, is 0 on the tree and grows along no     *)
(* edge by more than the edge costs, so no walk from the tree is cheaper.  *)
(* TreeInv is for the third: every path is a branch of new nodes, as its   *)
(* first vertex at cost 0 is the first on the tree.  Taking out the vias   *)
(* at pins and the nodes inside straight lines then keeps a tree, and no   *)
(* run turns back on itself, as a vertex has one neighbour on each side.   *)
(*                                                                         *)
(* All this holds for graphs as GraphsAssumption has them.  The end of the *)
(* part shows that every graph SparseGraph::init builds is one.            *)
(*                                                                         *)
(* Part 2: DetourShift (stage 2), for trunks of any shape.  AlignedInv     *)
(* counts the positions of the window around the trunk.                    *)
(***************************************************************************)
EXTENDS MazeSearch, DetourShift, SparseGraph, FiniteSums, TLAPS

-----------------------------------------------------------------------------
(* Part 1: MazeSearch.                                                     *)

(* Paths run through detached pins nowhere but at their head. *)
PinsAhead ==
  \A s \in queue : \A i \in DOMAIN s : i > 1 => s[i].vertex \notin Detached

(* A vertex reached is still to be expanded, or its neighbours are reached. *)
Frontier ==
  \A v \in DOMAIN minCosts :
    \/ \E s \in queue : s[1].vertex = v /\ s[1].cost = minCosts[v]
    \/ v \notin Detached /\ NextVertices(v) \subseteq DOMAIN minCosts

(* No detached pin is at the point of a solution that costs nothing. *)
FreeOfPins ==
  \A s \in queue : s[1].cost = 0 => \A q \in Detached : ~SamePoint(s[1].vertex, q)

(* A detached pin passed by on the other plane is in the queue at less.    *)
PassedPins ==
  \A s \in queue : \A i \in Fresh(s) : \A q \in Detached :
    i > 1 /\ SamePoint(s[i].vertex, q) =>
      q = s[1].vertex \/ \E o \in queue : o[1].vertex = q /\ o[1].cost < s[1].cost

IInv ==
  /\ graph \in Graphs
  /\ TypeOK /\ graph.start \in DOMAIN minCosts /\ IsFiniteSet(visited)
  /\ PinsAhead /\ Frontier /\ FreeOfPins /\ PassedPins
----------------------------------------------------------------------------
(* What a pushed solution looks like. *)
LEMMA Pushed ==
  ASSUME NEW E, NEW h \in E, NEW p \in Seq(E)
  PROVE  /\ <<h>> \o p \in Seq(E) /\ Len(<<h>> \o p) = Len(p) + 1
         /\ (<<h>> \o p)[1] = h
         /\ \A i \in 2 .. Len(p) + 1 : (<<h>> \o p)[i] = p[i - 1]
OBVIOUS

(* What is left of a solution after its first i entries. *)
LEMMA Rest ==
  ASSUME NEW E, NEW s \in Seq(E), NEW i \in 1 .. Len(s)
  PROVE  /\ SubSeq(s, i + 1, Len(s)) \in Seq(E)
         /\ Len(SubSeq(s, i + 1, Len(s))) = Len(s) - i
         /\ \A j \in 1 .. Len(s) - i : SubSeq(s, i + 1, Len(s))[j] = s[i + j]
OBVIOUS

(* A solution in the queue is a chain of vertices reached. *)
LEMMA QueueType ==
  ASSUME TypeOK, NEW s \in queue
  PROVE  /\ s \in Chains /\ Len(s) \in Nat /\ Len(s) > 0 /\ DOMAIN s = 1 .. Len(s)
         /\ 1 \in DOMAIN s
         /\ \A i \in DOMAIN s : /\ s[i].vertex \in graph.vertices /\ s[i].cost \in Nat
                                /\ s[i].vertex \in DOMAIN minCosts
                                /\ s[i] \in [vertex : graph.vertices, cost : Nat]
         /\ s[Len(s)].vertex = graph.start
<1> DEFINE E == [vertex : graph.vertices, cost : Nat]
<1>1. s \in Seq(E) /\ Len(s) > 0
  BY DEF TypeOK, IsSolution, Chains
<1>2. Len(s) \in Nat /\ DOMAIN s = 1 .. Len(s) /\ \A i \in DOMAIN s : s[i] \in E
  <2> HIDE DEF E
  <2>1. QED
    BY <1>1
<1>3. s \in Chains
  BY <1>1 DEF Chains
<1>4. (\A i \in DOMAIN s : s[i].vertex \in DOMAIN minCosts) /\ s[Len(s)].vertex = graph.start
  BY DEF TypeOK, IsSolution
<1>5. \A i \in DOMAIN s : s[i].vertex \in graph.vertices /\ s[i].cost \in Nat
  BY <1>2
<1>6. 1 \in DOMAIN s
  BY <1>1, <1>2
<1> HIDE DEF E
<1>7. QED
  BY <1>1, <1>2, <1>3, <1>4, <1>5, <1>6 DEF E

(* The queue after a pin is found: the rest of it, and the new sources. *)
LEMMA FoundQueue ==
  ASSUME TypeOK, NEW s \in queue, Found(s)
  PROVE  /\ queue \ {s} \subseteq queue'
         /\ \A i \in Fresh(s) : \E t \in queue' : t[1].vertex = s[i].vertex /\ t[1].cost = 0
         /\ \A t \in queue' \ (queue \ {s}) : \E i \in Fresh(s) :
              /\ t \in Chains /\ Len(t) = Len(s) - i + 1
              /\ t[1].vertex = s[i].vertex /\ t[1].cost = 0
              /\ \A j \in 2 .. Len(t) : t[j] = s[i + j - 1]
<1> DEFINE New(i) == Solution(s[i].vertex, 0, SubSeq(s, i + 1, Len(s)))
<1>1. queue' = (queue \ {s}) \cup {New(i) : i \in Fresh(s)}
  BY DEF Found
<1>2. ASSUME NEW i \in Fresh(s)
      PROVE  /\ New(i) \in Chains /\ Len(New(i)) = Len(s) - i + 1
             /\ New(i)[1].vertex = s[i].vertex /\ New(i)[1].cost = 0
             /\ \A j \in 2 .. Len(New(i)) : New(i)[j] = s[i + j - 1]
  <2> DEFINE h == [vertex |-> s[i].vertex, cost |-> 0]
             p == SubSeq(s, i + 1, Len(s))
             E == [vertex : graph.vertices, cost : Nat]
  <2>1. i \in 1 .. Len(s) /\ s \in Seq(E) /\ h \in E
    BY QueueType DEF Fresh, Chains
  <2>2. p \in Seq(E) /\ Len(p) = Len(s) - i /\ \A j \in 1 .. Len(s) - i : p[j] = s[i + j]
    BY <2>1, Rest
  <2>3. /\ New(i) \in Seq(E) /\ Len(New(i)) = Len(p) + 1 /\ New(i)[1] = h
        /\ \A j \in 2 .. Len(p) + 1 : New(i)[j] = p[j - 1]
    <3>1. New(i) = <<h>> \o p
      BY DEF Solution
    <3> HIDE DEF h, p, E, New
    <3>2. h \in E /\ p \in Seq(E)
      BY <2>1, <2>2
    <3>3. QED
      BY <3>1, <3>2, Pushed
  <2>4. h.vertex = s[i].vertex /\ h.cost = 0
    OBVIOUS
  <2> HIDE DEF h, p, New
  <2>5. \A j \in 2 .. Len(New(i)) : New(i)[j] = s[i + j - 1]
    <3>1. TAKE j \in 2 .. Len(New(i))
    <3>2. Len(s) \in Nat /\ j \in 2 .. Len(p) + 1 /\ j - 1 \in 1 .. Len(s) - i /\ i + (j - 1) = i + j - 1
      BY <2>1, <2>2, <2>3, QueueType
    <3>3. QED
      BY <3>2, <2>2, <2>3
  <2>6. QED
    BY <2>1, <2>2, <2>3, <2>4, <2>5 DEF Chains
<1> HIDE DEF New
<1>3. QED
  BY <1>1, <1>2

(* The queue after an expansion: the rest of it, and the better neighbours. *)
LEMMA ExpandQueue ==
  ASSUME TypeOK, NEW s \in queue, Expand(s)
  PROVE  /\ queue \ {s} \subseteq queue'
         /\ \A v \in Better(s) : \E t \in queue' : t[1].vertex = v /\ t[1].cost = NextCost(s, v)
         /\ \A t \in queue' \ (queue \ {s}) : \E v \in Better(s) :
              /\ t \in Chains /\ Len(t) = Len(s) + 1
              /\ t[1].vertex = v /\ t[1].cost = NextCost(s, v)
              /\ \A j \in 2 .. Len(t) : t[j] = s[j - 1]
         /\ \A v \in Better(s) : /\ v \in graph.vertices /\ NextCost(s, v) \in Nat
                                 /\ <<s[1].vertex, v>> \in DOMAIN graph.cost
<1> DEFINE New(v) == Solution(v, NextCost(s, v), s)
           E == [vertex : graph.vertices, cost : Nat]
<1>1. queue' = (queue \ {s}) \cup {New(v) : v \in Better(s)}
  BY DEF Expand
<1>2. ASSUME NEW v \in Better(s)
      PROVE  /\ v \in graph.vertices /\ NextCost(s, v) \in Nat
             /\ <<s[1].vertex, v>> \in DOMAIN graph.cost
             /\ New(v) \in Chains /\ Len(New(v)) = Len(s) + 1
             /\ New(v)[1].vertex = v /\ New(v)[1].cost = NextCost(s, v)
             /\ \A j \in 2 .. Len(New(v)) : New(v)[j] = s[j - 1]
  <2>1. v \in graph.vertices /\ <<s[1].vertex, v>> \in DOMAIN graph.cost
    BY DEF Better, NextVertices
  <2>2. NextCost(s, v) \in Nat
    <3>1. graph.cost[<<s[1].vertex, v>>] \in Nat
      BY <2>1 DEF TypeOK, IsGraph
    <3>2. s[1].cost \in Nat
      BY QueueType
    <3>3. QED
      BY <3>1, <3>2 DEF NextCost
  <2> DEFINE h == [vertex |-> v, cost |-> NextCost(s, v)]
  <2>3. h \in E /\ s \in Seq(E) /\ h.vertex = v /\ h.cost = NextCost(s, v)
    BY <2>1, <2>2, QueueType DEF Chains
  <2>4. New(v) = <<h>> \o s
    BY DEF Solution
  <2> HIDE DEF h, New
  <2>5. /\ New(v) \in Seq(E) /\ Len(New(v)) = Len(s) + 1 /\ New(v)[1] = h
        /\ \A j \in 2 .. Len(s) + 1 : New(v)[j] = s[j - 1]
    <3> HIDE DEF E
    <3>1. QED
      BY <2>3, <2>4, Pushed
  <2>6. QED
    BY <2>1, <2>2, <2>3, <2>5 DEF Chains
<1> HIDE DEF New
<1>3. queue \ {s} \subseteq queue' /\ \A v \in Better(s) : New(v) \in queue'
  BY <1>1
<1>4. \A t \in queue' \ (queue \ {s}) : \E v \in Better(s) : t = New(v)
  BY <1>1
<1>5. \A v \in Better(s) : \E t \in queue' : t[1].vertex = v /\ t[1].cost = NextCost(s, v)
  BY <1>2, <1>3
<1>6. ASSUME NEW t \in queue' \ (queue \ {s})
      PROVE  \E v \in Better(s) :
               /\ t \in Chains /\ Len(t) = Len(s) + 1
               /\ t[1].vertex = v /\ t[1].cost = NextCost(s, v)
               /\ \A j \in 2 .. Len(t) : t[j] = s[j - 1]
  <2>1. PICK v \in Better(s) : t = New(v)
    BY <1>4
  <2>2. QED
    BY <1>2, <2>1
<1>7. \A v \in Better(s) : /\ v \in graph.vertices /\ NextCost(s, v) \in Nat
                            /\ <<s[1].vertex, v>> \in DOMAIN graph.cost
  BY <1>2
<1>8. QED
  BY <1>3, <1>5, <1>6, <1>7
----------------------------------------------------------------------------
(* A vertex at the point of a pin has a free edge to it, and is no pin. *)
LEMMA PinPoint ==
  ASSUME TypeOK, NEW q \in graph.pins, NEW u \in graph.vertices, SamePoint(u, q), u # q
  PROVE  u \notin graph.pins /\ <<u, q>> \in DOMAIN graph.cost /\ graph.cost[<<u, q>>] = 0
BY DEF TypeOK, IsGraph

(* An edge that costs nothing is a via at a pin. *)
LEMMA FreeEdge ==
  ASSUME TypeOK, NEW u, NEW v, <<u, v>> \in DOMAIN graph.cost, graph.cost[<<u, v>>] = 0
  PROVE  SamePoint(u, v) /\ (u \in graph.pins \/ v \in graph.pins)
<1>1. /\ SamePoint(<<u, v>>[1], <<u, v>>[2])
      /\ <<u, v>>[1] \in graph.pins \/ <<u, v>>[2] \in graph.pins
  BY DEF TypeOK, IsGraph
<1>2. QED
  BY <1>1

(* Chains depend on the graph alone. *)
LEMMA ChainsKept ==
  ASSUME UNCHANGED graph, DOMAIN minCosts \subseteq DOMAIN minCosts', NEW t, IsSolution(t)
  PROVE  IsSolution(t)'
BY DEF IsSolution, Chains

(* Found: the pin costs something, so its path's vertices are pushed. *)
LEMMA FoundPinCosts ==
  ASSUME IInv, NEW s \in queue, Found(s)
  PROVE  /\ s[1].vertex \in Detached /\ Detached' = Detached \ {s[1].vertex}
         /\ \A o \in queue : s[1].cost <= o[1].cost
         /\ 1 \in Fresh(s)
<1>1. s[1].vertex \in Detached /\ Detached' = Detached \ {s[1].vertex}
  BY DEF Found, Detached
<1>2. \A o \in queue : s[1].cost <= o[1].cost
  BY DEF Found, Cheapest
<1>3. SamePoint(s[1].vertex, s[1].vertex)
  BY DEF SamePoint
<1>4. s[1].cost # 0
  BY <1>1, <1>3 DEF IInv, FreeOfPins
<1>5. 1 \in Fresh(s)
  <2>1. \A j \in 1 .. 1 : j = 1
    OBVIOUS
  <2>2. QED
    BY <1>4, <2>1, QueueType DEF IInv, Fresh
<1>6. QED
  BY <1>1, <1>2, <1>5

(* A pin is found: the state stays well typed. *)
LEMMA FoundTypes ==
  ASSUME IInv, NEW s \in queue, Found(s)
  PROVE  TypeOK' /\ IsFiniteSet(visited')
<1> USE DEF IInv
<1>1. /\ UNCHANGED graph /\ DOMAIN minCosts' = DOMAIN minCosts
      /\ \A v \in DOMAIN minCosts' : minCosts'[v] \in Nat
  BY DEF Found, TypeOK
<1>2. ASSUME NEW t \in queue'
      PROVE  IsSolution(t)'
  <2>1. CASE t \in queue \ {s}
    BY <1>1, <2>1, ChainsKept DEF TypeOK
  <2>2. CASE t \notin queue \ {s}
    <3>1. PICK i \in Fresh(s) : /\ t \in Chains /\ Len(t) = Len(s) - i + 1
                               /\ t[1].vertex = s[i].vertex /\ t[1].cost = 0
                               /\ \A j \in 2 .. Len(t) : t[j] = s[i + j - 1]
      BY <2>2, FoundQueue
    <3>2. /\ i \in 1 .. Len(s) /\ Len(s) \in Nat /\ DOMAIN s = 1 .. Len(s)
          /\ \A k \in 1 .. Len(s) : s[k].vertex \in DOMAIN minCosts
          /\ s[Len(s)].vertex = graph.start
      BY QueueType DEF Fresh
    <3>3. DOMAIN t = 1 .. Len(t) /\ Len(t) > 0
      BY <3>1, <3>2 DEF Chains
    <3>4. \A j \in DOMAIN t : t[j].vertex \in DOMAIN minCosts
      <4>1. TAKE j \in DOMAIN t
      <4>2. CASE j = 1
        BY <3>1, <3>2, <4>2
      <4>3. CASE j # 1
        <5>1. j \in 2 .. Len(t) /\ i + j - 1 \in 1 .. Len(s)
          BY <3>1, <3>2, <3>3, <4>3
        <5>2. QED
          BY <3>1, <3>2, <5>1
      <4>4. QED
        BY <4>2, <4>3
    <3>5. t[Len(t)].vertex = graph.start
      <4>1. CASE Len(t) = 1
        <5>1. i = Len(s)
          <6>1. Len(s) - i + 1 = 1 /\ i \in 1 .. Len(s) /\ Len(s) \in Nat
            BY <3>1, <3>2, <4>1
          <6>2. QED
            BY <6>1
        <5>2. QED
          BY <3>1, <3>2, <4>1, <5>1
      <4>2. CASE Len(t) # 1
        <5>1. Len(t) \in 2 .. Len(t) /\ i + Len(t) - 1 = Len(s)
          BY <3>1, <3>2, <3>3, <4>2
        <5>2. t[Len(t)] = s[i + Len(t) - 1]
          BY <3>1, <5>1
        <5>3. QED
          BY <3>2, <5>1, <5>2
      <4>3. QED
        BY <4>1, <4>2
    <3>6. IsSolution(t)
      BY <3>1, <3>3, <3>4, <3>5 DEF IsSolution
    <3>7. QED
      BY <1>1, <3>6, ChainsKept
  <2>3. QED
    BY <2>1, <2>2
<1>3. IsSolution(s) /\ s \in Chains
  BY DEF TypeOK, IsSolution
<1>4. /\ solutions' \in Seq(Chains) /\ Len(solutions') = Len(solutions) + 1
      /\ \A i \in DOMAIN solutions' : solutions'[i] = s \/ (i \in DOMAIN solutions /\ solutions'[i] = solutions[i])
  <2> HIDE DEF IInv
  <2> DEFINE C == Chains
  <2>1. solutions \in Seq(C) /\ solutions' = Append(solutions, s)
    BY DEF Found, TypeOK, IInv
  <2>2. s \in C
    BY <1>3
  <2> HIDE DEF C
  <2>3. solutions' \in Seq(C) /\ Len(solutions') = Len(solutions) + 1
    BY <2>1, <2>2
  <2>4. ASSUME NEW i \in DOMAIN solutions'
        PROVE  solutions'[i] = s \/ (i \in DOMAIN solutions /\ solutions'[i] = solutions[i])
    <3>1. i \in 1 .. Len(solutions) + 1 /\ DOMAIN solutions = 1 .. Len(solutions) /\ Len(solutions) \in Nat
      BY <2>1, <2>3
    <3>2. CASE i = Len(solutions) + 1
      BY <2>1, <2>2, <3>1, <3>2
    <3>3. CASE i # Len(solutions) + 1
      <4>1. i \in 1 .. Len(solutions)
        BY <3>1, <3>3
      <4>2. Append(solutions, s)[i] = solutions[i]
        BY <2>1, <4>1
      <4>3. QED
        BY <2>1, <3>1, <4>1, <4>2
    <3>4. QED
      BY <3>2, <3>3
  <2>5. QED
    BY <2>3, <2>4 DEF C
<1>5. (\A i \in DOMAIN solutions : IsSolution(solutions[i]))'
  <2>1. ASSUME NEW i \in DOMAIN solutions'
        PROVE  IsSolution(solutions[i])'
    <3>1. PICK t : t = solutions'[i]
      OBVIOUS
    <3>2. IsSolution(t)
      BY <1>3, <1>4, <3>1 DEF TypeOK
    <3>3. IsSolution(t)'
      BY <1>1, <3>2, ChainsKept
    <3>4. QED
      BY <3>1, <3>3 DEF IsSolution
  <2>2. QED
    BY <2>1
<1>6. /\ visited' \subseteq graph.pins /\ graph.start \in visited' /\ IsFiniteSet(visited')
      /\ Cardinality(visited') = Cardinality(visited) + 1
  BY FS_AddElement DEF Found, TypeOK, Detached
<1>7. Len(solutions') = Cardinality(visited') - 1
  <2>1. Cardinality(visited) \in Nat /\ Len(solutions) = Cardinality(visited) - 1
    BY FS_CardinalityType DEF TypeOK
  <2>2. QED
    BY <1>4, <1>6, <2>1
<1>8. solutions' \in Seq(Chains)'
  BY <1>1, <1>4 DEF Chains
<1>9. IsGraph(graph)' /\ DOMAIN minCosts' \subseteq graph'.vertices /\ graph'.pins = graph.pins /\ graph'.start = graph.start
  BY <1>1 DEF TypeOK
<1> HIDE DEF IInv
<1>10. QED
  BY <1>1, <1>2, <1>5, <1>6, <1>7, <1>8, <1>9 DEF TypeOK

(* A pin is found: the invariant is kept. *)
LEMMA FoundKeeps ==
  ASSUME IInv, NEW s \in queue, Found(s)
  PROVE  IInv'
<1> USE DEF IInv
<1>1. /\ UNCHANGED graph /\ DOMAIN minCosts' = DOMAIN minCosts
      /\ \A v \in DOMAIN minCosts : minCosts'[v] = IF \E i \in Fresh(s) : s[i].vertex = v THEN 0 ELSE minCosts[v]
  BY DEF Found
<1>2. /\ s[1].vertex \in Detached /\ Detached' = Detached \ {s[1].vertex}
      /\ \A o \in queue : s[1].cost <= o[1].cost
      /\ 1 \in Fresh(s)
  BY FoundPinCosts
<1>3. TypeOK' /\ IsFiniteSet(visited')
  BY FoundTypes
<1>4. ASSUME NEW t \in queue' \ (queue \ {s})
      PROVE  \E i \in Fresh(s) :
               /\ i \in 1 .. Len(s) /\ Len(s) \in Nat /\ DOMAIN s = 1 .. Len(s)
               /\ DOMAIN t = 1 .. Len(t) /\ Len(t) = Len(s) - i + 1
               /\ t[1].vertex = s[i].vertex /\ t[1].cost = 0
               /\ \A j \in 2 .. Len(t) : t[j] = s[i + j - 1]
  <2>1. PICK i \in Fresh(s) : /\ t \in Chains /\ Len(t) = Len(s) - i + 1
                             /\ t[1].vertex = s[i].vertex /\ t[1].cost = 0
                             /\ \A j \in 2 .. Len(t) : t[j] = s[i + j - 1]
    BY FoundQueue
  <2>2. i \in 1 .. Len(s) /\ Len(s) \in Nat /\ DOMAIN s = 1 .. Len(s)
    BY QueueType DEF Fresh
  <2>3. DOMAIN t = 1 .. Len(t)
    BY <2>1 DEF Chains
  <2>4. QED
    BY <2>1, <2>2, <2>3
<1>5. PinsAhead'
  <2>1. ASSUME NEW t \in queue', NEW j \in DOMAIN t, j > 1
        PROVE  t[j].vertex \notin Detached
    <3>1. CASE t \in queue \ {s}
      BY <2>1, <3>1 DEF PinsAhead
    <3>2. CASE t \notin queue \ {s}
      <4>1. PICK i \in Fresh(s) :
               /\ i \in 1 .. Len(s) /\ Len(s) \in Nat /\ DOMAIN s = 1 .. Len(s)
               /\ DOMAIN t = 1 .. Len(t) /\ Len(t) = Len(s) - i + 1
               /\ \A k \in 2 .. Len(t) : t[k] = s[i + k - 1]
        BY <1>4, <3>2
      <4>2. j \in 2 .. Len(t) /\ i + j - 1 \in DOMAIN s /\ i + j - 1 > 1
        BY <2>1, <4>1
      <4>3. QED
        BY <4>1, <4>2 DEF PinsAhead
    <3>3. QED
      BY <3>1, <3>2
  <2>2. QED
    BY <1>2, <2>1 DEF PinsAhead
<1>6. Frontier'
  <2>1. ASSUME NEW v \in DOMAIN minCosts
        PROVE  \/ \E t \in queue' : t[1].vertex = v /\ t[1].cost = minCosts'[v]
               \/ v \notin Detached' /\ NextVertices(v)' \subseteq DOMAIN minCosts'
    <3>1. CASE \E i \in Fresh(s) : s[i].vertex = v
      BY <1>1, <3>1, FoundQueue
    <3>2. CASE ~\E i \in Fresh(s) : s[i].vertex = v
      <4>1. v # s[1].vertex /\ minCosts'[v] = minCosts[v]
        BY <1>1, <1>2, <3>2
      <4>2. NextVertices(v)' = NextVertices(v)
        BY <1>1 DEF NextVertices
      <4>3. queue \ {s} \subseteq queue'
        BY FoundQueue
      <4>4. QED
        BY <1>1, <1>2, <4>1, <4>2, <4>3 DEF Frontier
    <3>3. QED
      BY <3>1, <3>2
  <2>2. QED
    BY <1>1, <2>1 DEF Frontier
<1>7. FreeOfPins'
  <2>1. ASSUME NEW t \in queue', t[1].cost = 0, NEW q \in Detached \ {s[1].vertex}
        PROVE  ~SamePoint(t[1].vertex, q)
    <3>1. CASE t \in queue \ {s}
      BY <2>1, <3>1 DEF FreeOfPins
    <3>2. CASE t \notin queue \ {s}
      <4>1. PICK i \in Fresh(s) : t[1].vertex = s[i].vertex /\ i \in 1 .. Len(s) /\ Len(s) \in Nat
        BY <1>4, <3>2
      <4>2. CASE i = 1
        <5>1. s[1].vertex \in graph.pins /\ q \in graph.pins /\ graph.pins \subseteq graph.vertices
          BY <1>2 DEF Detached, TypeOK, IsGraph
        <5>2. QED
          BY <4>1, <4>2, <5>1, PinPoint
      <4>3. CASE i > 1
        <5>1. \A o \in queue : ~(o[1].cost < s[1].cost)
          <6>1. \A o \in queue : o[1].cost \in Nat
            BY QueueType
          <6>2. QED
            BY <1>2, <6>1
        <5>2. QED
          BY <4>1, <4>3, <5>1 DEF PassedPins
      <4>4. QED
        BY <4>1, <4>2, <4>3
    <3>3. QED
      BY <3>1, <3>2
  <2>2. QED
    BY <1>2, <2>1 DEF FreeOfPins
<1>8. PassedPins'
  <2>1. ASSUME NEW t \in queue', NEW i \in Fresh(t), NEW q \in Detached \ {s[1].vertex},
               i > 1, SamePoint(t[i].vertex, q)
        PROVE  q = t[1].vertex \/ \E o \in queue' : o[1].vertex = q /\ o[1].cost < t[1].cost
    <3>1. CASE t \in queue \ {s}
      BY <2>1, <3>1, FoundQueue DEF PassedPins
    <3>2. CASE t \notin queue \ {s}
      <4>1. t[1].cost = 0 /\ 1 \in 1 .. i
        <5>1. \E k \in Fresh(s) : t[1].cost = 0 /\ DOMAIN t = 1 .. Len(t) /\ Len(t) = Len(s) - k + 1
                                   /\ k \in 1 .. Len(s) /\ Len(s) \in Nat
          BY <1>4, <3>2
        <5>2. i \in DOMAIN t
          BY DEF Fresh
        <5>3. QED
          BY <5>1, <5>2
      <4>2. QED
        BY <4>1 DEF Fresh
    <3>3. QED
      BY <3>1, <3>2
  <2>2. Fresh(s)' = Fresh(s)
    BY DEF Fresh
  <2>3. QED
    BY <1>2, <2>1 DEF PassedPins, Fresh
<1>9. QED
  BY <1>1, <1>3, <1>5, <1>6, <1>7, <1>8

(* A solution is dropped: the invariant is kept. *)
LEMMA PrunedKeeps ==
  ASSUME IInv, NEW s \in queue, Pruned(s)
  PROVE  IInv'
<1> USE DEF IInv
<1>1. /\ UNCHANGED <<graph, minCosts, visited, solutions>> /\ queue' = queue \ {s}
      /\ s[1].vertex \notin Detached /\ Detached' = Detached
      /\ s[1].cost > minCosts[s[1].vertex]
  BY DEF Pruned, Detached
<1>2. TypeOK'
  BY <1>1 DEF TypeOK, IsSolution, Chains
<1>3. PinsAhead'
  BY <1>1 DEF PinsAhead
<1>4. Frontier'
  <2>1. s[1].cost # minCosts[s[1].vertex]
    <3>1. s[1].cost \in Nat /\ minCosts[s[1].vertex] \in Nat
      BY QueueType DEF TypeOK
    <3>2. QED
      BY <1>1, <3>1
  <2>2. ASSUME NEW v \in DOMAIN minCosts
        PROVE  \/ \E t \in queue' : t[1].vertex = v /\ t[1].cost = minCosts[v]
               \/ v \notin Detached /\ NextVertices(v) \subseteq DOMAIN minCosts
    BY <1>1, <2>1 DEF Frontier
  <2>3. \A v : NextVertices(v)' = NextVertices(v)
    BY <1>1 DEF NextVertices
  <2>4. QED
    BY <1>1, <2>2, <2>3 DEF Frontier
<1>5. FreeOfPins'
  BY <1>1 DEF FreeOfPins
<1>6. PassedPins'
  BY <1>1 DEF PassedPins, Fresh
<1>7. QED
  BY <1>1, <1>2, <1>3, <1>4, <1>5, <1>6

(* A solution is expanded: the invariant is kept. *)
LEMMA ExpandKeeps ==
  ASSUME IInv, NEW s \in queue, Expand(s)
  PROVE  IInv'
<1> USE DEF IInv
<1> DEFINE u == s[1].vertex
<1>1. /\ UNCHANGED <<graph, visited, solutions>> /\ Detached' = Detached
      /\ u \notin Detached /\ \A o \in queue : s[1].cost <= o[1].cost
      /\ DOMAIN minCosts' = DOMAIN minCosts \cup Better(s)
      /\ \A v \in DOMAIN minCosts' :
           minCosts'[v] = IF v \in Better(s) THEN NextCost(s, v) ELSE minCosts[v]
  BY DEF Expand, Detached, Cheapest
<1>2. /\ queue \ {s} \subseteq queue'
      /\ \A v \in Better(s) : \E t \in queue' : t[1].vertex = v /\ t[1].cost = NextCost(s, v)
      /\ \A v \in Better(s) : /\ v \in graph.vertices /\ NextCost(s, v) \in Nat
                              /\ <<u, v>> \in DOMAIN graph.cost
  BY ExpandQueue
<1>3. /\ Len(s) \in Nat /\ Len(s) > 0 /\ DOMAIN s = 1 .. Len(s)
      /\ u \in graph.vertices /\ u \in DOMAIN minCosts /\ s[1].cost \in Nat
      /\ \A i \in DOMAIN s : s[i].vertex \in DOMAIN minCosts /\ s[i].cost \in Nat
      /\ s[Len(s)].vertex = graph.start
  BY QueueType
<1>4. ASSUME NEW t \in queue' \ (queue \ {s})
      PROVE  \E v \in Better(s) :
               /\ t \in Chains /\ DOMAIN t = 1 .. Len(t) /\ Len(t) = Len(s) + 1
               /\ t[1].vertex = v /\ t[1].cost = NextCost(s, v)
               /\ \A j \in 2 .. Len(t) : t[j] = s[j - 1] /\ j - 1 \in DOMAIN s
  <2>1. PICK v \in Better(s) : /\ t \in Chains /\ Len(t) = Len(s) + 1
                              /\ t[1].vertex = v /\ t[1].cost = NextCost(s, v)
                              /\ \A j \in 2 .. Len(t) : t[j] = s[j - 1]
    BY ExpandQueue
  <2>2. DOMAIN t = 1 .. Len(t)
    BY <2>1 DEF Chains
  <2>3. \A j \in 2 .. Len(t) : j - 1 \in DOMAIN s
    BY <1>3, <2>1
  <2>4. QED
    BY <2>1, <2>2, <2>3
<1>5. TypeOK'
  <2>1. ASSUME NEW t \in queue'
        PROVE  IsSolution(t)'
    <3>1. CASE t \in queue \ {s}
      BY <1>1, <3>1, ChainsKept DEF TypeOK
    <3>2. CASE t \notin queue \ {s}
      <4>1. PICK v \in Better(s) :
               /\ t \in Chains /\ DOMAIN t = 1 .. Len(t) /\ Len(t) = Len(s) + 1
               /\ t[1].vertex = v
               /\ \A j \in 2 .. Len(t) : t[j] = s[j - 1] /\ j - 1 \in DOMAIN s
        BY <1>4, <3>2
      <4>2. \A j \in DOMAIN t : t[j].vertex \in DOMAIN minCosts'
        <5>1. TAKE j \in DOMAIN t
        <5>2. j = 1 \/ j \in 2 .. Len(t)
          BY <1>3, <4>1
        <5>3. QED
          BY <1>1, <1>3, <4>1, <5>2
      <4>3. t[Len(t)].vertex = graph.start /\ Len(t) > 0
        <5>1. Len(t) \in 2 .. Len(t) /\ Len(t) - 1 = Len(s)
          BY <1>3, <4>1
        <5>2. QED
          BY <1>3, <4>1, <5>1
      <4>4. Chains' = Chains
        BY <1>1 DEF Chains
      <4>5. QED
        BY <1>1, <4>1, <4>2, <4>3, <4>4 DEF IsSolution
    <3>3. QED
      BY <3>1, <3>2
  <2>2. (\A i \in DOMAIN solutions : IsSolution(solutions[i]))'
    BY <1>1 DEF TypeOK, IsSolution, Chains
  <2>3. Chains' = Chains
    BY <1>1 DEF Chains
  <2>4. \A v \in DOMAIN minCosts' : v \in graph.vertices /\ minCosts'[v] \in Nat
    BY <1>1, <1>2 DEF TypeOK
  <2>5. QED
    BY <1>1, <2>1, <2>2, <2>3, <2>4 DEF TypeOK
<1>6. PinsAhead'
  <2>1. ASSUME NEW t \in queue', NEW j \in DOMAIN t, j > 1
        PROVE  t[j].vertex \notin Detached
    <3>1. CASE t \in queue \ {s}
      BY <2>1, <3>1 DEF PinsAhead
    <3>2. CASE t \notin queue \ {s}
      <4>1. j \in 2 .. Len(t) /\ t[j] = s[j - 1] /\ j - 1 \in DOMAIN s
        <5>1. DOMAIN t = 1 .. Len(t) /\ Len(t) = Len(s) + 1
          BY <1>4, <3>2
        <5>2. j \in 2 .. Len(t)
          BY <1>3, <2>1, <5>1
        <5>3. QED
          BY <1>4, <3>2, <5>2
      <4>2. j - 1 = 1 \/ j - 1 > 1
        BY <4>1
      <4>3. QED
        BY <1>1, <4>1, <4>2 DEF PinsAhead
    <3>3. QED
      BY <3>1, <3>2
  <2>2. QED
    BY <1>1, <2>1 DEF PinsAhead
<1>7. NextVertices(u) \subseteq DOMAIN minCosts'
  <2>1. ASSUME NEW v \in NextVertices(u), v \notin DOMAIN minCosts
        PROVE  v \in Better(s)
    <3>1. ~(Len(s) > 1 /\ v = s[2].vertex)
      BY <1>3, <2>1
    <3>2. QED
      BY <2>1, <3>1 DEF Better
  <2>2. QED
    BY <1>1, <2>1
<1>8. Frontier'
  <2>1. \A v : NextVertices(v)' = NextVertices(v)
    BY <1>1 DEF NextVertices
  <2>2. ASSUME NEW v \in DOMAIN minCosts'
        PROVE  \/ \E t \in queue' : t[1].vertex = v /\ t[1].cost = minCosts'[v]
               \/ v \notin Detached /\ NextVertices(v) \subseteq DOMAIN minCosts'
    <3>1. CASE v \in Better(s)
      BY <1>1, <1>2, <3>1
    <3>2. CASE v \notin Better(s) /\ v = u
      BY <1>1, <1>7, <3>2
    <3>3. CASE v \notin Better(s) /\ v # u
      BY <1>1, <1>2, <3>3 DEF Frontier
    <3>4. QED
      BY <3>1, <3>2, <3>3
  <2>3. QED
    BY <1>1, <2>1, <2>2 DEF Frontier
<1>9. FreeOfPins'
  <2>1. ASSUME NEW t \in queue', t[1].cost = 0, NEW q \in Detached
        PROVE  ~SamePoint(t[1].vertex, q)
    <3>1. CASE t \in queue \ {s}
      BY <2>1, <3>1 DEF FreeOfPins
    <3>2. CASE t \notin queue \ {s}
      <4>1. PICK v \in Better(s) : t[1].vertex = v /\ t[1].cost = NextCost(s, v)
        BY <1>4, <3>2
      <4>2. <<u, v>> \in DOMAIN graph.cost /\ graph.cost[<<u, v>>] \in Nat
        BY <1>2, <4>1 DEF TypeOK, IsGraph
      <4>3. s[1].cost = 0 /\ graph.cost[<<u, v>>] = 0
        BY <1>3, <2>1, <4>1, <4>2 DEF NextCost
      <4>4. SamePoint(u, v)
        BY <4>2, <4>3, FreeEdge
      <4>5. ~SamePoint(u, q)
        BY <4>3 DEF FreeOfPins
      <4>6. QED
        BY <4>1, <4>4, <4>5 DEF SamePoint
    <3>3. QED
      BY <3>1, <3>2
  <2>2. QED
    BY <1>1, <2>1 DEF FreeOfPins
<1>10. ASSUME NEW q \in Detached, SamePoint(u, q), NEW v \in Better(s), v # q
       PROVE  \E o \in queue' : o[1].vertex = q /\ o[1].cost < NextCost(s, v)
  <2>1. u # q /\ q \in graph.pins
    BY <1>1 DEF Detached
  <2>2. u \notin graph.pins /\ <<u, q>> \in DOMAIN graph.cost /\ graph.cost[<<u, q>>] = 0
    BY <1>3, <1>10, <2>1, PinPoint
  <2>3. NextCost(s, v) > s[1].cost
    <3>1. <<u, v>> \in DOMAIN graph.cost /\ graph.cost[<<u, v>>] \in Nat
      BY <1>2, <1>10 DEF TypeOK, IsGraph
    <3>2. graph.cost[<<u, v>>] # 0
      <4>1. SUFFICES ASSUME graph.cost[<<u, v>>] = 0
                     PROVE  FALSE
        OBVIOUS
      <4>2. SamePoint(u, v) /\ v \in graph.pins /\ v \in graph.vertices
        BY <1>2, <1>10, <2>2, <3>1, <4>1, FreeEdge
      <4>3. SamePoint(v, q)
        BY <1>10, <4>2 DEF SamePoint
      <4>4. QED
        BY <1>10, <2>1, <4>2, <4>3, PinPoint
    <3>3. QED
      BY <1>3, <3>1, <3>2 DEF NextCost
  <2>4. CASE q \in Better(s)
    <3>1. NextCost(s, q) = s[1].cost
      BY <1>3, <2>2 DEF NextCost
    <3>2. QED
      BY <1>2, <2>3, <2>4, <3>1
  <2>5. CASE q \notin Better(s)
    <3>1. q \in NextVertices(u)
      BY <2>1, <2>2 DEF NextVertices, TypeOK, IsGraph
    <3>2. ~(Len(s) > 1 /\ q = s[2].vertex)
      <4>1. Len(s) > 1 => 2 \in DOMAIN s
        BY <1>3
      <4>2. QED
        BY <4>1 DEF PinsAhead
    <3>3. q \in DOMAIN minCosts /\ ~(NextCost(s, q) < minCosts[q])
      BY <2>5, <3>1, <3>2 DEF Better
    <3>4. NextCost(s, q) = s[1].cost /\ minCosts[q] \in Nat
      BY <1>3, <2>2, <3>3 DEF NextCost, TypeOK
    <3>5. PICK o \in queue : o[1].vertex = q /\ o[1].cost = minCosts[q]
      BY <3>3 DEF Frontier
    <3>6. o \in queue'
      BY <1>2, <2>1, <3>5
    <3>7. o[1].cost < NextCost(s, v)
      <4>1. s[1].cost \in Nat /\ NextCost(s, v) \in Nat
        BY <1>2, <1>3, <1>10
      <4>2. ~(s[1].cost < minCosts[q])
        BY <3>3, <3>4
      <4>3. QED
        BY <2>3, <3>4, <3>5, <4>1, <4>2
    <3>8. QED
      BY <3>5, <3>6, <3>7
  <2>6. QED
    BY <2>4, <2>5
<1>11. PassedPins'
  <2>1. ASSUME NEW t \in queue', NEW i \in Fresh(t), NEW q \in Detached,
               i > 1, SamePoint(t[i].vertex, q)
        PROVE  q = t[1].vertex \/ \E o \in queue' : o[1].vertex = q /\ o[1].cost < t[1].cost
    <3>1. CASE t \in queue \ {s}
      <4>1. ASSUME NEW o \in queue, o[1].vertex = q
            PROVE  o \in queue'
        BY <1>1, <1>2, <4>1
      <4>2. QED
        BY <2>1, <3>1, <4>1 DEF PassedPins
    <3>2. CASE t \notin queue \ {s}
      <4>1. PICK v \in Better(s) :
               /\ t \in Chains /\ DOMAIN t = 1 .. Len(t) /\ Len(t) = Len(s) + 1
               /\ t[1].vertex = v /\ t[1].cost = NextCost(s, v)
               /\ \A j \in 2 .. Len(t) : t[j] = s[j - 1] /\ j - 1 \in DOMAIN s
        BY <1>4, <3>2
      <4>2. i \in 2 .. Len(t) /\ \A j \in 1 .. i : t[j].cost # 0
        BY <1>3, <2>1, <4>1 DEF Fresh
      <4>3. CASE i = 2
        BY <1>10, <2>1, <4>1, <4>2, <4>3
      <4>4. CASE i > 2
        <5>1. i - 1 \in DOMAIN s /\ t[i] = s[i - 1] /\ i - 1 > 1
          BY <4>1, <4>2, <4>4
        <5>2. i - 1 \in Fresh(s)
          <6>1. ASSUME NEW j \in 1 .. i - 1
                PROVE  s[j].cost # 0
            <7>1. j + 1 \in 2 .. Len(t) /\ j + 1 \in 1 .. i /\ (j + 1) - 1 = j
              BY <4>2, <6>1
            <7>2. QED
              BY <4>1, <4>2, <7>1
          <6>2. QED
            BY <5>1, <6>1 DEF Fresh
        <5>3. \E o \in queue : o[1].cost < s[1].cost
          BY <1>1, <2>1, <5>1, <5>2 DEF PassedPins
        <5>4. \A o \in queue : o[1].cost \in Nat
          BY QueueType
        <5>5. QED
          BY <1>1, <1>3, <5>3, <5>4
      <4>5. QED
        BY <4>2, <4>3, <4>4
    <3>3. QED
      BY <3>1, <3>2
  <2>2. QED
    BY <1>1, <2>1 DEF PassedPins, Fresh
<1>12. QED
  BY <1>1, <1>5, <1>6, <1>8, <1>9, <1>11
----------------------------------------------------------------------------
(* The invariant of the search is inductive. *)
LEMMA InitEstablishes ==
  Init => IInv
<1> SUFFICES ASSUME Init
             PROVE  IInv
  OBVIOUS
<1> DEFINE h == [vertex |-> graph.start, cost |-> 0]
           E == [vertex : graph.vertices, cost : Nat]
<1>1. graph \in Graphs /\ IsGraph(graph)
  BY GraphsAssumption DEF Init
<1>2. queue = {<<h>>} /\ DOMAIN minCosts = {graph.start} /\ minCosts[graph.start] = 0
      /\ visited = {graph.start} /\ solutions = << >>
  <2>1. <<h>> \o << >> = <<h>>
    OBVIOUS
  <2>2. QED
    BY <2>1 DEF Init, Solution
<1>3. h \in E /\ graph.start \in graph.pins /\ graph.start \in graph.vertices
  BY <1>1 DEF IsGraph
<1>4. <<h>> \in Seq(E) /\ Len(<<h>>) = 1 /\ DOMAIN <<h>> = {1} /\ <<h>>[1] = h
  <2> HIDE DEF h, E
  <2>1. QED
    BY <1>3
<1>5. IsSolution(<<h>>)
  BY <1>2, <1>4 DEF IsSolution, Chains
<1>6. TypeOK /\ IsFiniteSet(visited)
  <2>1. Cardinality(visited) = 1 /\ IsFiniteSet(visited)
    BY <1>2, FS_Singleton
  <2>2. solutions \in Seq(Chains) /\ Len(solutions) = 0 /\ DOMAIN solutions = {}
    BY <1>2
  <2>3. QED
    BY <1>1, <1>2, <1>3, <1>5, <2>1, <2>2 DEF TypeOK
<1>7. PinsAhead /\ PassedPins
  BY <1>2, <1>4 DEF PinsAhead, PassedPins, Fresh
<1>8. Frontier
  BY <1>2, <1>4 DEF Frontier
<1>9. FreeOfPins
  <2>1. ASSUME NEW q \in Detached
        PROVE  ~SamePoint(graph.start, q)
    <3>1. q \in graph.pins /\ q # graph.start
      BY <1>2 DEF Detached
    <3>2. QED
      BY <1>3, <1>6, <3>1, PinPoint
  <2>2. QED
    BY <1>2, <1>4, <2>1 DEF FreeOfPins
<1>10. QED
  BY <1>1, <1>2, <1>6, <1>7, <1>8, <1>9 DEF IInv

(* Every step of the search keeps it. *)
LEMMA NextKeeps ==
  IInv /\ [Next]_vars => IInv'
<1> SUFFICES ASSUME IInv, [Next]_vars
             PROVE  IInv'
  OBVIOUS
<1>1. ASSUME NEW s \in queue, Found(s) \/ Pruned(s) \/ Expand(s)
      PROVE  IInv'
  BY <1>1, FoundKeeps, PrunedKeeps, ExpandKeeps
<1>2. CASE UNCHANGED vars
  <2>1. TypeOK'
    BY <1>2 DEF vars, IInv, TypeOK, IsSolution, Chains
  <2>2. PinsAhead' /\ FreeOfPins'
    BY <1>2 DEF vars, IInv, PinsAhead, FreeOfPins, Detached
  <2>3. Frontier'
    BY <1>2 DEF vars, IInv, Frontier, Detached, NextVertices
  <2>4. PassedPins'
    BY <1>2 DEF vars, IInv, PassedPins, Detached, Fresh
  <2>5. QED
    BY <1>2, <2>1, <2>2, <2>3, <2>4 DEF vars, IInv
<1>3. QED
  BY <1>1, <1>2 DEF Next, Search, Returned

(* The inductive invariant of the search. *)
THEOREM Invariant == Spec => []IInv
<1>1. QED
  BY InitEstablishes, NextKeeps, PTL DEF Spec

(* The state of the search is well typed: every solution is a path of      *)
(* vertices reached that ends in the start, and one is kept per pin.       *)
THEOREM TypeCorrect == Spec => []TypeOK
<1>1. IInv => TypeOK
  BY DEF IInv
<1>2. QED
  BY <1>1, Invariant, PTL

(* run never takes from an empty queue, on any connected graph.            *)
THEOREM QueueLasts == Spec => []NeverStuck
<1>1. IInv => NeverStuck
  <2> SUFFICES ASSUME IInv, queue = {}
               PROVE  Detached = {}
    BY DEF NeverStuck
  <2>1. /\ DOMAIN minCosts \in SUBSET graph.vertices /\ graph.start \in DOMAIN minCosts
        /\ \A v \in DOMAIN minCosts : v \notin Detached /\ NextVertices(v) \subseteq DOMAIN minCosts
    BY DEF IInv, TypeOK, Frontier
  <2>2. ASSUME NEW e \in DOMAIN graph.cost, e[1] \in DOMAIN minCosts
        PROVE  e[2] \in DOMAIN minCosts
    <3>1. e = <<e[1], e[2]>> /\ e[2] \in graph.vertices
      BY DEF IInv, TypeOK, IsGraph
    <3>2. QED
      BY <2>1, <2>2, <3>1 DEF NextVertices
  <2>3. DOMAIN minCosts = graph.vertices
    BY <2>1, <2>2, GraphsAssumption DEF IInv, IsConnected
  <2>4. QED
    BY <2>1, <2>3 DEF IInv, TypeOK, IsGraph, Detached
<1>2. QED
  BY <1>1, Invariant, PTL

----------------------------------------------------------------------------
(* The tree of the paths, and the recursion they are folded into it by.    *)
TreesOf(q, g, n) ==
  g = [t \in SUBSET (1 .. n) |->
         IF t = {} THEN NoTree ELSE Attach(g[t \ {Max(t)}], q[Max(t)])]

(* The greatest element of a set of positions that holds the last one. *)
LEMMA MaxIs ==
  ASSUME NEW n \in Nat, NEW t \in SUBSET (1 .. n), n \in t
  PROVE  Max(t) = n
<1>1. \A y \in t : n >= y
  OBVIOUS
<1>2. Max(t) \in t /\ \A y \in t : Max(t) >= y
  BY <1>1 DEF Max
<1>3. PICK k \in t : k = Max(t) /\ k >= n
  BY <1>2
<1>4. QED
  BY <1>3

(* It has a solution, and any two agree on the positions they share. *)
LEMMA TreesExist ==
  ASSUME NEW q, NEW n \in Nat
  PROVE  \E g : TreesOf(q, g, n)
<1> DEFINE F == {m \in Nat : \E g : TreesOf(q, g, m)}
<1>1. 0 \in F
  <2> DEFINE g == [t \in SUBSET (1 .. 0) |-> NoTree]
  <2>1. \A t \in SUBSET (1 .. 0) : t = {}
    OBVIOUS
  <2>2. TreesOf(q, g, 0)
    BY <2>1 DEF TreesOf
  <2>3. QED
    BY <2>2
<1>2. ASSUME NEW m \in Nat, m \in F
      PROVE  m + 1 \in F
  <2>1. PICK g : TreesOf(q, g, m)
    BY <1>2
  <2> DEFINE h == [t \in SUBSET (1 .. m + 1) |->
                     IF m + 1 \in t THEN Attach(g[t \ {m + 1}], q[m + 1]) ELSE g[t]]
             Grows(t) == IF t = {} THEN NoTree ELSE Attach(h[t \ {Max(t)}], q[Max(t)])
  <2>2. ASSUME NEW t \in SUBSET (1 .. m + 1), m + 1 \in t
        PROVE  h[t] = Grows(t)
    <3>1. Max(t) = m + 1 /\ t # {}
      BY <2>2, MaxIs
    <3>2. t \ {m + 1} \in SUBSET (1 .. m + 1) /\ m + 1 \notin t \ {m + 1}
      OBVIOUS
    <3>3. h[t \ {m + 1}] = g[t \ {m + 1}]
      BY <3>2
    <3>4. h[t] = Attach(g[t \ {m + 1}], q[m + 1])
      BY <2>2
    <3> HIDE DEF h
    <3>5. QED
      BY <3>1, <3>3, <3>4
  <2>3. ASSUME NEW t \in SUBSET (1 .. m + 1), m + 1 \notin t
        PROVE  h[t] = Grows(t)
    <3>1. t \in SUBSET (1 .. m)
      <4>1. \A i \in 1 .. m + 1 : i # m + 1 => i \in 1 .. m
        OBVIOUS
      <4>2. QED
        BY <2>3, <4>1
    <3>2. t \ {Max(t)} \in SUBSET (1 .. m + 1) /\ m + 1 \notin t \ {Max(t)}
      BY <2>3
    <3>3. h[t] = g[t] /\ h[t \ {Max(t)}] = g[t \ {Max(t)}]
      BY <2>3, <3>2
    <3>4. g[t] = IF t = {} THEN NoTree ELSE Attach(g[t \ {Max(t)}], q[Max(t)])
      BY <2>1, <3>1 DEF TreesOf
    <3> HIDE DEF h
    <3>5. QED
      BY <3>3, <3>4
  <2>4. h = [t \in SUBSET (1 .. m + 1) |-> Grows(t)]
    <3> DEFINE T == SUBSET (1 .. m + 1)
    <3>1. DOMAIN h = T /\ h = [t \in T |-> h[t]]
      OBVIOUS
    <3>2. \A t \in T : h[t] = Grows(t)
      BY <2>2, <2>3
    <3> HIDE DEF h, T
    <3>3. QED
      BY <3>1, <3>2 DEF T
  <2>5. TreesOf(q, h, m + 1)
    <3> HIDE DEF h
    <3>1. QED
      BY <2>4 DEF TreesOf
  <2>6. QED
    BY <2>5
<1>3. Nat \subseteq F
  <2> HIDE DEF F
  <2>1. QED
    BY <1>1, <1>2, GrowingNumbers
<1>4. QED
  BY <1>3

(* Two foldings over the same paths agree. *)
LEMMA TreesAgree ==
  ASSUME NEW q, NEW g, NEW n \in Nat, TreesOf(q, g, n),
         NEW r, NEW h, NEW m \in Nat, TreesOf(r, h, m),
         n <= m, \A i \in 1 .. n : q[i] = r[i]
  PROVE  g[1 .. n] = h[1 .. n]
<1> DEFINE F == {k \in Nat : k <= n => g[1 .. k] = h[1 .. k]}
<1>1. 0 \in F
  <2>1. 1 .. 0 = {} /\ {} \in SUBSET (1 .. n) /\ {} \in SUBSET (1 .. m)
    OBVIOUS
  <2>2. g[{}] = NoTree /\ h[{}] = NoTree
    BY <2>1 DEF TreesOf
  <2>3. QED
    BY <2>1, <2>2
<1>2. ASSUME NEW k \in Nat, k \in F
      PROVE  k + 1 \in F
  <2>1. SUFFICES ASSUME k + 1 <= n
                 PROVE  g[1 .. k + 1] = h[1 .. k + 1]
    OBVIOUS
  <2> DEFINE t == 1 .. k + 1
  <2>2. /\ t \in SUBSET (1 .. n) /\ t \in SUBSET (1 .. m) /\ t # {}
        /\ t \ {k + 1} = 1 .. k /\ k + 1 \in 1 .. n
    BY <2>1
  <2>3. Max(t) = k + 1
    BY MaxIs
  <2>4. g[1 .. k] = h[1 .. k] /\ q[k + 1] = r[k + 1]
    BY <1>2, <2>1, <2>2
  <2> HIDE DEF t
  <2>5. g[t] = Attach(g[t \ {Max(t)}], q[Max(t)]) /\ h[t] = Attach(h[t \ {Max(t)}], r[Max(t)])
    BY <2>2 DEF TreesOf
  <2>6. QED
    BY <2>2, <2>3, <2>4, <2>5 DEF t
<1>3. Nat \subseteq F
  <2> HIDE DEF F
  <2>1. QED
    BY <1>1, <1>2, GrowingNumbers
<1>4. QED
  BY <1>3

(* The fold is that solution. *)
LEMMA TreeOf ==
  ASSUME NEW q, NEW n \in Nat, DOMAIN q = 1 .. n
  PROVE  \E g : TreesOf(q, g, n) /\ FoldLeft(Attach, NoTree, q) = g[1 .. n]
<1> DEFINE iter == CHOOSE g : TreesOf(q, g, n)
<1>1. TreesOf(q, iter, n)
  BY TreesExist
<1>2. FoldLeft(Attach, NoTree, q) = iter[1 .. n]
  BY DEF FoldLeft, MapThenFoldSet, TreesOf
<1>3. QED
  BY <1>1, <1>2

(* A path more is attached to the tree of the others. *)
LEMMA PathAttached ==
  ASSUME NEW C, NEW q \in Seq(C), NEW s \in C
  PROVE  FoldLeft(Attach, NoTree, Append(q, s)) = Attach(FoldLeft(Attach, NoTree, q), s)
<1> DEFINE n == Len(q)
           r == Append(q, s)
<1>1. n \in Nat /\ DOMAIN q = 1 .. n /\ DOMAIN r = 1 .. n + 1 /\ r[n + 1] = s
      /\ \A i \in 1 .. n : q[i] = r[i]
  OBVIOUS
<1> HIDE DEF n, r
<1>2. PICK g : TreesOf(q, g, n) /\ FoldLeft(Attach, NoTree, q) = g[1 .. n]
  BY <1>1, TreeOf
<1>3. PICK h : TreesOf(r, h, n + 1) /\ FoldLeft(Attach, NoTree, r) = h[1 .. n + 1]
  BY <1>1, TreeOf
<1>4. g[1 .. n] = h[1 .. n]
  BY <1>1, <1>2, <1>3, TreesAgree
<1> DEFINE t == 1 .. n + 1
<1>5. t \in SUBSET (1 .. n + 1) /\ t # {} /\ t \ {n + 1} = 1 .. n
  <2>1. n \in Nat /\ n + 1 \in 1 .. n + 1
    BY <1>1
  <2>2. QED
    BY <2>1
<1>6. Max(t) = n + 1
  BY <1>1, MaxIs
<1> HIDE DEF t
<1>7. h[t] = Attach(h[t \ {Max(t)}], r[Max(t)])
  BY <1>3, <1>5 DEF TreesOf
<1>8. QED
  BY <1>1, <1>2, <1>3, <1>4, <1>5, <1>6, <1>7 DEF t, r

(* No path gives no tree. *)
LEMMA NoPathNoTree ==
  FoldLeft(Attach, NoTree, <<>>) = NoTree
<1>1. DOMAIN <<>> = 1 .. 0 /\ 1 .. 0 = {}
  OBVIOUS
<1>2. PICK g : TreesOf(<<>>, g, 0) /\ FoldLeft(Attach, NoTree, <<>>) = g[1 .. 0]
  BY <1>1, TreeOf
<1>3. g[{}] = NoTree
  BY <1>2 DEF TreesOf
<1>4. QED
  BY <1>1, <1>2, <1>3

----------------------------------------------------------------------------
(* The tree built so far, and the positions of a path before it meets it.  *)
Built == Paths.nodes \cup {graph.start}
Outside(s) == {i \in DOMAIN s : \A j \in 1 .. i : s[j].vertex \notin Built}

(* The tree is free to reach. *)
OnTree == \A v \in Built : v \in DOMAIN minCosts /\ minCosts[v] = 0

(* No path passes a vertex at less than it has been reached at. *)
AtLeast == \A s \in queue : \A i \in DOMAIN s : minCosts[s[i].vertex] <= s[i].cost

(* A vertex reached is still to be expanded, or no neighbour can be        *)
(* reached at less through it.                                             *)
Settled ==
  \A v \in DOMAIN minCosts :
    \/ \E s \in queue : s[1].vertex = v /\ s[1].cost = minCosts[v]
    \/ /\ v \notin Detached
       /\ \A w \in NextVertices(v) :
            w \in DOMAIN minCosts /\ minCosts[w] <= minCosts[v] + graph.cost[<<v, w>>]

(* The vertex a solution came from, which expanding it leaves out, cannot  *)
(* be reached at less through it.                                          *)
CameFrom == \A s \in queue : Len(s) > 1 => minCosts[s[2].vertex] <= s[1].cost

(* Outside the tree a path runs along edges at their cost, and through no  *)
(* vertex twice.                                                           *)
Exact ==
  \A s \in queue : \A i \in Outside(s) :
    /\ <<s[i + 1].vertex, s[i].vertex>> \in DOMAIN graph.cost
    /\ s[i].cost = s[i + 1].cost + graph.cost[<<s[i + 1].vertex, s[i].vertex>>]
    /\ \A j \in 1 .. i - 1 : s[i].cost <= s[j].cost /\ s[i].vertex # s[j].vertex

(* The start is in the tree, or only at the end of every path. *)
Rooted ==
  IF solutions = <<>> THEN \A s \in queue : \A i \in DOMAIN s : s[i].vertex = graph.start => i = Len(s)
  ELSE graph.start \in Paths.nodes

NearInv == OnTree /\ AtLeast /\ Settled /\ CameFrom /\ Exact /\ Rooted

(* A position outside the tree is not the last of its path. *)
LEMMA OutsideType ==
  ASSUME TypeOK, NEW s \in queue, NEW i \in Outside(s)
  PROVE  /\ i \in 1 .. Len(s) /\ Len(s) \in Nat /\ DOMAIN s = 1 .. Len(s)
         /\ i < Len(s) /\ i + 1 \in DOMAIN s
         /\ \A j \in 1 .. i : j \in Outside(s)
<1>1. /\ i \in 1 .. Len(s) /\ Len(s) \in Nat /\ DOMAIN s = 1 .. Len(s)
      /\ s[Len(s)].vertex = graph.start
  BY QueueType DEF Outside
<1>2. i # Len(s)
  <2>1. s[i].vertex \notin Built
    BY <1>1 DEF Outside
  <2>2. graph.start \in Built
    BY DEF Built
  <2>3. QED
    BY <1>1, <2>1, <2>2
<1>3. \A j \in 1 .. i : j \in Outside(s)
  BY <1>1 DEF Outside
<1>4. i < Len(s) /\ i + 1 \in 1 .. Len(s)
  <2>1. PICK n \in Nat : n = Len(s)
    BY <1>1
  <2>2. i \in 1 .. n /\ i # n
    BY <1>1, <1>2, <2>1
  <2>3. i < n /\ i + 1 \in 1 .. n
    BY <2>2
  <2>4. QED
    BY <2>1, <2>3
<1>5. QED
  BY <1>1, <1>3, <1>4

----------------------------------------------------------------------------
(* The least cost at which a vertex can be reached, up to c: no edge leads *)
(* below it while the queue holds nothing cheaper than c.                  *)
UpTo(c, v) == IF v \in DOMAIN minCosts /\ minCosts[v] < c THEN minCosts[v] ELSE c

(* No edge out of a settled vertex leads to less than its cost more. *)
LEMMA NoShortcut ==
  ASSUME TypeOK, Settled, NEW c \in Nat, \A o \in queue : c <= o[1].cost,
         NEW u, NEW v, <<u, v>> \in DOMAIN graph.cost
  PROVE  /\ graph.cost[<<u, v>>] \in Nat /\ u \in graph.vertices /\ v \in graph.vertices
         /\ UpTo(c, u) \in Nat /\ UpTo(c, v) \in Nat
         /\ UpTo(c, v) <= UpTo(c, u) + graph.cost[<<u, v>>]
<1>1. graph.cost[<<u, v>>] \in Nat /\ <<u, v>> \in graph.vertices \X graph.vertices
  BY DEF TypeOK, IsGraph
<1>2. \A w \in DOMAIN minCosts : minCosts[w] \in Nat
  BY DEF TypeOK
<1>3. UpTo(c, u) \in Nat /\ UpTo(c, v) \in Nat /\ UpTo(c, v) <= c
  BY <1>2 DEF UpTo
<1>4. CASE ~(u \in DOMAIN minCosts /\ minCosts[u] < c)
  <2>1. UpTo(c, u) = c
    BY <1>4 DEF UpTo
  <2>2. QED
    BY <1>1, <1>3, <2>1
<1>5. CASE u \in DOMAIN minCosts /\ minCosts[u] < c
  <2>1. ~\E o \in queue : o[1].vertex = u /\ o[1].cost = minCosts[u]
    <3>1. \A o \in queue : o[1].cost \in Nat
      BY QueueType
    <3>2. QED
      BY <1>2, <1>5, <3>1
  <2>2. v \in NextVertices(u)
    BY <1>1 DEF NextVertices
  <2>3. v \in DOMAIN minCosts /\ minCosts[v] <= minCosts[u] + graph.cost[<<u, v>>]
    BY <1>5, <2>1, <2>2 DEF Settled
  <2>4. UpTo(c, u) = minCosts[u] /\ UpTo(c, v) <= minCosts[v]
    BY <1>2, <1>5, <2>3 DEF UpTo
  <2>5. QED
    BY <1>1, <1>2, <1>3, <1>5, <2>3, <2>4
<1>6. QED
  BY <1>1, <1>3, <1>4, <1>5

(* A detached pin has not been reached at less than the queue holds. *)
LEMMA DetachedFar ==
  ASSUME TypeOK, Settled, NEW c \in Nat, \A o \in queue : c <= o[1].cost, NEW q \in Detached
  PROVE  UpTo(c, q) = c
<1>1. SUFFICES ASSUME q \in DOMAIN minCosts, minCosts[q] < c
               PROVE  FALSE
  BY DEF UpTo
<1>2. PICK o \in queue : o[1].vertex = q /\ o[1].cost = minCosts[q]
  BY <1>1 DEF Settled
<1>3. o[1].cost \in Nat /\ c <= o[1].cost
  BY QueueType
<1>4. QED
  BY <1>1, <1>2, <1>3

(* Every vertex of the tree has been reached at 0. *)
LEMMA TreeNear ==
  ASSUME OnTree, NEW c \in Nat, NEW v \in Built
  PROVE  UpTo(c, v) = 0
BY DEF OnTree, UpTo

(* The new part of a path that is found does not touch the tree: it would  *)
(* have been found at less.                                                *)
LEMMA FreshOutside ==
  ASSUME IInv, NearInv, NEW s \in queue, Found(s), NEW i \in Fresh(s)
  PROVE  i \in Outside(s)
<1> DEFINE c == s[1].cost
           P(k) == /\ \A j \in 1 .. k : s[j].vertex \notin Built
                   /\ UpTo(c, s[1].vertex) <= UpTo(c, s[k].vertex) + c - s[k].cost
           F == {k \in Nat : k + 1 <= i => P(k + 1)}
<1>1. /\ TypeOK /\ Settled /\ OnTree /\ Exact /\ c \in Nat
      /\ s[1].vertex \in Detached /\ \A o \in queue : c <= o[1].cost
      /\ c # 0 /\ UpTo(c, s[1].vertex) = c
  <2>1. TypeOK /\ Settled /\ OnTree /\ Exact /\ c \in Nat
    BY QueueType DEF IInv, NearInv
  <2>2. s[1].vertex \in Detached /\ (\A o \in queue : c <= o[1].cost) /\ 1 \in Fresh(s)
    BY FoundPinCosts
  <2>3. c # 0
    <3>1. 1 \in 1 .. 1
      OBVIOUS
    <3>2. QED
      BY <2>2, <3>1 DEF Fresh
  <2>4. UpTo(c, s[1].vertex) = c
    <3> HIDE DEF c
    <3>1. QED
      BY <2>1, <2>2, DetachedFar
  <2>5. QED
    BY <2>1, <2>2, <2>3, <2>4
<1>2. /\ i \in 1 .. Len(s) /\ Len(s) \in Nat /\ DOMAIN s = 1 .. Len(s)
      /\ \A j \in DOMAIN s : s[j].cost \in Nat /\ s[j].vertex \in graph.vertices
      /\ \A j \in 1 .. i : s[j].cost # 0
  BY <1>1, QueueType DEF Fresh
<1>3. 0 \in F
  <2>1. s[1].vertex \notin Built
    <3> HIDE DEF c
    <3>1. QED
      BY <1>1, TreeNear
  <2>2. UpTo(c, s[1].vertex) <= UpTo(c, s[1].vertex) + c - s[1].cost
    BY <1>1
  <2>3. \A j \in 1 .. 0 + 1 : j = 1
    OBVIOUS
  <2> HIDE DEF c
  <2>4. QED
    BY <2>1, <2>2, <2>3
<1>4. ASSUME NEW n \in Nat, n \in F
      PROVE  n + 1 \in F
  <2>1. SUFFICES ASSUME n + 2 <= i
                 PROVE  P(n + 2)
    BY <1>2
  <2> DEFINE k == n + 1
             w == graph.cost[<<s[k + 1].vertex, s[k].vertex>>]
  <2>2. P(k) /\ k \in 1 .. i /\ k + 1 \in 1 .. i /\ k \in DOMAIN s /\ k + 1 \in DOMAIN s /\ k + 1 = n + 2
    BY <1>2, <1>4, <2>1
  <2>3. k \in Outside(s)
    BY <2>2 DEF Outside
  <2>4. <<s[k + 1].vertex, s[k].vertex>> \in DOMAIN graph.cost /\ s[k].cost = s[k + 1].cost + w
    BY <1>1, <2>3 DEF Exact
  <2>5. /\ w \in Nat /\ UpTo(c, s[k].vertex) \in Nat /\ UpTo(c, s[k + 1].vertex) \in Nat
        /\ UpTo(c, s[k].vertex) <= UpTo(c, s[k + 1].vertex) + w
    <3> HIDE DEF c, k
    <3>1. QED
      BY <1>1, <2>4, NoShortcut
  <2>6. s[k].cost \in Nat /\ s[k + 1].cost \in Nat /\ s[k + 1].cost # 0
    BY <1>2, <2>2
  <2>7. UpTo(c, s[1].vertex) <= UpTo(c, s[k + 1].vertex) + c - s[k + 1].cost
    <3>1. UpTo(c, s[1].vertex) <= UpTo(c, s[k].vertex) + c - s[k].cost
      BY <2>2
    <3> HIDE DEF c, k, w, P
    <3>2. QED
      BY <1>1, <2>4, <2>5, <2>6, <3>1
  <2>8. s[k + 1].vertex \notin Built
    <3>1. SUFFICES ASSUME s[k + 1].vertex \in Built
                   PROVE  FALSE
      OBVIOUS
    <3> HIDE DEF c, k
    <3>2. UpTo(c, s[k + 1].vertex) = 0
      BY <1>1, <3>1, TreeNear
    <3>3. QED
      BY <1>1, <2>6, <2>7, <3>2
  <2>9. \A j \in 1 .. k + 1 : j \in 1 .. k \/ j = k + 1
    OBVIOUS
  <2>10. P(k + 1)
    <3> HIDE DEF c, k
    <3>1. QED
      BY <2>2, <2>7, <2>8, <2>9
  <2>11. QED
    BY <2>2, <2>10
<1>5. i - 1 \in F
  <2>1. Nat \subseteq F
    <3> HIDE DEF F
    <3>1. QED
      BY <1>3, <1>4, GrowingNumbers
  <2> HIDE DEF F
  <2>2. QED
    BY <1>2, <2>1
<1>6. \A j \in 1 .. i : s[j].vertex \notin Built
  <2>1. (i - 1) + 1 = i
    BY <1>2
  <2> HIDE DEF c
  <2>2. QED
    BY <1>5, <2>1
<1>7. QED
  BY <1>2, <1>6 DEF Outside

(* What a path adds to a tree. *)
LEMMA AttachNodes ==
  ASSUME NEW t, NEW s, NEW i \in DOMAIN s, NEW n \in Nat, DOMAIN s = 1 .. n
  PROVE  /\ t.nodes \subseteq Attach(t, s).nodes
         /\ (\A j \in 1 .. i : /\ s[j].vertex \notin t.nodes
                               /\ \A k \in 1 .. j - 1 : s[k].vertex # s[j].vertex)
              => s[i].vertex \in Attach(t, s).nodes
         /\ \A v \in Attach(t, s).nodes \ t.nodes :
              \E m \in DOMAIN s : v = s[m].vertex /\ \A j \in 1 .. m : s[j].vertex \notin t.nodes
<1> DEFINE old == {m \in DOMAIN s : \/ s[m].vertex \in t.nodes
                                    \/ \E j \in 1 .. m - 1 : s[j].vertex = s[m].vertex}
           new == {m \in DOMAIN s : \A j \in 1 .. m : j \notin old}
<1>1. Attach(t, s).nodes = t.nodes \cup {s[m].vertex : m \in new}
  BY DEF Attach
<1>2. ASSUME \A j \in 1 .. i : /\ s[j].vertex \notin t.nodes
                              /\ \A k \in 1 .. j - 1 : s[k].vertex # s[j].vertex
      PROVE  i \in new
  BY <1>2
<1>3. ASSUME NEW m \in new, NEW j \in 1 .. m
      PROVE  s[j].vertex \notin t.nodes
  <2>1. j \in DOMAIN s /\ j \notin old
    OBVIOUS
  <2>2. QED
    BY <2>1
<1>4. new \subseteq DOMAIN s
  OBVIOUS
<1> HIDE DEF new
<1>5. QED
  BY <1>1, <1>2, <1>3, <1>4

(* The paths after a pin is found. *)
LEMMA FoundPaths ==
  ASSUME TypeOK, NEW s \in queue, Found(s)
  PROVE  Paths' = Attach(Paths, s) /\ (solutions = <<>> => Paths.nodes = {}) /\ solutions' # <<>>
<1> DEFINE C == Chains
<1>1. solutions' = Append(solutions, s) /\ solutions \in Seq(C) /\ s \in C
  BY QueueType DEF Found, TypeOK
<1> HIDE DEF C
<1>2. FoldLeft(Attach, NoTree, Append(solutions, s)) = Attach(FoldLeft(Attach, NoTree, solutions), s)
  BY <1>1, PathAttached
<1>3. Paths' = Attach(Paths, s)
  BY <1>1, <1>2 DEF Paths
<1>4. solutions = <<>> => Paths.nodes = {}
  BY NoPathNoTree DEF Paths, NoTree
<1>5. solutions' # <<>>
  BY <1>1
<1>6. QED
  BY <1>3, <1>4, <1>5

(* The tree after a pin is found: it has grown by the new part of the path, *)
(* and otherwise only by vertices that were free to reach.                 *)
LEMMA FoundBuilt ==
  ASSUME IInv, NearInv, NEW s \in queue, Found(s)
  PROVE  /\ Built \subseteq Built'
         /\ \A i \in Fresh(s) : s[i].vertex \in Built'
         /\ \A v \in Built' : /\ v \in DOMAIN minCosts
                              /\ minCosts[v] = 0 \/ \E i \in Fresh(s) : s[i].vertex = v
         /\ Rooted'
<1>1. /\ TypeOK /\ OnTree /\ AtLeast /\ Exact /\ Rooted
      /\ Paths' = Attach(Paths, s) /\ (solutions = <<>> => Paths.nodes = {}) /\ solutions' # <<>>
      /\ graph' = graph
  BY FoundPaths DEF IInv, NearInv, Found
<1>2. /\ Len(s) \in Nat /\ Len(s) > 0 /\ DOMAIN s = 1 .. Len(s) /\ s[Len(s)].vertex = graph.start
      /\ \A i \in DOMAIN s : /\ s[i].cost \in Nat /\ s[i].vertex \in DOMAIN minCosts
                             /\ minCosts[s[i].vertex] <= s[i].cost
                             /\ minCosts[s[i].vertex] \in Nat
  BY <1>1, QueueType DEF AtLeast, TypeOK
<1>3. Paths.nodes \subseteq Paths'.nodes
  <2>1. 1 \in DOMAIN s
    BY <1>2
  <2>2. QED
    BY <1>1, <1>2, <2>1, AttachNodes
<1>4. Built \subseteq Built'
  BY <1>1, <1>3 DEF Built
<1>5. ASSUME NEW i \in Outside(s)
      PROVE  /\ i \in DOMAIN s
             /\ \A j \in 1 .. i : /\ s[j].vertex \notin Paths.nodes /\ j \in DOMAIN s
                                  /\ \A k \in 1 .. j - 1 : s[k].vertex # s[j].vertex
  <2>1. i \in DOMAIN s /\ \A j \in 1 .. i : j \in Outside(s)
    BY <1>1, OutsideType
  <2>2. ASSUME NEW j \in 1 .. i
        PROVE  s[j].vertex \notin Paths.nodes /\ j \in DOMAIN s
    BY <1>2, <2>1 DEF Outside, Built
  <2>3. ASSUME NEW j \in 1 .. i, NEW k \in 1 .. j - 1
        PROVE  s[k].vertex # s[j].vertex
    BY <1>1, <2>1 DEF Exact
  <2>4. QED
    BY <2>1, <2>2, <2>3
<1>6. ASSUME NEW i \in Outside(s)
      PROVE  s[i].vertex \in Paths'.nodes
  BY <1>1, <1>2, <1>5, <1>6, AttachNodes
<1>7. \A i \in Fresh(s) : s[i].vertex \in Built'
  BY <1>6, FreshOutside DEF Built
<1>8. Rooted'
  <2>1. CASE solutions # <<>>
    BY <1>1, <1>3, <2>1 DEF Rooted
  <2>2. CASE solutions = <<>>
    <3> DEFINE n == Len(s)
    <3>1. Built = {graph.start} /\ \A i \in DOMAIN s : s[i].vertex = graph.start => i = n
      BY <1>1, <2>2 DEF Built, Rooted
    <3>2. ASSUME NEW i \in 1 .. n - 1
          PROVE  i \in Outside(s)
      <4>1. n \in Nat /\ DOMAIN s = 1 .. n
        BY <1>2
      <4> HIDE DEF n
      <4>2. i \in DOMAIN s /\ \A j \in 1 .. i : j \in DOMAIN s /\ j # n
        BY <4>1
      <4>3. \A j \in 1 .. i : s[j].vertex \notin Built
        BY <3>1, <4>2
      <4>4. QED
        BY <4>2, <4>3 DEF Outside
    <3>3. ASSUME NEW j \in 1 .. n
          PROVE  s[j].vertex \notin Paths.nodes /\ \A k \in 1 .. j - 1 : s[k].vertex # s[j].vertex
      <4>1. CASE j = n
        <5>1. \A k \in 1 .. j - 1 : k \in DOMAIN s /\ k # n
          BY <1>2, <4>1
        <5>2. QED
          BY <1>1, <1>2, <2>2, <3>1, <4>1, <5>1
      <4>2. CASE j # n
        <5>1. j \in 1 .. n - 1 /\ j \in 1 .. j
          BY <1>2, <4>2
        <5>2. QED
          BY <1>5, <3>2, <5>1
      <4>3. QED
        BY <4>1, <4>2
    <3>4. n \in DOMAIN s
      BY <1>2
    <3>5. s[n].vertex \in Paths'.nodes
      <4> HIDE DEF n
      <4>1. n \in Nat /\ DOMAIN s = 1 .. n
        BY <1>2 DEF n
      <4>2. QED
        BY <1>1, <3>3, <3>4, <4>1, AttachNodes
    <3>6. QED
      BY <1>1, <1>2, <3>5 DEF Rooted
  <2>3. QED
    BY <2>1, <2>2
<1>9. ASSUME NEW v \in Built'
      PROVE  /\ v \in DOMAIN minCosts
             /\ minCosts[v] = 0 \/ \E i \in Fresh(s) : s[i].vertex = v
  <2>1. CASE v \in Built
    BY <1>1, <2>1 DEF OnTree
  <2>2. CASE v \notin Built
    <3>1. v \in Attach(Paths, s).nodes \ Paths.nodes
      BY <1>1, <2>2 DEF Built
    <3>2. PICK m \in DOMAIN s : v = s[m].vertex /\ \A j \in 1 .. m : s[j].vertex \notin Paths.nodes
      <4>1. 1 \in DOMAIN s
        BY <1>2
      <4>2. QED
        BY <1>2, <3>1, <4>1, AttachNodes
    <3>3. CASE m \in Fresh(s)
      BY <1>2, <3>2, <3>3
    <3>4. CASE m \notin Fresh(s)
      <4>1. PICK j \in 1 .. m : s[j].cost = 0
        BY <3>2, <3>4 DEF Fresh
      <4>2. CASE m \in Outside(s)
        <5>1. s[m].cost = 0
          <6>1. CASE j = m
            BY <4>1, <6>1
          <6>2. CASE j # m
            <7>1. j \in 1 .. m - 1 /\ j \in DOMAIN s
              BY <1>2, <6>2
            <7>2. s[m].cost <= s[j].cost
              BY <1>1, <4>2, <7>1 DEF Exact
            <7>3. QED
              BY <1>2, <4>1, <7>1, <7>2
          <6>3. QED
            BY <6>1, <6>2
        <5>2. QED
          BY <1>2, <3>2, <5>1
      <4>3. CASE m \notin Outside(s)
        <5>1. PICK k \in 1 .. m : s[k].vertex \in Built
          BY <3>2, <4>3 DEF Outside
        <5>2. s[k].vertex = graph.start /\ graph.start \notin Paths.nodes
          BY <3>2, <5>1 DEF Built
        <5>3. solutions = <<>>
          BY <1>1, <5>2 DEF Rooted
        <5>4. k = Len(s) /\ k \in DOMAIN s
          BY <1>1, <1>2, <5>2, <5>3 DEF Rooted
        <5>5. m = Len(s)
          BY ONLY <1>2, <3>2, <5>4
        <5>6. v = graph.start
          BY <1>2, <3>2, <5>5
        <5>7. QED
          BY <2>2, <5>6 DEF Built
      <4>4. QED
        BY <4>2, <4>3
    <3>5. QED
      BY <3>3, <3>4
  <2>3. QED
    BY <2>1, <2>2
<1>10. QED
  BY <1>4, <1>7, <1>8, <1>9

(* Each action keeps the invariant of the shortest paths. *)
LEMMA FoundKeepsNear ==
  ASSUME IInv, NearInv, NEW s \in queue, Found(s)
  PROVE  NearInv'
<1>1. /\ TypeOK /\ OnTree /\ AtLeast /\ Settled /\ CameFrom /\ Exact /\ Rooted
      /\ graph' = graph /\ DOMAIN minCosts' = DOMAIN minCosts
      /\ \A v \in DOMAIN minCosts : minCosts'[v] = IF \E i \in Fresh(s) : s[i].vertex = v THEN 0 ELSE minCosts[v]
  BY DEF IInv, NearInv, Found
<1>2. /\ s[1].vertex \in Detached /\ Detached' = Detached \ {s[1].vertex} /\ 1 \in Fresh(s)
  BY FoundPinCosts
<1>3. /\ Built \subseteq Built' /\ Rooted'
      /\ \A i \in Fresh(s) : s[i].vertex \in Built'
      /\ \A v \in Built' : /\ v \in DOMAIN minCosts
                           /\ minCosts[v] = 0 \/ \E i \in Fresh(s) : s[i].vertex = v
  BY FoundBuilt
<1>4. \A v \in DOMAIN minCosts : minCosts[v] \in Nat /\ minCosts'[v] \in Nat /\ minCosts'[v] <= minCosts[v]
  BY <1>1 DEF TypeOK
<1>5. OnTree'
  BY <1>1, <1>3 DEF OnTree
<1>6. ASSUME NEW t \in queue' \ (queue \ {s})
      PROVE  \E i \in Fresh(s) :
               /\ i \in 1 .. Len(s) /\ Len(s) \in Nat /\ DOMAIN s = 1 .. Len(s)
               /\ DOMAIN t = 1 .. Len(t) /\ Len(t) = Len(s) - i + 1
               /\ t[1].vertex = s[i].vertex /\ t[1].cost = 0
               /\ \A j \in 2 .. Len(t) : t[j] = s[i + j - 1] /\ i + j - 1 \in DOMAIN s
  <2>1. PICK i \in Fresh(s) : /\ t \in Chains /\ Len(t) = Len(s) - i + 1
                             /\ t[1].vertex = s[i].vertex /\ t[1].cost = 0
                             /\ \A j \in 2 .. Len(t) : t[j] = s[i + j - 1]
    BY <1>1, FoundQueue
  <2>2. i \in 1 .. Len(s) /\ Len(s) \in Nat /\ DOMAIN s = 1 .. Len(s)
    BY <1>1, QueueType DEF Fresh
  <2>3. DOMAIN t = 1 .. Len(t)
    BY <2>1 DEF Chains
  <2>4. \A j \in 2 .. Len(t) : i + j - 1 \in DOMAIN s
    BY <2>1, <2>2
  <2>5. QED
    BY <2>1, <2>2, <2>3, <2>4
<1>7. AtLeast'
  <2>1. ASSUME NEW t \in queue', NEW j \in DOMAIN t
        PROVE  minCosts'[t[j].vertex] <= t[j].cost
    <3>1. ASSUME NEW o \in queue, NEW k \in DOMAIN o
          PROVE  minCosts'[o[k].vertex] <= o[k].cost
      <4>1. minCosts[o[k].vertex] <= o[k].cost /\ o[k].cost \in Nat /\ o[k].vertex \in DOMAIN minCosts
        BY <1>1, QueueType DEF AtLeast
      <4>2. QED
        BY <1>4, <4>1
    <3>2. CASE t \in queue \ {s}
      BY <2>1, <3>1, <3>2
    <3>3. CASE t \notin queue \ {s}
      <4>1. PICK i \in Fresh(s) :
               /\ DOMAIN t = 1 .. Len(t) /\ Len(t) = Len(s) - i + 1 /\ Len(s) \in Nat /\ i \in 1 .. Len(s)
               /\ t[1].vertex = s[i].vertex /\ t[1].cost = 0 /\ i \in DOMAIN s
               /\ \A k \in 2 .. Len(t) : t[k] = s[i + k - 1] /\ i + k - 1 \in DOMAIN s
        BY <1>6, <3>3
      <4>2. CASE j = 1
        <5>1. s[i].vertex \in DOMAIN minCosts
          BY <1>1, <4>1, QueueType
        <5>2. minCosts'[t[1].vertex] = 0
          BY <1>1, <4>1, <5>1
        <5>3. QED
          BY <4>1, <4>2, <5>2
      <4>3. CASE j # 1
        <5>1. j \in 2 .. Len(t)
          BY <2>1, <4>1, <4>3
        <5>2. QED
          BY <3>1, <4>1, <5>1
      <4>4. QED
        BY <4>2, <4>3
    <3>4. QED
      BY <3>2, <3>3
  <2>2. QED
    BY <2>1 DEF AtLeast
<1>8. Settled'
  <2>1. \A v : NextVertices(v)' = NextVertices(v)
    BY <1>1 DEF NextVertices
  <2>2. ASSUME NEW v \in DOMAIN minCosts
        PROVE  \/ \E t \in queue' : t[1].vertex = v /\ t[1].cost = minCosts'[v]
               \/ /\ v \notin Detached'
                  /\ \A w \in NextVertices(v) :
                       w \in DOMAIN minCosts' /\ minCosts'[w] <= minCosts'[v] + graph.cost[<<v, w>>]
    <3>1. CASE \E i \in Fresh(s) : s[i].vertex = v
      BY <1>1, <3>1, FoundQueue
    <3>2. CASE ~\E i \in Fresh(s) : s[i].vertex = v
      <4>1. v # s[1].vertex /\ minCosts'[v] = minCosts[v]
        BY <1>1, <1>2, <3>2
      <4>2. CASE \E t \in queue : t[1].vertex = v /\ t[1].cost = minCosts[v]
        BY <1>1, <4>1, <4>2, FoundQueue
      <4>3. CASE /\ v \notin Detached
                 /\ \A w \in NextVertices(v) :
                      w \in DOMAIN minCosts /\ minCosts[w] <= minCosts[v] + graph.cost[<<v, w>>]
        <5>1. ASSUME NEW w \in NextVertices(v)
              PROVE  w \in DOMAIN minCosts' /\ minCosts'[w] <= minCosts'[v] + graph.cost[<<v, w>>]
          <6>1. graph.cost[<<v, w>>] \in Nat
            BY <1>1 DEF NextVertices, TypeOK, IsGraph
          <6>2. w \in DOMAIN minCosts /\ minCosts[w] <= minCosts[v] + graph.cost[<<v, w>>]
            BY <4>3
          <6>3. QED
            BY <1>1, <1>4, <4>1, <6>1, <6>2
        <5>2. QED
          BY <1>2, <4>3, <5>1
      <4>4. QED
        BY <1>1, <4>2, <4>3 DEF Settled
    <3>3. QED
      BY <3>1, <3>2
  <2>3. QED
    BY <1>1, <2>1, <2>2 DEF Settled
<1>9. CameFrom'
  <2>1. ASSUME NEW t \in queue', Len(t) > 1
        PROVE  minCosts'[t[2].vertex] <= t[1].cost
    <3>1. CASE t \in queue \ {s}
      <4>1. /\ minCosts[t[2].vertex] <= t[1].cost /\ t[1].cost \in Nat /\ Len(t) \in Nat
            /\ \A i \in 1 .. Len(t) : t[i].vertex \in DOMAIN minCosts
        BY <1>1, <2>1, <3>1, QueueType DEF CameFrom
      <4>2. t[2].vertex \in DOMAIN minCosts
        BY <2>1, <4>1
      <4>3. QED
        BY <1>4, <4>1, <4>2
    <3>2. CASE t \notin queue \ {s}
      <4>1. PICK i \in Fresh(s) :
               /\ DOMAIN t = 1 .. Len(t) /\ Len(t) = Len(s) - i + 1 /\ Len(s) \in Nat /\ i \in 1 .. Len(s)
               /\ t[1].cost = 0 /\ i \in DOMAIN s /\ DOMAIN s = 1 .. Len(s)
               /\ \A k \in 2 .. Len(t) : t[k] = s[i + k - 1] /\ i + k - 1 \in DOMAIN s
        BY <1>6, <3>2
      <4>2. 2 \in 2 .. Len(t) /\ i + 2 - 1 = i + 1
        BY <2>1, <4>1
      <4>3. t[2] = s[i + 1] /\ i + 1 \in DOMAIN s
        BY <4>1, <4>2
      <4>4. /\ s[i + 1].vertex \in DOMAIN minCosts /\ s[i + 1].cost \in Nat
            /\ minCosts[s[i + 1].vertex] <= s[i + 1].cost
        BY <1>1, <4>3, QueueType DEF AtLeast
      <4>5. CASE i + 1 \in Fresh(s)
        BY <1>1, <4>1, <4>3, <4>4, <4>5
      <4>6. CASE i + 1 \notin Fresh(s)
        <5>1. \E j \in 1 .. i + 1 : s[j].cost = 0
          BY <4>3, <4>6 DEF Fresh
        <5>2. \A j \in 1 .. i : s[j].cost # 0
          BY DEF Fresh
        <5>3. s[i + 1].cost = 0
          BY <4>1, <5>1, <5>2
        <5>4. QED
          BY <1>4, <4>1, <4>3, <4>4, <5>3
      <4>7. QED
        BY <4>5, <4>6
    <3>3. QED
      BY <3>1, <3>2
  <2>2. QED
    BY <2>1 DEF CameFrom
<1>10. Exact'
  <2>1. ASSUME NEW t \in queue', NEW i \in Outside(t)'
        PROVE  t \in queue /\ i \in Outside(t)
    <3>1. i \in DOMAIN t /\ \A j \in 1 .. i : t[j].vertex \notin Built'
      BY <2>1 DEF Outside
    <3>2. ASSUME t \notin queue \ {s}
          PROVE  FALSE
      <4>1. PICK k \in Fresh(s) : t[1].vertex = s[k].vertex /\ DOMAIN t = 1 .. Len(t)
        BY <1>6, <3>2
      <4>2. 1 \in 1 .. i
        BY <3>1, <4>1
      <4>3. QED
        BY <1>3, <3>1, <4>1, <4>2
    <3>3. QED
      BY <1>3, <3>1, <3>2 DEF Outside
  <2>2. QED
    BY <1>1, <2>1 DEF Exact
<1>11. QED
  BY <1>3, <1>5, <1>7, <1>8, <1>9, <1>10 DEF NearInv

(* A solution is dropped: the costs stay those of nearest vertices. *)
LEMMA PrunedKeepsNear ==
  ASSUME IInv, NearInv, NEW s \in queue, Pruned(s)
  PROVE  NearInv'
<1>1. /\ UNCHANGED <<graph, minCosts, visited, solutions>> /\ queue' = queue \ {s}
      /\ s[1].vertex \notin Detached /\ Detached' = Detached
      /\ s[1].cost > minCosts[s[1].vertex]
  BY DEF Pruned, Detached
<1>2. Paths' = Paths /\ Built' = Built
  BY <1>1 DEF Paths, Built
<1>3. s[1].cost # minCosts[s[1].vertex]
  <2>1. s[1].cost \in Nat /\ minCosts[s[1].vertex] \in Nat
    BY QueueType DEF IInv, TypeOK
  <2>2. QED
    BY <1>1, <2>1
<1>4. OnTree' /\ AtLeast' /\ CameFrom' /\ Exact' /\ Rooted'
  BY <1>1, <1>2 DEF NearInv, OnTree, AtLeast, CameFrom, Exact, Outside, Rooted
<1>5. Settled'
  <2>1. \A v : NextVertices(v)' = NextVertices(v)
    BY <1>1 DEF NextVertices
  <2>2. QED
    BY <1>1, <1>3, <2>1 DEF NearInv, Settled
<1>6. QED
  BY <1>4, <1>5 DEF NearInv

(* A solution is expanded: they stay so too. *)
LEMMA ExpandKeepsNear ==
  ASSUME IInv, NearInv, NEW s \in queue, Expand(s)
  PROVE  NearInv'
<1> DEFINE u == s[1].vertex
<1>1. /\ TypeOK /\ OnTree /\ AtLeast /\ Settled /\ CameFrom /\ Exact /\ Rooted
      /\ UNCHANGED <<graph, visited, solutions>> /\ Detached' = Detached
      /\ u \notin Detached /\ s[1].cost <= minCosts[u]
      /\ DOMAIN minCosts' = DOMAIN minCosts \cup Better(s)
      /\ \A v \in DOMAIN minCosts' :
           minCosts'[v] = IF v \in Better(s) THEN NextCost(s, v) ELSE minCosts[v]
  BY DEF Expand, Detached, IInv, NearInv
<1>2. /\ queue \ {s} \subseteq queue'
      /\ \A v \in Better(s) : \E t \in queue' : t[1].vertex = v /\ t[1].cost = NextCost(s, v)
      /\ \A v \in Better(s) : /\ NextCost(s, v) \in Nat /\ <<u, v>> \in DOMAIN graph.cost
  BY <1>1, ExpandQueue
<1>3. /\ Len(s) \in Nat /\ Len(s) > 0 /\ DOMAIN s = 1 .. Len(s) /\ 1 \in DOMAIN s
      /\ u \in graph.vertices /\ u \in DOMAIN minCosts /\ s[1].cost \in Nat
      /\ \A i \in DOMAIN s : s[i].vertex \in DOMAIN minCosts /\ s[i].cost \in Nat
      /\ s[Len(s)].vertex = graph.start
  BY <1>1, QueueType
<1>4. ASSUME NEW t \in queue' \ (queue \ {s})
      PROVE  \E v \in Better(s) :
               /\ t \in Chains /\ DOMAIN t = 1 .. Len(t) /\ Len(t) = Len(s) + 1
               /\ t[1].vertex = v /\ t[1].cost = NextCost(s, v)
               /\ \A j \in 2 .. Len(t) : t[j] = s[j - 1] /\ j - 1 \in DOMAIN s
  <2>1. PICK v \in Better(s) : /\ t \in Chains /\ Len(t) = Len(s) + 1
                              /\ t[1].vertex = v /\ t[1].cost = NextCost(s, v)
                              /\ \A j \in 2 .. Len(t) : t[j] = s[j - 1]
    BY <1>1, ExpandQueue
  <2>2. DOMAIN t = 1 .. Len(t)
    BY <2>1 DEF Chains
  <2>3. \A j \in 2 .. Len(t) : j - 1 \in DOMAIN s
    BY <1>3, <2>1
  <2>4. QED
    BY <2>1, <2>2, <2>3
<1>5. minCosts[u] = s[1].cost
  <2>1. minCosts[u] <= s[1].cost /\ minCosts[u] \in Nat
    BY <1>1, <1>3 DEF AtLeast, TypeOK
  <2>2. QED
    BY <1>1, <1>3, <2>1
<1>6. /\ \A v \in Better(s) :
           /\ graph.cost[<<u, v>>] \in Nat /\ NextCost(s, v) = s[1].cost + graph.cost[<<u, v>>]
           /\ s[1].cost <= NextCost(s, v)
           /\ v \in DOMAIN minCosts => NextCost(s, v) < minCosts[v]
  <2> SUFFICES ASSUME NEW v \in Better(s)
               PROVE  /\ graph.cost[<<u, v>>] \in Nat /\ NextCost(s, v) = s[1].cost + graph.cost[<<u, v>>]
                      /\ s[1].cost <= NextCost(s, v)
                      /\ v \in DOMAIN minCosts => NextCost(s, v) < minCosts[v]
    OBVIOUS
  <2>1. graph.cost[<<u, v>>] \in Nat
    BY <1>1, <1>2 DEF TypeOK, IsGraph
  <2>2. NextCost(s, v) = s[1].cost + graph.cost[<<u, v>>]
    BY DEF NextCost
  <2>3. v \in DOMAIN minCosts => NextCost(s, v) < minCosts[v]
    BY DEF Better
  <2>4. QED
    BY <1>3, <2>1, <2>2, <2>3
<1>7. \A v \in DOMAIN minCosts : /\ minCosts[v] \in Nat /\ v \in DOMAIN minCosts'
                                 /\ minCosts'[v] \in Nat /\ minCosts'[v] <= minCosts[v]
  <2>1. \A v \in DOMAIN minCosts : minCosts[v] \in Nat /\ v \in DOMAIN minCosts'
    BY <1>1 DEF TypeOK
  <2>2. ASSUME NEW v \in DOMAIN minCosts
        PROVE  minCosts'[v] \in Nat /\ minCosts'[v] <= minCosts[v]
    <3>1. CASE v \in Better(s)
      <4>1. minCosts'[v] = NextCost(s, v) /\ NextCost(s, v) \in Nat /\ NextCost(s, v) < minCosts[v]
        BY <1>1, <1>2, <1>6, <2>1, <3>1
      <4>2. QED
        BY <2>1, <4>1
    <3>2. CASE v \notin Better(s)
      BY <1>1, <2>1, <3>2
    <3>3. QED
      BY <3>1, <3>2
  <2>3. QED
    BY <2>1, <2>2
<1>8. u \notin Better(s)
  <2>1. SUFFICES ASSUME u \in Better(s)
                 PROVE  FALSE
    OBVIOUS
  <2>2. s[1].cost <= NextCost(s, u) /\ NextCost(s, u) < minCosts[u] /\ NextCost(s, u) \in Nat
    BY <1>2, <1>3, <1>6, <2>1
  <2>3. QED
    BY <1>3, <1>5, <2>2
<1>9. Paths' = Paths /\ Built' = Built
  BY <1>1 DEF Paths, Built
<1>10. \A v \in Built : v \notin Better(s)
  <2> SUFFICES ASSUME NEW v \in Built, v \in Better(s)
               PROVE  FALSE
    OBVIOUS
  <2>1. v \in DOMAIN minCosts /\ minCosts[v] = 0 /\ NextCost(s, v) \in Nat /\ NextCost(s, v) < minCosts[v]
    BY <1>1, <1>2, <1>6 DEF OnTree
  <2>2. QED
    BY <2>1
<1>11. OnTree'
  BY <1>1, <1>7, <1>9, <1>10 DEF OnTree
<1>12. AtLeast'
  <2>1. ASSUME NEW t \in queue', NEW j \in DOMAIN t
        PROVE  minCosts'[t[j].vertex] <= t[j].cost
    <3>1. ASSUME NEW o \in queue, NEW k \in DOMAIN o
          PROVE  minCosts'[o[k].vertex] <= o[k].cost
      <4>1. minCosts[o[k].vertex] <= o[k].cost /\ o[k].cost \in Nat /\ o[k].vertex \in DOMAIN minCosts
        BY <1>1, QueueType DEF AtLeast
      <4>2. QED
        BY <1>7, <4>1
    <3>2. CASE t \in queue \ {s}
      BY <2>1, <3>1, <3>2
    <3>3. CASE t \notin queue \ {s}
      <4>1. PICK v \in Better(s) :
               /\ DOMAIN t = 1 .. Len(t) /\ Len(t) = Len(s) + 1
               /\ t[1].vertex = v /\ t[1].cost = NextCost(s, v)
               /\ \A k \in 2 .. Len(t) : t[k] = s[k - 1] /\ k - 1 \in DOMAIN s
        BY <1>4, <3>3
      <4>2. CASE j = 1
        <5>1. minCosts'[v] = NextCost(s, v) /\ NextCost(s, v) \in Nat
          BY <1>1, <1>2
        <5>2. QED
          BY <4>1, <4>2, <5>1
      <4>3. CASE j # 1
        <5>1. j \in 2 .. Len(t)
          BY <1>3, <2>1, <4>1, <4>3
        <5>2. QED
          BY <3>1, <4>1, <5>1
      <4>4. QED
        BY <4>2, <4>3
    <3>4. QED
      BY <3>2, <3>3
  <2>2. QED
    BY <2>1 DEF AtLeast
<1>13. ASSUME NEW w \in NextVertices(u)
       PROVE  w \in DOMAIN minCosts' /\ minCosts'[w] <= s[1].cost + graph.cost[<<u, w>>]
  <2>1. graph.cost[<<u, w>>] \in Nat /\ NextCost(s, w) = s[1].cost + graph.cost[<<u, w>>]
    BY <1>1 DEF NextVertices, TypeOK, IsGraph, NextCost
  <2>2. CASE w \in Better(s)
    BY <1>1, <1>2, <2>1, <2>2
  <2>3. CASE w \notin Better(s) /\ Len(s) > 1 /\ w = s[2].vertex
    <3>1. 2 \in DOMAIN s
      BY <1>3, <2>3
    <3>2. w \in DOMAIN minCosts /\ minCosts[w] <= s[1].cost
      BY <1>1, <1>3, <2>3, <3>1 DEF CameFrom
    <3>3. QED
      BY <1>3, <1>7, <2>1, <3>2
  <2>4. CASE w \notin Better(s) /\ ~(Len(s) > 1 /\ w = s[2].vertex)
    <3>1. w \in DOMAIN minCosts /\ ~(NextCost(s, w) < minCosts[w])
      BY <2>4 DEF Better
    <3>2. QED
      BY <1>3, <1>7, <2>1, <3>1
  <2>5. QED
    BY <2>2, <2>3, <2>4
<1>14. Settled'
  <2>1. \A v : NextVertices(v)' = NextVertices(v)
    BY <1>1 DEF NextVertices
  <2>2. ASSUME NEW v \in DOMAIN minCosts'
        PROVE  \/ \E t \in queue' : t[1].vertex = v /\ t[1].cost = minCosts'[v]
               \/ /\ v \notin Detached
                  /\ \A w \in NextVertices(v) :
                       w \in DOMAIN minCosts' /\ minCosts'[w] <= minCosts'[v] + graph.cost[<<v, w>>]
    <3>1. CASE v \in Better(s)
      BY <1>1, <1>2, <3>1
    <3>2. CASE v \notin Better(s) /\ v = u
      <4>1. minCosts'[v] = s[1].cost
        BY <1>1, <1>5, <3>2
      <4>2. QED
        BY <1>1, <1>13, <3>2, <4>1
    <3>3. CASE v \notin Better(s) /\ v # u
      <4>1. v \in DOMAIN minCosts /\ minCosts'[v] = minCosts[v]
        BY <1>1, <3>3
      <4>2. CASE \E t \in queue : t[1].vertex = v /\ t[1].cost = minCosts[v]
        BY <1>2, <3>3, <4>1, <4>2
      <4>3. CASE /\ v \notin Detached
                 /\ \A w \in NextVertices(v) :
                      w \in DOMAIN minCosts /\ minCosts[w] <= minCosts[v] + graph.cost[<<v, w>>]
        <5>1. ASSUME NEW w \in NextVertices(v)
              PROVE  w \in DOMAIN minCosts' /\ minCosts'[w] <= minCosts'[v] + graph.cost[<<v, w>>]
          <6>1. graph.cost[<<v, w>>] \in Nat
            BY <1>1 DEF NextVertices, TypeOK, IsGraph
          <6>2. w \in DOMAIN minCosts /\ minCosts[w] <= minCosts[v] + graph.cost[<<v, w>>]
            BY <4>3
          <6>3. QED
            BY <1>7, <4>1, <6>1, <6>2
        <5>2. QED
          BY <4>3, <5>1
      <4>4. QED
        BY <1>1, <4>1, <4>2, <4>3 DEF Settled
    <3>4. QED
      BY <3>1, <3>2, <3>3
  <2>3. QED
    BY <1>1, <2>1, <2>2 DEF Settled
<1>15. CameFrom'
  <2>1. ASSUME NEW t \in queue', Len(t) > 1
        PROVE  minCosts'[t[2].vertex] <= t[1].cost
    <3>1. CASE t \in queue \ {s}
      <4>1. /\ minCosts[t[2].vertex] <= t[1].cost /\ t[1].cost \in Nat /\ Len(t) \in Nat
            /\ \A i \in 1 .. Len(t) : t[i].vertex \in DOMAIN minCosts
        BY <1>1, <2>1, <3>1, QueueType DEF CameFrom
      <4>2. t[2].vertex \in DOMAIN minCosts
        BY <2>1, <4>1
      <4>3. QED
        BY <1>7, <4>1, <4>2
    <3>2. CASE t \notin queue \ {s}
      <4>1. PICK v \in Better(s) :
               /\ DOMAIN t = 1 .. Len(t) /\ Len(t) = Len(s) + 1
               /\ t[1].vertex = v /\ t[1].cost = NextCost(s, v)
               /\ \A k \in 2 .. Len(t) : t[k] = s[k - 1] /\ k - 1 \in DOMAIN s
        BY <1>4, <3>2
      <4>2. 2 \in 2 .. Len(t) /\ 2 - 1 = 1
        BY <1>3, <4>1
      <4>3. t[2] = s[1]
        BY <4>1, <4>2
      <4>4. minCosts'[u] = s[1].cost
        BY <1>1, <1>3, <1>5, <1>8
      <4>5. QED
        BY <1>6, <4>1, <4>3, <4>4
    <3>3. QED
      BY <3>1, <3>2
  <2>2. QED
    BY <2>1 DEF CameFrom
<1>16. Exact'
  <2>1. ASSUME NEW t \in queue', NEW i \in Outside(t)
        PROVE  /\ <<t[i + 1].vertex, t[i].vertex>> \in DOMAIN graph.cost
               /\ t[i].cost = t[i + 1].cost + graph.cost[<<t[i + 1].vertex, t[i].vertex>>]
               /\ \A j \in 1 .. i - 1 : t[i].cost <= t[j].cost /\ t[i].vertex # t[j].vertex
    <3>1. CASE t \in queue \ {s}
      BY <1>1, <2>1, <3>1 DEF Exact
    <3>2. CASE t \notin queue \ {s}
      <4>1. PICK v \in Better(s) :
               /\ DOMAIN t = 1 .. Len(t) /\ Len(t) = Len(s) + 1
               /\ t[1].vertex = v /\ t[1].cost = NextCost(s, v)
               /\ \A k \in 2 .. Len(t) : t[k] = s[k - 1] /\ k - 1 \in DOMAIN s
        BY <1>4, <3>2
      <4>2. i \in 1 .. Len(t) /\ \A j \in 1 .. i : t[j].vertex \notin Built
        BY <2>1, <4>1 DEF Outside
      <4>3. CASE i = 1
        <5>1. 2 \in 2 .. Len(t) /\ 2 - 1 = 1
          BY <1>3, <4>1
        <5>2. t[2] = s[1]
          BY <4>1, <5>1
        <5>3. \A j \in 1 .. i - 1 : FALSE
          BY <4>3
        <5>4. QED
          BY <1>2, <1>6, <4>1, <4>3, <5>2, <5>3
      <4>4. CASE i > 1
        <5> DEFINE k == i - 1
        <5>1. /\ k \in DOMAIN s /\ t[i] = s[k] /\ k \in Nat /\ k + 1 = i /\ k > 0
              /\ \A j \in 1 .. k : j + 1 \in 2 .. Len(t) /\ j + 1 \in 1 .. i /\ (j + 1) - 1 = j
          BY <1>3, <4>1, <4>2, <4>4
        <5>2. k \in Outside(s)
          <6>1. ASSUME NEW j \in 1 .. k
                PROVE  s[j].vertex \notin Built
            <7>1. t[j + 1] = s[j] /\ j + 1 \in 1 .. i
              BY <4>1, <5>1
            <7>2. QED
              BY <4>2, <7>1
          <6>2. QED
            BY <5>1, <6>1 DEF Outside
        <5>3. k < Len(s) /\ k + 1 \in DOMAIN s /\ \A j \in 1 .. k : j \in Outside(s)
          BY <1>1, <5>2, OutsideType
        <5> HIDE DEF k
        <5>4. t[i + 1] = s[k + 1]
          <6>1. i + 1 \in 2 .. Len(t) /\ (i + 1) - 1 = k + 1
            BY <1>3, <4>1, <5>1, <5>3
          <6>2. QED
            BY <4>1, <6>1
        <5>5. /\ <<s[k + 1].vertex, s[k].vertex>> \in DOMAIN graph.cost
              /\ s[k].cost = s[k + 1].cost + graph.cost[<<s[k + 1].vertex, s[k].vertex>>]
              /\ \A j \in 1 .. k - 1 : s[k].cost <= s[j].cost /\ s[k].vertex # s[j].vertex
          BY <1>1, <5>2 DEF Exact
        <5>6. s[k].cost <= s[1].cost /\ s[k].cost \in Nat
          <6>1. CASE k = 1
            BY <1>3, <6>1
          <6>2. CASE k # 1
            <7>1. 1 \in 1 .. k - 1
              BY <5>1, <6>2
            <7>2. QED
              BY <1>3, <5>1, <5>5, <7>1
          <6>3. QED
            BY <6>1, <6>2
        <5>7. ASSUME NEW j \in 1 .. i - 1
              PROVE  t[i].cost <= t[j].cost /\ t[i].vertex # t[j].vertex
          <6>1. CASE j = 1
            <7>1. t[1].cost \in Nat /\ s[1].cost <= t[1].cost
              BY <1>2, <1>6, <4>1
            <7>2. t[i].cost <= t[1].cost
              BY <1>3, <5>1, <5>6, <7>1
            <7>3. t[i].vertex # t[1].vertex
              <8>1. SUFFICES ASSUME s[k].vertex = v
                             PROVE  FALSE
                BY <4>1, <5>1
              <8>2. v \in DOMAIN minCosts /\ minCosts[v] <= s[k].cost /\ minCosts[v] \in Nat
                BY <1>1, <1>3, <5>1, <8>1 DEF AtLeast, TypeOK
              <8>3. NextCost(s, v) < minCosts[v]
                BY <1>6, <8>2
              <8>4. QED
                BY <1>3, <4>1, <5>6, <7>1, <8>2, <8>3
            <7>4. QED
              BY <6>1, <7>2, <7>3
          <6>2. CASE j # 1
            <7>1. j \in 2 .. Len(t) /\ j - 1 \in 1 .. k - 1
              BY <1>3, <4>1, <4>2, <5>1, <6>2
            <7>2. t[j] = s[j - 1]
              BY <4>1, <7>1
            <7>3. QED
              BY <5>1, <5>5, <7>1, <7>2
          <6>3. QED
            BY <6>1, <6>2
        <5>8. QED
          BY <5>1, <5>4, <5>5, <5>7
      <4>5. QED
        BY <4>2, <4>3, <4>4
    <3>3. QED
      BY <3>1, <3>2
  <2>2. \A t : Outside(t)' = Outside(t)
    BY <1>9 DEF Outside
  <2>3. QED
    BY <1>1, <2>1, <2>2 DEF Exact
<1>17. Rooted'
  <2>1. CASE solutions # <<>>
    BY <1>1, <1>9, <2>1 DEF Rooted
  <2>2. CASE solutions = <<>>
    <3>1. ASSUME NEW t \in queue', NEW i \in DOMAIN t, t[i].vertex = graph.start
          PROVE  i = Len(t)
      <4>1. CASE t \in queue \ {s}
        BY <1>1, <2>2, <3>1, <4>1 DEF Rooted
      <4>2. CASE t \notin queue \ {s}
        <5>1. PICK v \in Better(s) :
                 /\ DOMAIN t = 1 .. Len(t) /\ Len(t) = Len(s) + 1 /\ t[1].vertex = v
                 /\ \A k \in 2 .. Len(t) : t[k] = s[k - 1] /\ k - 1 \in DOMAIN s
          BY <1>4, <4>2
        <5>2. i # 1
          BY <1>10, <3>1, <5>1 DEF Built
        <5>3. i \in 2 .. Len(t)
          BY <1>3, <3>1, <5>1, <5>2
        <5>4. i - 1 = Len(s)
          BY <1>1, <2>2, <3>1, <5>1, <5>3 DEF Rooted
        <5>5. QED
          BY <1>3, <5>1, <5>3, <5>4
      <4>3. QED
        BY <4>1, <4>2
    <3>2. QED
      BY <1>1, <2>2, <3>1 DEF Rooted
  <2>3. QED
    BY <2>1, <2>2
<1>18. QED
  BY <1>11, <1>12, <1>14, <1>15, <1>16, <1>17 DEF NearInv

----------------------------------------------------------------------------
(* The search starts in the invariant, and every step keeps it. *)
LEMMA InitNear ==
  Init => NearInv
<1> SUFFICES ASSUME Init
             PROVE  NearInv
  OBVIOUS
<1> DEFINE h == [vertex |-> graph.start, cost |-> 0]
<1>1. IInv
  BY InitEstablishes
<1>2. queue = {<<h>>} /\ DOMAIN minCosts = {graph.start} /\ minCosts[graph.start] = 0
      /\ visited = {graph.start} /\ solutions = << >>
  <2>1. <<h>> \o << >> = <<h>>
    OBVIOUS
  <2>2. QED
    BY <2>1 DEF Init, Solution
<1>3. Built = {graph.start}
  BY <1>2, NoPathNoTree DEF Built, Paths, NoTree
<1>4. Len(<<h>>) = 1 /\ DOMAIN <<h>> = {1} /\ <<h>>[1] = h
  <2> HIDE DEF h
  <2>1. QED
    OBVIOUS
<1>5. h.vertex = graph.start /\ h.cost = 0
  OBVIOUS
<1> HIDE DEF h
<1>6. OnTree /\ AtLeast /\ CameFrom /\ Rooted
  BY <1>2, <1>3, <1>4, <1>5 DEF OnTree, AtLeast, CameFrom, Rooted
<1>7. Settled
  BY <1>2, <1>4, <1>5 DEF Settled
<1>8. Exact
  <2>1. ASSUME NEW s \in queue, NEW i \in Outside(s)
        PROVE  FALSE
    <3>1. i < Len(s) /\ i \in 1 .. Len(s) /\ Len(s) = 1
      BY <1>1, <1>2, <1>4, OutsideType DEF IInv
    <3>2. QED
      BY <3>1
  <2>2. QED
    BY <2>1 DEF Exact
<1>9. QED
  BY <1>6, <1>7, <1>8 DEF NearInv

(* Every step of the search keeps NearInv. *)
LEMMA NextNear ==
  IInv /\ NearInv /\ [Next]_vars => NearInv'
<1> SUFFICES ASSUME IInv, NearInv, [Next]_vars
             PROVE  NearInv'
  OBVIOUS
<1>1. ASSUME NEW s \in queue, Found(s) \/ Pruned(s) \/ Expand(s)
      PROVE  NearInv'
  BY <1>1, FoundKeepsNear, PrunedKeepsNear, ExpandKeepsNear
<1>2. CASE UNCHANGED vars
  <2>1. Built' = Built /\ Paths' = Paths /\ Detached' = Detached
    BY <1>2 DEF vars, Built, Paths, Detached
  <2>2. (\A v : NextVertices(v)' = NextVertices(v)) /\ (\A s : Outside(s)' = Outside(s))
    BY <1>2, <2>1 DEF vars, NextVertices, Outside
  <2>3. QED
    BY <1>2, <2>1, <2>2 DEF vars, NearInv, OnTree, AtLeast, Settled, CameFrom, Exact, Rooted
<1>3. QED
  BY <1>1, <1>2 DEF Next, Search, Returned

----------------------------------------------------------------------------
(* The distances are well defined: D[k] is what walks of at most k edges   *)
(* from A reach.                                                           *)
Walks(D, A, n) ==
  /\ D[0] = {<<v, 0>> : v \in A}
  /\ \A k \in 1 .. n : D[k] = Longer(D[k - 1])

(* There are such walks of any length, and they agree. *)
LEMMA WalksExist ==
  ASSUME NEW A, NEW n \in Nat
  PROVE  \E D : Walks(D, A, n)
<1> DEFINE F == {m \in Nat : \E D : Walks(D, A, m)}
<1>1. 0 \in F
  <2> DEFINE D == [k \in Nat |-> {<<v, 0>> : v \in A}]
  <2>1. Walks(D, A, 0)
    BY DEF Walks
  <2>2. QED
    BY <2>1
<1>2. ASSUME NEW m \in Nat, m \in F
      PROVE  m + 1 \in F
  <2>1. PICK D : Walks(D, A, m)
    BY <1>2
  <2> DEFINE E == [k \in Nat |-> IF k = m + 1 THEN Longer(D[m]) ELSE D[k]]
  <2>2. E[0] = {<<v, 0>> : v \in A}
    BY <2>1 DEF Walks
  <2>3. ASSUME NEW k \in 1 .. m + 1
        PROVE  E[k] = Longer(E[k - 1])
    <3>1. k \in Nat /\ k - 1 \in Nat /\ k - 1 # m + 1
      OBVIOUS
    <3>2. E[k - 1] = D[k - 1]
      BY <3>1
    <3>3. CASE k = m + 1
      <4>1. k - 1 = m /\ E[k] = Longer(D[m])
        BY <3>1, <3>3
      <4> HIDE DEF E
      <4>2. QED
        BY <3>2, <4>1
    <3>4. CASE k # m + 1
      <4>1. k \in 1 .. m /\ E[k] = D[k]
        BY <3>1, <3>4
      <4> HIDE DEF E
      <4>2. QED
        BY <2>1, <3>2, <4>1 DEF Walks
    <3>5. QED
      BY <3>3, <3>4
  <2> HIDE DEF E
  <2>4. Walks(E, A, m + 1)
    BY <2>2, <2>3 DEF Walks
  <2>5. QED
    BY <2>4
<1>3. Nat \subseteq F
  <2> HIDE DEF F
  <2>1. QED
    BY <1>1, <1>2, GrowingNumbers
<1>4. QED
  BY <1>3

(* Two tables of the walks agree. *)
LEMMA WalksAgree ==
  ASSUME NEW A, NEW D, NEW n \in Nat, Walks(D, A, n), NEW E, NEW m \in Nat, Walks(E, A, m), n <= m
  PROVE  D[n] = E[n]
<1> DEFINE F == {k \in Nat : k <= n => D[k] = E[k]}
<1>1. 0 \in F
  BY DEF Walks
<1>2. ASSUME NEW k \in Nat, k \in F
      PROVE  k + 1 \in F
  <2>1. SUFFICES ASSUME k + 1 <= n
                 PROVE  D[k + 1] = E[k + 1]
    OBVIOUS
  <2>2. k + 1 \in 1 .. n /\ k + 1 \in 1 .. m /\ (k + 1) - 1 = k /\ D[k] = E[k]
    BY <1>2, <2>1
  <2>3. QED
    BY <2>2 DEF Walks
<1>3. Nat \subseteq F
  <2> HIDE DEF F
  <2>1. QED
    BY <1>1, <1>2, GrowingNumbers
<1>4. QED
  BY <1>3

(* Distances is made of them. *)
LEMMA DistancesAre ==
  ASSUME NEW A, Cardinality(graph.vertices) \in Nat
  PROVE  \E D : /\ \A k \in Nat : Walks(D, A, k)
                /\ Distances(A) = D[Cardinality(graph.vertices)]
<1> DEFINE R(D) == D = [k \in Nat |-> IF k = 0 THEN {<<v, 0>> : v \in A} ELSE Longer(D[k - 1])]
           W(k) == CHOOSE D : Walks(D, A, k)
           all == [k \in Nat |-> W(k)[k]]
<1>1. ASSUME NEW k \in Nat
      PROVE  Walks(W(k), A, k)
  BY WalksExist
<1>2. all[0] = {<<v, 0>> : v \in A}
  <2>1. all[0] = W(0)[0]
    OBVIOUS
  <2> HIDE DEF W
  <2>2. QED
    BY <1>1, <2>1 DEF Walks
<1>3. ASSUME NEW k \in Nat, k # 0
      PROVE  all[k] = Longer(all[k - 1])
  <2>1. k - 1 \in Nat /\ all[k] = W(k)[k] /\ all[k - 1] = W(k - 1)[k - 1]
    BY <1>3
  <2> HIDE DEF W, all
  <2>2. W(k - 1)[k - 1] = W(k)[k - 1]
    BY <1>1, <2>1, WalksAgree
  <2>3. W(k)[k] = Longer(W(k)[k - 1])
    BY <1>1, <1>3 DEF Walks
  <2>4. QED
    BY <2>1, <2>2, <2>3
<1>4. R(all)
  <2> DEFINE B(k) == IF k = 0 THEN {<<v, 0>> : v \in A} ELSE Longer(all[k - 1])
  <2>1. all = [k \in Nat |-> all[k]]
    OBVIOUS
  <2>2. \A k \in Nat : all[k] = B(k)
    <3> HIDE DEF all
    <3>1. QED
      BY <1>2, <1>3
  <2> HIDE DEF all
  <2>3. all = [k \in Nat |-> B(k)]
    <3> HIDE DEF B
    <3>1. QED
      BY <2>1, <2>2
  <2>4. QED
    BY <2>3
<1>5. PICK D : D = CHOOSE E : R(E)
  OBVIOUS
<1>6. R(D)
  <2> HIDE DEF R
  <2>1. QED
    BY <1>4, <1>5
<1>7. Distances(A) = D[Cardinality(graph.vertices)]
  BY <1>5 DEF Distances
<1>8. \A k \in Nat : Walks(D, A, k)
  BY <1>6 DEF Walks
<1>9. QED
  BY <1>7, <1>8

(* One edge more: nothing gets farther, neighbours get near enough, and    *)
(* nothing is nearer than an edge makes it.                                *)
LEMMA LongerFacts ==
  ASSUME TypeOK, NEW d \in SUBSET (graph.vertices \X Nat)
  PROVE  /\ Longer(d) \in SUBSET (graph.vertices \X Nat)
         /\ \A p \in d : \E q \in Longer(d) : q[1] = p[1] /\ q[2] <= p[2]
         /\ \A p \in d : \A v : <<p[1], v>> \in DOMAIN graph.cost =>
              \E q \in Longer(d) : q[1] = v /\ q[2] <= p[2] + graph.cost[<<p[1], v>>]
         /\ \A q \in Longer(d) : \/ q \in d
                                 \/ \E p \in d : /\ <<p[1], q[1]>> \in DOMAIN graph.cost
                                                 /\ q[2] = p[2] + graph.cost[<<p[1], q[1]>>]
<1> DEFINE onward(p) == {<<v, p[2] + graph.cost[<<p[1], v>>]>> : v \in NextVertices(p[1])}
           all == d \cup UNION {onward(p) : p \in d}
<1>1. Longer(d) = {p \in all : \A q \in all : q[1] = p[1] => p[2] <= q[2]}
  BY DEF Longer
<1>2. ASSUME NEW p \in d, NEW v \in NextVertices(p[1])
      PROVE  /\ <<p[1], v>> \in DOMAIN graph.cost
             /\ <<v, p[2] + graph.cost[<<p[1], v>>]>> \in graph.vertices \X Nat
  <2>1. <<p[1], v>> \in DOMAIN graph.cost /\ v \in graph.vertices
    BY DEF NextVertices
  <2>2. graph.cost[<<p[1], v>>] \in Nat /\ p[2] \in Nat
    BY <2>1 DEF TypeOK, IsGraph
  <2>3. QED
    BY <2>1, <2>2
<1>3. ASSUME NEW q \in all, q \notin d
       PROVE  \E p \in d : \E v \in NextVertices(p[1]) : q = <<v, p[2] + graph.cost[<<p[1], v>>]>>
  <2>1. PICK p \in d : q \in onward(p)
    BY <1>3
  <2>2. QED
    BY <2>1
<1>4. all \in SUBSET (graph.vertices \X Nat)
  <2>1. ASSUME NEW q \in all
        PROVE  q \in graph.vertices \X Nat
    <3>1. CASE q \in d
      BY <3>1
    <3>2. CASE q \notin d
      <4>1. PICK p \in d : \E v \in NextVertices(p[1]) : q = <<v, p[2] + graph.cost[<<p[1], v>>]>>
        <5> HIDE DEF all
        <5>1. QED
          BY <1>3, <2>1, <3>2
      <4> HIDE DEF all
      <4>2. PICK v \in NextVertices(p[1]) : q = <<v, p[2] + graph.cost[<<p[1], v>>]>>
        BY <4>1
      <4>3. <<v, p[2] + graph.cost[<<p[1], v>>]>> \in graph.vertices \X Nat
        BY <1>2
      <4>4. QED
        BY <4>2, <4>3
    <3>3. QED
      BY <3>1, <3>2
  <2> HIDE DEF all
  <2>2. QED
    BY <2>1
<1>5. ASSUME NEW p \in all
      PROVE  \E q \in Longer(d) : q[1] = p[1] /\ q[2] <= p[2]
  <2> DEFINE here == {q[2] : q \in {r \in all : r[1] = p[1]}}
  <2>1. here \subseteq Nat /\ p[2] \in here
    <3> HIDE DEF all
    <3>1. \A q \in all : q[2] \in Nat
      BY <1>4
    <3>2. QED
      BY <3>1
  <2>2. PICK c \in here : \A x \in here : c <= x
    <3> HIDE DEF here
    <3>1. QED
      BY <2>1, LeastNumber
  <2> HIDE DEF all
  <2>3. PICK q \in all : q[1] = p[1] /\ q[2] = c
    OBVIOUS
  <2>4. \A r \in all : r[1] = q[1] => q[2] <= r[2]
    BY <2>2, <2>3
  <2>5. q[2] <= p[2]
    BY <2>3, <2>4
  <2>6. QED
    BY <1>1, <2>3, <2>4, <2>5
<1>6. ASSUME NEW p \in d, NEW v, <<p[1], v>> \in DOMAIN graph.cost
      PROVE  <<v, p[2] + graph.cost[<<p[1], v>>]>> \in all
  <2>1. v \in NextVertices(p[1])
    BY <1>6 DEF NextVertices, TypeOK, IsGraph
  <2>2. QED
    BY <2>1
<1>7. ASSUME NEW q \in all
      PROVE  \/ q \in d
             \/ \E p \in d : /\ <<p[1], q[1]>> \in DOMAIN graph.cost
                             /\ q[2] = p[2] + graph.cost[<<p[1], q[1]>>]
  <2> SUFFICES ASSUME q \notin d
               PROVE  \E p \in d : /\ <<p[1], q[1]>> \in DOMAIN graph.cost
                                   /\ q[2] = p[2] + graph.cost[<<p[1], q[1]>>]
    OBVIOUS
  <2>1. PICK p \in d : \E v \in NextVertices(p[1]) : q = <<v, p[2] + graph.cost[<<p[1], v>>]>>
    <3> HIDE DEF all
    <3>1. QED
      BY <1>3
  <2>2. PICK v \in NextVertices(p[1]) : q = <<v, p[2] + graph.cost[<<p[1], v>>]>>
    BY <2>1
  <2>3. q[1] = v /\ q[2] = p[2] + graph.cost[<<p[1], v>>]
    BY <2>2
  <2>4. QED
    BY <1>2, <2>3
<1>8. Longer(d) \subseteq all
  <2> HIDE DEF all
  <2>1. QED
    BY <1>1
<1> HIDE DEF all
<1>9. \A p \in d : \E q \in Longer(d) : q[1] = p[1] /\ q[2] <= p[2]
  <2>1. d \subseteq all
    BY DEF all
  <2>2. QED
    BY <1>5, <2>1
<1>10. ASSUME NEW p \in d, NEW v, <<p[1], v>> \in DOMAIN graph.cost
      PROVE  \E q \in Longer(d) : q[1] = v /\ q[2] <= p[2] + graph.cost[<<p[1], v>>]
  <2>1. PICK c : c = p[2] + graph.cost[<<p[1], v>>]
    OBVIOUS
  <2>2. <<v, c>> \in all
    BY <1>6, <1>10, <2>1
  <2>3. PICK q \in Longer(d) : q[1] = <<v, c>>[1] /\ q[2] <= <<v, c>>[2]
    BY <1>5, <2>2
  <2>4. QED
    BY <2>1, <2>3
<1>11. QED
  BY <1>4, <1>7, <1>8, <1>9, <1>10

(* No walk from the tree reaches a vertex at less than the search has      *)
(* found, as far as it has got.                                            *)
LEMMA WalksCost ==
  ASSUME TypeOK, Settled, OnTree, NEW c \in Nat, \A o \in queue : c <= o[1].cost,
         NEW D, \A k \in Nat : Walks(D, Built, k), NEW n \in Nat
  PROVE  D[n] \in SUBSET (graph.vertices \X Nat) /\ \A p \in D[n] : UpTo(c, p[1]) <= p[2]
<1> DEFINE F == {k \in Nat : /\ D[k] \in SUBSET (graph.vertices \X Nat)
                             /\ \A p \in D[k] : UpTo(c, p[1]) <= p[2]}
<1>1. 0 \in F
  <2>1. D[0] = {<<v, 0>> : v \in Built}
    BY DEF Walks
  <2>2. Built \subseteq graph.vertices
    BY DEF OnTree, TypeOK
  <2>3. \A v \in Built : UpTo(c, v) <= 0
    <3>1. \A v \in Built : UpTo(c, v) = 0
      BY TreeNear
    <3>2. QED
      BY <3>1
  <2>4. QED
    BY <2>1, <2>2, <2>3
<1>2. ASSUME NEW k \in Nat, k \in F
      PROVE  k + 1 \in F
  <2> DEFINE d == D[k]
  <2>1. D[k + 1] = Longer(d)
    <3>1. Walks(D, Built, k + 1) /\ k + 1 \in 1 .. k + 1 /\ (k + 1) - 1 = k
      OBVIOUS
    <3>2. QED
      BY <3>1 DEF Walks
  <2>2. d \in SUBSET (graph.vertices \X Nat) /\ \A p \in d : UpTo(c, p[1]) <= p[2]
    BY <1>2
  <2> HIDE DEF d, F
  <2>3. Longer(d) \in SUBSET (graph.vertices \X Nat)
    BY <2>2, LongerFacts
  <2>4. ASSUME NEW q \in Longer(d)
        PROVE  UpTo(c, q[1]) <= q[2]
    <3>1. CASE q \in d
      BY <2>2, <3>1
    <3>2. CASE \E p \in d : /\ <<p[1], q[1]>> \in DOMAIN graph.cost
                            /\ q[2] = p[2] + graph.cost[<<p[1], q[1]>>]
      <4>1. PICK p \in d : /\ <<p[1], q[1]>> \in DOMAIN graph.cost
                           /\ q[2] = p[2] + graph.cost[<<p[1], q[1]>>]
        BY <3>2
      <4>2. /\ graph.cost[<<p[1], q[1]>>] \in Nat /\ UpTo(c, p[1]) \in Nat /\ UpTo(c, q[1]) \in Nat
            /\ UpTo(c, q[1]) <= UpTo(c, p[1]) + graph.cost[<<p[1], q[1]>>]
        BY <4>1, NoShortcut
      <4>3. UpTo(c, p[1]) <= p[2] /\ p[2] \in Nat
        BY <2>2
      <4>4. QED
        BY <4>1, <4>2, <4>3
    <3>3. QED
      BY <2>2, <3>1, <3>2, LongerFacts
  <2>5. QED
    BY <2>1, <2>3, <2>4 DEF F
<1>3. Nat \subseteq F
  <2> HIDE DEF F
  <2>1. QED
    BY <1>1, <1>2, GrowingNumbers
<1>4. QED
  BY <1>3

(* A walk as long as the new part of a path is no farther than the path,   *)
(* and that part is no longer than there are vertices.                     *)
LEMMA WalksReach ==
  ASSUME IInv, NearInv, NEW s \in queue, Found(s),
         NEW D, \A k \in Nat : Walks(D, Built, k),
         \A k \in Nat : D[k] \in SUBSET (graph.vertices \X Nat)
  PROVE  \E p \in D[Cardinality(graph.vertices)] : p[1] = s[1].vertex /\ p[2] <= s[1].cost
<1>1. /\ TypeOK /\ Exact /\ Len(s) \in Nat /\ Len(s) > 0 /\ DOMAIN s = 1 .. Len(s)
      /\ \A i \in DOMAIN s : s[i].cost \in Nat /\ s[i].vertex \in graph.vertices
      /\ s[Len(s)].vertex = graph.start
  BY QueueType DEF IInv, NearInv
<1> DEFINE N == Cardinality(graph.vertices)
<1>2. IsFiniteSet(graph.vertices) /\ N \in Nat
  BY <1>1, FS_CardinalityType DEF TypeOK, IsGraph
<1>3. PICK m \in DOMAIN s : s[m].vertex \in Built /\ \A j \in 1 .. m - 1 : j \in Outside(s)
  <2> DEFINE M == {m \in DOMAIN s : s[m].vertex \in Built}
  <2>1. M \subseteq Nat /\ Len(s) \in M
    BY <1>1 DEF Built
  <2>2. PICK m \in M : \A j \in M : m <= j
    <3> HIDE DEF M
    <3>1. QED
      BY <2>1, LeastNumber
  <2>3. ASSUME NEW j \in 1 .. m - 1
        PROVE  j \in Outside(s)
    <3>1. m \in 1 .. Len(s)
      BY <1>1
    <3>2. j \in DOMAIN s /\ \A k \in 1 .. j : k \in DOMAIN s /\ ~(m <= k)
      BY <1>1, <3>1
    <3>3. \A k \in 1 .. j : k \notin M
      BY <2>2, <3>2
    <3>4. QED
      BY <3>2, <3>3 DEF Outside
  <2>4. QED
    BY <2>3
<1>4. m - 1 \in 0 .. N
  <2> DEFINE f == [i \in 1 .. m - 1 |-> s[i].vertex]
  <2>1. m \in 1 .. Len(s) /\ \A i \in 1 .. m - 1 : i \in DOMAIN s
    BY <1>1
  <2>2. f \in [1 .. m - 1 -> graph.vertices]
    BY <1>1, <2>1
  <2>3. ASSUME NEW i \in 1 .. m - 1, NEW j \in 1 .. m - 1, i < j
        PROVE  f[i] # f[j]
    <3>1. i \in 1 .. j - 1 /\ j \in Outside(s)
      BY <1>3, <2>3
    <3>2. s[j].vertex # s[i].vertex
      BY <1>1, <3>1 DEF Exact
    <3>3. QED
      BY <3>2
  <2> HIDE DEF f, N
  <2>4. \A i, j \in 1 .. m - 1 : f[i] = f[j] => i = j
    <3> SUFFICES ASSUME NEW i \in 1 .. m - 1, NEW j \in 1 .. m - 1, f[i] = f[j], i # j
                 PROVE  FALSE
      OBVIOUS
    <3>1. i < j \/ j < i
      OBVIOUS
    <3>2. QED
      BY <2>3, <3>1
  <2>5. f \in Injection(1 .. m - 1, graph.vertices)
    BY <2>2, <2>4, Fun_IsInj
  <2>6. Cardinality(1 .. m - 1) <= N
    BY <1>2, <2>5, FS_Injection DEF N
  <2>7. Cardinality(1 .. m - 1) = m - 1
    <3>1. m - 1 \in Nat
      BY <1>1
    <3>2. QED
      BY <3>1, FS_Interval
  <2>8. QED
    BY <1>1, <1>2, <2>6, <2>7
<1> DEFINE Near(k, i) == \E p \in D[k] : p[1] = s[i].vertex /\ p[2] <= s[i].cost
           F == {k \in Nat : (k < m => Near(k, m - k)) /\ (k >= m => Near(k, 1))}
<1>5. ASSUME NEW k \in Nat
      PROVE  D[k + 1] = Longer(D[k])
  <2>1. Walks(D, Built, k + 1) /\ k + 1 \in 1 .. k + 1 /\ (k + 1) - 1 = k
    OBVIOUS
  <2>2. QED
    BY <2>1 DEF Walks
<1>6. m \in 1 .. Len(s)
  BY <1>1
<1>7. 0 \in F
  <2>1. <<s[m].vertex, 0>> \in D[0]
    BY <1>3 DEF Walks
  <2>2. 0 <= s[m].cost /\ m - 0 = m /\ ~(0 >= m)
    BY <1>1, <1>6
  <2>3. Near(0, m)
    BY <2>1, <2>2
  <2> HIDE DEF Near
  <2>4. QED
    BY <2>2, <2>3
<1>8. ASSUME NEW k \in Nat, NEW i \in DOMAIN s, Near(k, i)
      PROVE  Near(k + 1, i)
  <2>1. PICK p \in D[k] : p[1] = s[i].vertex /\ p[2] <= s[i].cost
    BY <1>8
  <2>2. PICK q \in D[k + 1] : q[1] = p[1] /\ q[2] <= p[2]
    <3>1. PICK d : d = D[k]
      OBVIOUS
    <3>2. d \in SUBSET (graph.vertices \X Nat) /\ p \in d /\ D[k + 1] = Longer(d)
      BY <1>5, <3>1
    <3>3. \E q \in Longer(d) : q[1] = p[1] /\ q[2] <= p[2]
      BY ONLY <1>1, <3>2, LongerFacts
    <3>4. QED
      BY <3>2, <3>3
  <2>3. p[2] \in Nat /\ q[2] \in Nat /\ s[i].cost \in Nat
    BY <1>1
  <2>4. q[2] <= s[i].cost
    BY <2>1, <2>2, <2>3
  <2>5. QED
    BY <2>1, <2>2, <2>4
<1>9. ASSUME NEW k \in Nat, NEW i \in Outside(s), Near(k, i + 1)
      PROVE  Near(k + 1, i)
  <2>1. i \in DOMAIN s /\ i + 1 \in DOMAIN s
    BY <1>1, OutsideType
  <2>2. /\ <<s[i + 1].vertex, s[i].vertex>> \in DOMAIN graph.cost
        /\ s[i].cost = s[i + 1].cost + graph.cost[<<s[i + 1].vertex, s[i].vertex>>]
        /\ graph.cost[<<s[i + 1].vertex, s[i].vertex>>] \in Nat
    BY <1>1 DEF Exact, TypeOK, IsGraph
  <2>3. PICK p \in D[k] : p[1] = s[i + 1].vertex /\ p[2] <= s[i + 1].cost
    BY <1>9
  <2>4. PICK q \in D[k + 1] : q[1] = s[i].vertex /\ q[2] <= p[2] + graph.cost[<<p[1], s[i].vertex>>]
    <3>1. PICK d : d = D[k]
      OBVIOUS
    <3>2. d \in SUBSET (graph.vertices \X Nat) /\ p \in d /\ D[k + 1] = Longer(d)
      BY <1>5, <3>1
    <3>3. \A v : <<p[1], v>> \in DOMAIN graph.cost =>
            \E q \in Longer(d) : q[1] = v /\ q[2] <= p[2] + graph.cost[<<p[1], v>>]
      BY ONLY <1>1, <3>2, LongerFacts
    <3>4. <<p[1], s[i].vertex>> \in DOMAIN graph.cost
      BY <2>2, <2>3
    <3>5. QED
      BY <3>2, <3>3, <3>4
  <2>5. p[2] \in Nat /\ q[2] \in Nat /\ s[i].cost \in Nat /\ s[i + 1].cost \in Nat
    BY <1>1, <2>1
  <2>6. q[2] <= s[i].cost
    BY <2>2, <2>3, <2>4, <2>5
  <2>7. QED
    BY <2>4, <2>6
<1>10. ASSUME NEW k \in Nat, k \in F
       PROVE  k + 1 \in F
  <2> HIDE DEF Near
  <2>1. CASE k + 1 < m
    <3> DEFINE i == m - (k + 1)
    <3>1. i \in 1 .. m - 1 /\ i + 1 = m - k /\ k < m
      BY <1>6, <2>1
    <3>2. i \in Outside(s) /\ Near(k, i + 1)
      BY <1>3, <1>10, <3>1
    <3> HIDE DEF i, F
    <3>3. Near(k + 1, i)
      BY <1>9, <3>2
    <3>4. QED
      BY <1>6, <2>1, <3>3 DEF F, i
  <2>2. CASE k + 1 >= m
    <3>1. Near(k, 1)
      <4>1. CASE k >= m
        BY <1>10, <4>1
      <4>2. CASE k < m
        <5>1. m - k = 1
          BY <1>6, <2>2, <4>2
        <5>2. Near(k, m - k)
          BY <1>10, <4>2
        <5>3. QED
          BY <5>1, <5>2
      <4>3. QED
        BY <1>6, <4>1, <4>2
    <3>2. 1 \in DOMAIN s
      BY <1>1
    <3>3. Near(k + 1, 1)
      BY <1>8, <3>1, <3>2
    <3>4. QED
      BY <1>6, <2>2, <3>3
  <2>3. QED
    BY <1>6, <2>1, <2>2
<1>11. N \in F
  <2>1. Nat \subseteq F
    <3> HIDE DEF F
    <3>1. QED
      BY <1>7, <1>10, GrowingNumbers
  <2> HIDE DEF F
  <2>2. QED
    BY <1>2, <2>1
<1>12. Near(N, 1)
  <2> HIDE DEF Near
  <2>1. CASE N >= m
    BY <1>11, <2>1
  <2>2. CASE N < m
    <3>1. m - N = 1
      BY <1>2, <1>4, <1>6, <2>2
    <3>2. Near(N, m - N)
      BY <1>11, <2>2
    <3>3. QED
      BY <3>1, <3>2
  <2> HIDE DEF N
  <2>3. QED
    BY <1>2, <1>6, <2>1, <2>2
<1>13. QED
  BY <1>12

(* The pin found is at the least distance of a detached pin from the tree.  *)
LEMMA FoundNearest ==
  ASSUME IInv, NearInv, NEW s \in queue, Found(s)
  PROVE  s[1].cost = Min({d[2] : d \in {e \in Distances(Built) : e[1] \in Detached}})
<1> DEFINE c == s[1].cost
           Verts == {d[2] : d \in {e \in Distances(Built) : e[1] \in Detached}}
<1>1. /\ TypeOK /\ Settled /\ OnTree /\ c \in Nat
      /\ s[1].vertex \in Detached /\ \A o \in queue : c <= o[1].cost
  BY QueueType, FoundPinCosts DEF IInv, NearInv
<1>2. Cardinality(graph.vertices) \in Nat
  BY <1>1, FS_CardinalityType DEF TypeOK, IsGraph
<1>3. PICK D : (\A k \in Nat : Walks(D, Built, k)) /\ Distances(Built) = D[Cardinality(graph.vertices)]
  BY <1>2, DistancesAre
<1>4. ASSUME NEW k \in Nat
      PROVE  D[k] \in SUBSET (graph.vertices \X Nat) /\ \A p \in D[k] : UpTo(c, p[1]) <= p[2]
  <2> HIDE DEF c
  <2>1. QED
    BY <1>1, <1>3, WalksCost
<1>5. PICK p \in Distances(Built) : p[1] = s[1].vertex /\ p[2] <= c
  BY <1>3, <1>4, WalksReach
<1>6. ASSUME NEW e \in Distances(Built), e[1] \in Detached
      PROVE  c <= e[2] /\ e[2] \in Nat
  <2> HIDE DEF c
  <2>1. UpTo(c, e[1]) = c
    BY <1>1, <1>6, DetachedFar
  <2>2. QED
    BY <1>2, <1>3, <1>4, <2>1
<1>7. p[2] = c /\ c \in Verts
  <2>1. c <= p[2] /\ p[2] \in Nat
    BY <1>1, <1>5, <1>6
  <2> HIDE DEF c
  <2>2. p[2] = c
    BY <1>1, <1>5, <2>1
  <2>3. QED
    BY <1>1, <1>5, <2>2
<1>8. \A x \in Verts : c <= x /\ x \in Nat
  BY <1>6
<1> HIDE DEF c, Verts
<1>9. Min(Verts) \in Verts /\ \A x \in Verts : Min(Verts) <= x
  BY <1>7, <1>8 DEF Min
<1>10. PICK x \in Verts : x = Min(Verts) /\ x <= c
  BY <1>7, <1>9
<1>11. c = Min(Verts)
  BY <1>1, <1>8, <1>10
<1>12. QED
  BY <1>11 DEF c, Verts

(* The inductive invariant of the shortest paths. *)
THEOREM PathsInvariant == Spec => [](IInv /\ NearInv)
<1>1. Init => IInv /\ NearInv
  BY InitEstablishes, InitNear
<1>2. (IInv /\ NearInv) /\ [Next]_vars => (IInv /\ NearInv)'
  BY NextKeeps, NextNear
<1>3. QED
  BY <1>1, <1>2, PTL DEF Spec

(* Every pin found is one of the nearest to the tree of the paths found     *)
(* before it, and is found at the least cost of any walk there: pushing the *)
(* vertices of a path again at cost 0 (run) does what a new search from the *)
(* whole tree would.                                                        *)
THEOREM PinsNearestFirst == Spec => NearestPinNext
<1> DEFINE Nearest == solutions' # solutions =>
               Last(solutions')[1].cost =
                 Min({d[2] : d \in {e \in Distances(Paths.nodes \cup {graph.start}) : e[1] \in Detached}})
<1>1. IInv /\ NearInv /\ [Next]_vars => Nearest
  <2> SUFFICES ASSUME IInv, NearInv, [Next]_vars, solutions' # solutions
               PROVE  Nearest
    OBVIOUS
  <2>1. PICK s \in queue : Found(s)
    BY DEF Next, Search, Returned, Pruned, Expand, vars
  <2>2. Last(solutions') = s
    <3> DEFINE C == Chains
    <3>1. solutions \in Seq(C) /\ s \in C /\ solutions' = Append(solutions, s)
      BY <2>1, QueueType DEF IInv, TypeOK, Found
    <3> HIDE DEF C
    <3>2. solutions'[Len(solutions')] = s
      BY <3>1
    <3>3. QED
      BY <3>2 DEF Last
  <2>3. s[1].cost = Min({d[2] : d \in {e \in Distances(Built) : e[1] \in Detached}})
    BY <2>1, FoundNearest
  <2>4. QED
    BY <2>2, <2>3 DEF Built
<1>2. IInv /\ NearInv /\ [Next]_vars => [Nearest]_vars
  <2> HIDE DEF Nearest
  <2>1. QED
    BY <1>1
<1>3. QED
  BY <1>2, PathsInvariant, PTL DEF Spec, NearestPinNext
----------------------------------------------------------------------------
(* A tree with the root r: every other node has one parent, and a depth    *)
(* below it.                                                               *)
IsDeep(t, n, depth) ==
  /\ n \in Nat /\ depth \in [t.nodes -> 0 .. n]
  /\ \A e \in t.edges : depth[e[1]] < depth[e[2]]

IsTree(t, r) ==
  /\ r \in t.nodes /\ t.edges \subseteq t.nodes \X t.nodes
  /\ \A e \in t.edges : e[2] # r
  /\ \A v \in t.nodes : v # r => \E e \in t.edges : e[2] = v
  /\ \A e, f \in t.edges : e[2] = f[2] => e = f
  /\ \E n, depth : IsDeep(t, n, depth)

(* A branch of new nodes that ends in a node of a tree makes a tree of it. *)
IsBranch(t, m, p, u) ==
  /\ m \in Nat /\ p[m + 1] \in t.nodes
  /\ \A i \in 1 .. m : p[i] \notin t.nodes /\ \A j \in 1 .. i - 1 : p[j] # p[i]
  /\ u.nodes = t.nodes \cup {p[i] : i \in 1 .. m}
  /\ u.edges = t.edges \cup {<<p[i + 1], p[i]>> : i \in 1 .. m}

(* The tree with the branch has the same root. *)
LEMMA Branch ==
  ASSUME NEW t, NEW r, IsTree(t, r), NEW m, NEW p, NEW u, IsBranch(t, m, p, u)
  PROVE  IsTree(u, r)
<1> USE DEF IsBranch
<1>1. ASSUME NEW i \in 1 .. m, NEW j \in 1 .. m, p[i] = p[j]
      PROVE  i = j
  <2>1. i < j => i \in 1 .. j - 1
    OBVIOUS
  <2>2. j < i => j \in 1 .. i - 1
    OBVIOUS
  <2>3. QED
    BY <1>1, <2>1, <2>2
<1>2. ASSUME NEW i \in 1 .. m
      PROVE  p[i + 1] \in u.nodes /\ p[i] \in u.nodes
  <2>1. i + 1 = m + 1 \/ i + 1 \in 1 .. m
    OBVIOUS
  <2>2. QED
    BY <2>1
<1>3. u.edges \subseteq u.nodes \X u.nodes
  <2>1. t.edges \subseteq u.nodes \X u.nodes
    BY DEF IsTree
  <2>2. QED
    BY <1>2, <2>1
<1>4. ASSUME NEW e \in u.edges
      PROVE  e[2] # r
  <2>1. CASE e \in t.edges
    BY <2>1 DEF IsTree
  <2>2. CASE \E i \in 1 .. m : e = <<p[i + 1], p[i]>>
    BY <2>2 DEF IsTree
  <2>3. QED
    BY <2>1, <2>2
<1>5. ASSUME NEW v \in u.nodes, v # r
      PROVE  \E e \in u.edges : e[2] = v
  <2>1. CASE v \in t.nodes
    BY <1>5, <2>1 DEF IsTree
  <2>2. CASE \E i \in 1 .. m : v = p[i]
    <3>1. PICK i \in 1 .. m : v = p[i]
      BY <2>2
    <3>2. <<p[i + 1], p[i]>> \in u.edges /\ <<p[i + 1], p[i]>>[2] = v
      BY <3>1
    <3>3. QED
      BY <3>2
  <2>3. QED
    BY <2>1, <2>2
<1>6. ASSUME NEW e \in u.edges, NEW f \in u.edges, e[2] = f[2]
      PROVE  e = f
  <2>1. ASSUME NEW g \in t.edges
        PROVE  g[2] \in t.nodes
    BY DEF IsTree
  <2>2. CASE e \in t.edges /\ f \in t.edges
    BY <1>6, <2>2 DEF IsTree
  <2>3. CASE e \notin t.edges /\ f \notin t.edges
    <3>1. PICK i \in 1 .. m : e = <<p[i + 1], p[i]>>
      BY <2>3
    <3>2. PICK j \in 1 .. m : f = <<p[j + 1], p[j]>>
      BY <2>3
    <3>3. i = j
      BY <1>1, <1>6, <3>1, <3>2
    <3>4. QED
      BY <3>1, <3>2, <3>3
  <2>4. CASE (e \in t.edges) # (f \in t.edges)
    BY <1>6, <2>1, <2>4
  <2>5. QED
    BY <2>2, <2>3, <2>4
<1>7. \E n, depth : IsDeep(u, n, depth)
  <2>1. PICK n, depth : IsDeep(t, n, depth)
    BY DEF IsTree
  <2>2. n \in Nat /\ depth \in [t.nodes -> 0 .. n] /\ \A e \in t.edges : depth[e[1]] < depth[e[2]]
    BY <2>1 DEF IsDeep
  <2>3. PICK base \in 0 .. n : base = depth[p[m + 1]]
    BY <2>2
  <2> DEFINE At(v) == CHOOSE i \in 1 .. m : p[i] = v
             d == [v \in u.nodes |-> IF v \in t.nodes THEN depth[v] ELSE base + (m + 1 - At(v))]
  <2>4. ASSUME NEW i \in 1 .. m
        PROVE  At(p[i]) = i
    BY <1>1
  <2> HIDE DEF At
  <2>5. ASSUME NEW i \in 1 .. m
        PROVE  d[p[i]] = base + (m + 1 - i)
    BY <1>2, <2>4
  <2>6. d \in [u.nodes -> 0 .. n + m]
    <3>1. ASSUME NEW v \in u.nodes
          PROVE  d[v] \in 0 .. n + m
      <4>1. CASE v \in t.nodes
        BY <2>2, <4>1
      <4>2. CASE v \notin t.nodes
        <5>1. PICK i \in 1 .. m : v = p[i]
          BY <4>2
        <5>2. d[v] = base + (m + 1 - i)
          BY <2>5, <5>1
        <5> HIDE DEF d
        <5>3. QED
          BY <2>2, <5>2
      <4>3. QED
        BY <4>1, <4>2
    <3>2. d = [v \in u.nodes |-> d[v]]
      OBVIOUS
    <3> HIDE DEF d
    <3>3. QED
      BY <3>1, <3>2
  <2>7. ASSUME NEW e \in u.edges
        PROVE  d[e[1]] < d[e[2]]
    <3>1. CASE e \in t.edges
      <4>1. e[1] \in t.nodes /\ e[2] \in t.nodes
        BY <3>1 DEF IsTree
      <4>2. QED
        BY <2>2, <3>1, <4>1
    <3>2. CASE \E i \in 1 .. m : e = <<p[i + 1], p[i]>>
      <4>1. PICK i \in 1 .. m : e = <<p[i + 1], p[i]>>
        BY <3>2
      <4>2. d[e[2]] = base + (m + 1 - i)
        BY <2>5, <4>1
      <4>3. CASE i = m
        <5>1. e[1] = p[m + 1] /\ d[e[1]] = base
          BY <2>3, <4>1, <4>3
        <5> HIDE DEF d
        <5>2. QED
          BY <4>2, <4>3, <5>1
      <4>4. CASE i # m
        <5>1. i + 1 \in 1 .. m
          BY <4>4
        <5>2. d[e[1]] = base + (m + 1 - (i + 1))
          BY <2>5, <4>1, <5>1
        <5> HIDE DEF d
        <5>3. QED
          BY <4>2, <5>2
      <4>5. QED
        BY <4>3, <4>4
    <3>3. QED
      BY <3>1, <3>2
  <2>8. IsDeep(u, n + m, d)
    <3> HIDE DEF d
    <3>1. QED
      BY <2>2, <2>6, <2>7 DEF IsDeep
  <2> HIDE DEF d
  <2>9. QED
    BY <2>8
<1>8. QED
  BY <1>3, <1>4, <1>5, <1>6, <1>7 DEF IsTree

----------------------------------------------------------------------------
(* The paths so far as one tree, the start alone before the first. *)
Tree == IF solutions = <<>> THEN [nodes |-> {graph.start}, edges |-> {}, fixed |-> {graph.start}]
        ELSE Paths

TreeInv ==
  /\ IsTree(Tree, graph.start) /\ Tree.nodes = Built
  /\ Tree.edges \subseteq DOMAIN graph.cost
  /\ Tree.fixed = visited /\ visited \subseteq Tree.nodes
  /\ Paths.fixed \subseteq graph.pins

(* What Attach makes of a path that leaves a tree after m positions. *)
LEMMA Attached ==
  ASSUME NEW t, NEW s, NEW n \in Nat, DOMAIN s = 1 .. n, NEW m \in 1 .. n,
         \A i \in 1 .. m : s[i].vertex \notin t.nodes /\ \A j \in 1 .. i - 1 : s[j].vertex # s[i].vertex,
         m = n \/ s[m + 1].vertex \in t.nodes, Len(s) = n
  PROVE  /\ Attach(t, s).nodes = t.nodes \cup {s[i].vertex : i \in 1 .. m}
         /\ Attach(t, s).edges = t.edges \cup {<<s[i + 1].vertex, s[i].vertex>> : i \in (1 .. m) \ {n}}
         /\ Attach(t, s).fixed = t.fixed \cup {s[i].vertex : i \in (1 .. m) \cap {1, n}}
<1> DEFINE old == {i \in DOMAIN s : \/ s[i].vertex \in t.nodes
                                    \/ \E j \in 1 .. i - 1 : s[j].vertex = s[i].vertex}
           new == {i \in DOMAIN s : \A j \in 1 .. i : j \notin old}
<1>1. /\ Attach(t, s).nodes = t.nodes \cup {s[i].vertex : i \in new}
      /\ Attach(t, s).edges = t.edges \cup {<<s[i + 1].vertex, s[i].vertex>> : i \in new \ {n}}
      /\ Attach(t, s).fixed = t.fixed \cup {s[i].vertex : i \in new \cap {1, n}}
  BY DEF Attach
<1>2. ASSUME NEW i \in 1 .. m
      PROVE  i \notin old
  BY <1>2
<1>3. m # n => m + 1 \in old
  OBVIOUS
<1> HIDE DEF old
<1>4. new = 1 .. m
  <2>1. ASSUME NEW i \in 1 .. m
        PROVE  i \in new
    BY <1>2
  <2>2. ASSUME NEW i \in new
        PROVE  i \in 1 .. m
    <3>1. i \in 1 .. n /\ \A j \in 1 .. i : j \notin old
      OBVIOUS
    <3>2. SUFFICES ASSUME i > m
                   PROVE  FALSE
      BY <3>1
    <3>3. m # n /\ m + 1 \in 1 .. i
      BY <3>1, <3>2
    <3>4. QED
      BY <1>3, <3>1, <3>3
  <2>3. QED
    BY <2>1, <2>2
<1> HIDE DEF new
<1>5. QED
  BY <1>1, <1>4

(* A path that is found is a branch of the tree, whose end is the pin. *)
LEMMA FoundBranch ==
  ASSUME IInv, NearInv, TreeInv, NEW s \in queue, Found(s)
  PROVE  \E m \in Nat \ {0} :
           /\ s[m + 1].vertex \in Tree.nodes
           /\ \A i \in 1 .. m : /\ s[i].vertex \notin Tree.nodes
                                /\ \A j \in 1 .. i - 1 : s[j].vertex # s[i].vertex
                                /\ <<s[i + 1].vertex, s[i].vertex>> \in DOMAIN graph.cost
           /\ Tree' = Paths'
           /\ Tree'.nodes = Tree.nodes \cup {s[i].vertex : i \in 1 .. m}
           /\ Tree'.edges = Tree.edges \cup {<<s[i + 1].vertex, s[i].vertex>> : i \in 1 .. m}
           /\ Tree'.fixed = Tree.fixed \cup {s[1].vertex}
<1> DEFINE n == Len(s)
<1>1. /\ TypeOK /\ Exact /\ Rooted /\ Tree.nodes = Built
      /\ Paths' = Attach(Paths, s) /\ solutions' # <<>>
  BY FoundPaths DEF IInv, NearInv, TreeInv
<1>2. n \in Nat /\ n > 0 /\ DOMAIN s = 1 .. n /\ s[n].vertex = graph.start
  BY <1>1, QueueType
<1>3. 1 \in Outside(s)
  <2>1. 1 \in Fresh(s)
    BY FoundPinCosts
  <2>2. QED
    BY <2>1, FreshOutside
<1>4. ASSUME NEW i \in Outside(s)
      PROVE  /\ i \in 1 .. n - 1 /\ s[i].vertex \notin Tree.nodes
             /\ \A j \in 1 .. i : j \in Outside(s)
             /\ \A j \in 1 .. i - 1 : s[j].vertex # s[i].vertex
             /\ <<s[i + 1].vertex, s[i].vertex>> \in DOMAIN graph.cost
  <2>1. i \in 1 .. n /\ i < n /\ \A j \in 1 .. i : j \in Outside(s)
    BY <1>1, OutsideType
  <2>2. s[i].vertex \notin Tree.nodes /\ i \in 1 .. n - 1
    <3>1. i \in 1 .. i
      BY <2>1
    <3>2. s[i].vertex \notin Built
      BY <3>1 DEF Outside
    <3>3. QED
      BY <1>1, <1>2, <2>1, <3>2
  <2>3. QED
    BY <1>1, <2>1, <2>2 DEF Exact
<1> HIDE DEF n
<1>5. PICK m \in Nat \ {0} : /\ m \in Outside(s) /\ m + 1 \notin Outside(s) /\ m <= n - 1
  <2> DEFINE F == {k \in Nat : k + 1 \in Outside(s)}
  <2>1. 0 \in F
    BY <1>3
  <2>2. ~(Nat \subseteq F)
    <3>1. n \in Nat /\ n + 1 \notin 1 .. n - 1
      BY <1>2
    <3>2. n \notin F
      BY <1>4, <3>1
    <3>3. QED
      BY <3>1, <3>2
  <2>3. \E k \in Nat : k \in F /\ k + 1 \notin F
    <3> HIDE DEF F
    <3>1. QED
      BY <2>1, <2>2, GrowingNumbers
  <2>4. PICK k \in Nat : k \in F /\ k + 1 \notin F
    BY <2>3
  <2>5. k + 1 \in Outside(s) /\ (k + 1) + 1 \notin Outside(s)
    BY <2>4
  <2>6. k + 1 <= n - 1
    <3>1. k + 1 \in 1 .. n - 1
      BY <1>4, <2>5
    <3>2. QED
      BY <1>2, <3>1
  <2>7. QED
    BY <2>5, <2>6
<1>6. \A i \in 1 .. m : i \in Outside(s)
  BY <1>4, <1>5
<1>7. m + 1 \in 1 .. n /\ m \in 1 .. n /\ m # n
  BY <1>2, <1>5
<1>8. s[m + 1].vertex \in Tree.nodes
  <2>1. \A j \in 1 .. m + 1 : j \in 1 .. m \/ j = m + 1
    OBVIOUS
  <2>2. \A j \in 1 .. m : s[j].vertex \notin Built
    BY <1>1, <1>4, <1>6
  <2>3. s[m + 1].vertex \in Built
    BY <1>2, <1>5, <1>7, <2>1, <2>2 DEF Outside
  <2>4. QED
    BY <1>1, <2>3
<1>9. Tree' = Paths'
  BY <1>1 DEF Tree
<1>10. CASE solutions # <<>>
  <2>1. Tree = Paths
    BY <1>10 DEF Tree
  <2>2. /\ \A i \in 1 .. m : /\ s[i].vertex \notin Paths.nodes
                             /\ \A j \in 1 .. i - 1 : s[j].vertex # s[i].vertex
        /\ s[m + 1].vertex \in Paths.nodes /\ Len(s) = n
    BY <1>4, <1>6, <1>8, <2>1 DEF n
  <2>3. /\ Attach(Paths, s).nodes = Paths.nodes \cup {s[i].vertex : i \in 1 .. m}
        /\ Attach(Paths, s).edges = Paths.edges \cup {<<s[i + 1].vertex, s[i].vertex>> : i \in (1 .. m) \ {n}}
        /\ Attach(Paths, s).fixed = Paths.fixed \cup {s[i].vertex : i \in (1 .. m) \cap {1, n}}
    BY <1>2, <1>7, <2>2, Attached
  <2>4. (1 .. m) \ {n} = 1 .. m /\ (1 .. m) \cap {1, n} = {1}
    BY <1>2, <1>7
  <2>5. Tree'.fixed = Tree.fixed \cup {s[1].vertex}
    BY <1>1, <1>9, <2>1, <2>3, <2>4
  <2>6. /\ Tree'.nodes = Tree.nodes \cup {s[i].vertex : i \in 1 .. m}
        /\ Tree'.edges = Tree.edges \cup {<<s[i + 1].vertex, s[i].vertex>> : i \in 1 .. m}
    BY <1>1, <1>9, <2>1, <2>3, <2>4
  <2>7. QED
    BY <1>4, <1>5, <1>6, <1>8, <1>9, <2>5, <2>6
<1>11. CASE solutions = <<>>
  <2>1. Tree.nodes = {graph.start} /\ Tree.edges = {} /\ Tree.fixed = {graph.start}
    BY <1>11 DEF Tree
  <2>2. Paths = NoTree
    BY <1>11, NoPathNoTree DEF Paths
  <2>3. m + 1 = n
    <3>1. s[m + 1].vertex = graph.start
      BY <1>8, <2>1
    <3>2. QED
      BY <1>1, <1>2, <1>7, <1>11, <3>1 DEF Rooted, n
  <2>4. /\ \A i \in 1 .. n : /\ s[i].vertex \notin Paths.nodes
                             /\ \A j \in 1 .. i - 1 : s[j].vertex # s[i].vertex
        /\ Len(s) = n /\ n \in 1 .. n
    <3>1. Paths.nodes = {}
      BY <2>2 DEF NoTree
    <3>2. ASSUME NEW i \in 1 .. n, NEW j \in 1 .. i - 1
          PROVE  s[j].vertex # s[i].vertex
      <4>1. i \in 1 .. m \/ i = n
        BY <1>2, <2>3
      <4>2. i = n => j \in 1 .. m
        BY <2>3
      <4>3. QED
        BY <1>2, <1>4, <1>6, <2>1, <4>1, <4>2
    <3>3. QED
      BY <1>2, <3>1, <3>2 DEF n
  <2>5. /\ Attach(Paths, s).nodes = Paths.nodes \cup {s[i].vertex : i \in 1 .. n}
        /\ Attach(Paths, s).edges = Paths.edges \cup {<<s[i + 1].vertex, s[i].vertex>> : i \in (1 .. n) \ {n}}
        /\ Attach(Paths, s).fixed = Paths.fixed \cup {s[i].vertex : i \in (1 .. n) \cap {1, n}}
    <3>1. n \in Nat /\ DOMAIN s = 1 .. n
      BY <1>2
    <3>2. QED
      BY <2>4, <3>1, Attached
  <2>6. (1 .. n) \ {n} = 1 .. m /\ (1 .. n) \cap {1, n} = {1, n} /\ 1 .. n = (1 .. m) \cup {n}
    BY <1>2, <1>5, <2>3
  <2>7. Paths.nodes = {} /\ Paths.edges = {} /\ Paths.fixed = {}
    BY <2>2 DEF NoTree
  <2>8. Tree'.edges = Tree.edges \cup {<<s[i + 1].vertex, s[i].vertex>> : i \in 1 .. m}
    BY <1>1, <1>9, <2>1, <2>5, <2>6, <2>7
  <2>9. Tree'.nodes = Tree.nodes \cup {s[i].vertex : i \in 1 .. m}
    <3>1. Tree'.nodes = {s[i].vertex : i \in (1 .. m) \cup {n}}
      BY <1>1, <1>9, <2>5, <2>6, <2>7
    <3>2. QED
      BY <1>2, <2>1, <3>1
  <2>10. Tree'.fixed = Tree.fixed \cup {s[1].vertex}
    <3>1. Tree'.fixed = {s[i].vertex : i \in {1, n}}
      BY <1>1, <1>9, <2>5, <2>6, <2>7
    <3>2. QED
      BY <1>2, <2>1, <3>1
  <2>11. QED
    BY <1>4, <1>5, <1>6, <1>8, <1>9, <2>8, <2>9, <2>10
<1>12. QED
  BY <1>10, <1>11

(* The tree stays one, over the pins connected. *)
LEMMA FoundKeepsTree ==
  ASSUME IInv, NearInv, TreeInv, NEW s \in queue, Found(s)
  PROVE  TreeInv'
<1>1. /\ graph' = graph /\ visited' = visited \cup {s[1].vertex} /\ solutions' # <<>>
      /\ TypeOK' /\ Rooted'
  BY FoundPaths, FoundBuilt, FoundKeeps DEF IInv, Found
<1>2. PICK m \in Nat \ {0} :
           /\ s[m + 1].vertex \in Tree.nodes
           /\ \A i \in 1 .. m : /\ s[i].vertex \notin Tree.nodes
                                /\ \A j \in 1 .. i - 1 : s[j].vertex # s[i].vertex
                                /\ <<s[i + 1].vertex, s[i].vertex>> \in DOMAIN graph.cost
           /\ Tree' = Paths'
           /\ Tree'.nodes = Tree.nodes \cup {s[i].vertex : i \in 1 .. m}
           /\ Tree'.edges = Tree.edges \cup {<<s[i + 1].vertex, s[i].vertex>> : i \in 1 .. m}
           /\ Tree'.fixed = Tree.fixed \cup {s[1].vertex}
  BY FoundBranch
<1>3. PICK p : p = [i \in 1 .. m + 1 |-> s[i].vertex]
  OBVIOUS
<1>4. \A i \in 1 .. m : p[i] = s[i].vertex /\ p[i + 1] = s[i + 1].vertex /\ \A j \in 1 .. i - 1 : p[j] = s[j].vertex
  BY <1>3
<1>5. p[m + 1] = s[m + 1].vertex
  BY <1>3
<1>6. IsTree(Tree', graph.start)
  <2>1. PICK u : u = Tree'
    OBVIOUS
  <2>2. PICK t : t = Tree
    OBVIOUS
  <2>3. /\ p[m + 1] \in t.nodes
        /\ \A i \in 1 .. m : p[i] \notin t.nodes /\ \A j \in 1 .. i - 1 : p[j] # p[i]
    <3>1. p[m + 1] \in t.nodes
      BY <1>2, <1>5, <2>2
    <3>2. ASSUME NEW i \in 1 .. m
          PROVE  p[i] \notin t.nodes /\ \A j \in 1 .. i - 1 : p[j] # p[i]
      <4>1. p[i] = s[i].vertex /\ \A j \in 1 .. i - 1 : p[j] = s[j].vertex
        BY <1>4
      <4>2. QED
        BY <1>2, <2>2, <4>1
    <3>3. QED
      BY <3>1, <3>2
  <2>4. u.nodes = t.nodes \cup {p[i] : i \in 1 .. m}
    BY <1>2, <1>4, <2>1, <2>2
  <2>5. u.edges = t.edges \cup {<<p[i + 1], p[i]>> : i \in 1 .. m}
    BY <1>2, <1>4, <2>1, <2>2
  <2>6. IsTree(t, graph.start)
    BY <2>2 DEF TreeInv
  <2>7. IsTree(u, graph.start)
    <3>1. IsBranch(t, m, p, u)
      BY <2>3, <2>4, <2>5 DEF IsBranch
    <3>2. QED
      BY <2>6, <3>1, Branch
  <2>8. QED
    BY <2>1, <2>7
<1>7. Tree'.nodes = Built'
  BY <1>1, <1>2 DEF Built, Rooted
<1>8. Tree'.edges \subseteq DOMAIN graph.cost
  BY <1>2 DEF TreeInv
<1>9. Tree'.fixed = visited' /\ visited' \subseteq Tree'.nodes
  <2>1. 1 \in 1 .. m
    BY <1>2
  <2>2. QED
    BY <1>1, <1>2, <2>1 DEF TreeInv
<1>10. (Paths.fixed \subseteq graph.pins)'
  BY <1>1, <1>2, <1>9 DEF TypeOK
<1>11. QED
  BY <1>1, <1>6, <1>7, <1>8, <1>9, <1>10 DEF TreeInv

(* The tree is one throughout the search. *)
LEMMA InitTree ==
  Init => TreeInv
<1> SUFFICES ASSUME Init
             PROVE  TreeInv
  OBVIOUS
<1>1. graph \in Graphs /\ visited = {graph.start} /\ solutions = <<>>
  BY DEF Init
<1>2. graph.start \in graph.pins
  BY <1>1, GraphsAssumption DEF IsGraph
<1>3. Paths = NoTree
  BY <1>1, NoPathNoTree DEF Paths
<1>4. Tree.nodes = {graph.start} /\ Tree.edges = {} /\ Tree.fixed = {graph.start}
  BY <1>1 DEF Tree
<1>5. Tree.nodes = Built
  BY <1>3, <1>4 DEF Built, NoTree
<1>6. IsDeep(Tree, 0, [v \in Tree.nodes |-> 0])
  <2>1. [v \in Tree.nodes |-> 0] \in [Tree.nodes -> 0 .. 0]
    OBVIOUS
  <2>2. QED
    BY <1>4, <2>1 DEF IsDeep
<1>7. IsTree(Tree, graph.start)
  BY <1>4, <1>6 DEF IsTree
<1>8. QED
  BY <1>1, <1>2, <1>3, <1>4, <1>5, <1>7 DEF TreeInv, NoTree

(* Every step of the search keeps the tree. *)
LEMMA NextTree ==
  IInv /\ NearInv /\ TreeInv /\ [Next]_vars => TreeInv'
<1> SUFFICES ASSUME IInv, NearInv, TreeInv, [Next]_vars
             PROVE  TreeInv'
  OBVIOUS
<1>1. ASSUME NEW s \in queue, Found(s)
      PROVE  TreeInv'
  BY <1>1, FoundKeepsTree
<1>2. CASE UNCHANGED <<graph, visited, solutions>>
  <2>1. Paths' = Paths
    BY <1>2 DEF Paths
  <2>2. Tree' = Tree /\ Built' = Built
    BY <1>2, <2>1 DEF Tree, Built
  <2>3. QED
    BY <1>2, <2>1, <2>2 DEF TreeInv
<1>3. QED
  BY <1>1, <1>2 DEF Next, Search, Returned, Pruned, Expand, vars

----------------------------------------------------------------------------
(* A tree in a graph. *)
InGraph(g, t) ==
  /\ IsGraph(g) /\ IsLaidOut(g)
  /\ t.nodes \subseteq g.vertices /\ t.edges \subseteq DOMAIN g.cost

(* A vertex is its plane and its point. *)
LEMMA VertexIs ==
  ASSUME NEW g, IsLaidOut(g), NEW v \in g.vertices
  PROVE  v[1] \in {0, 1} /\ v[2] \in Int /\ v[3] \in Int /\ v = <<v[1], v[2], v[3]>>
<1>1. v \in {0, 1} \X Int \X Int
  BY DEF IsLaidOut
<1>2. QED
  BY <1>1

(* There are two vertices at a point. *)
LEMMA TwoAtPoint ==
  ASSUME NEW g, IsLaidOut(g), NEW u \in g.vertices, NEW v \in g.vertices, SamePoint(u, v),
         u[1] = v[1]
  PROVE  u = v
<1>1. u = <<u[1], u[2], u[3]>> /\ v = <<v[1], v[2], v[3]>>
  BY VertexIs
<1>2. u[2] = v[2] /\ u[3] = v[3]
  BY DEF SamePoint
<1>3. QED
  BY <1>1, <1>2

(* Two edges in a row are never both vias. *)
LEMMA NoTwoVias ==
  ASSUME NEW g, NEW t, NEW r, IsTree(t, r), InGraph(g, t),
         NEW e \in Redundant(t), NEW f \in Redundant(t)
  PROVE  e[2] # f[1]
<1>1. SUFFICES ASSUME e[2] = f[1]
               PROVE  FALSE
  OBVIOUS
<1>2. /\ e \in t.edges /\ f \in t.edges /\ SamePoint(e[1], e[2]) /\ SamePoint(f[1], f[2])
      /\ e[1] \in t.nodes /\ e[2] \in t.nodes /\ f[2] \in t.nodes
  BY DEF Redundant, IsTree
<1>3. e[1] # e[2] /\ f[1] # f[2] /\ IsLaidOut(g)
  BY <1>2 DEF InGraph, IsLaidOut
<1>4. e[1] \in g.vertices /\ e[2] \in g.vertices /\ f[2] \in g.vertices
  BY <1>2 DEF InGraph
<1>5. SamePoint(e[1], f[2])
  BY <1>1, <1>2 DEF SamePoint
<1>6. e[1][1] # e[2][1] /\ f[1][1] # f[2][1]
  BY <1>1, <1>2, <1>3, <1>4, TwoAtPoint
<1>7. e[1][1] \in {0, 1} /\ e[2][1] \in {0, 1} /\ f[2][1] \in {0, 1}
  BY <1>3, <1>4, VertexIs
<1>8. e[1] = f[2]
  BY <1>1, <1>3, <1>4, <1>5, <1>6, <1>7, TwoAtPoint
<1>9. PICK n, depth : IsDeep(t, n, depth)
  BY DEF IsTree
<1>10. /\ depth[e[1]] \in Int /\ depth[e[2]] \in Int
       /\ depth[e[1]] < depth[e[2]] /\ depth[f[1]] < depth[f[2]]
  BY <1>2, <1>9 DEF IsDeep
<1>11. QED
  BY <1>1, <1>8, <1>10

(* A node is contracted into its parent if it is at one point with it. *)
LEMMA RepIs ==
  ASSUME NEW g, NEW t, NEW r, IsTree(t, r), InGraph(g, t), NEW v \in t.nodes
  PROVE  /\ Rep(t, v) \in t.nodes /\ SamePoint(Rep(t, v), v)
         /\ \A e \in Redundant(t) : e[2] # Rep(t, v)
         /\ \A e \in Redundant(t) : e[2] = v => Rep(t, v) = e[1]
         /\ (\A e \in Redundant(t) : e[2] # v) => Rep(t, v) = v
<1>1. CASE \A e \in Redundant(t) : e[2] # v
  <2>1. Rep(t, v) = v
    BY <1>1 DEF Rep
  <2>2. QED
    BY <1>1, <2>1 DEF SamePoint
<1>2. CASE \E e \in Redundant(t) : e[2] = v
  <2>1. PICK e \in Redundant(t) : e[2] = v
    BY <1>2
  <2>2. \A f \in Redundant(t) : f[2] = v => f = e
    BY <2>1 DEF Redundant, IsTree
  <2>3. Rep(t, v) = e[1]
    BY <2>1, <2>2 DEF Rep
  <2>4. \A f \in Redundant(t) : f[2] # e[1]
    BY NoTwoVias
  <2>5. e[1] \in t.nodes /\ SamePoint(e[1], v)
    BY <2>1 DEF Redundant, IsTree
  <2>6. QED
    BY <2>1, <2>2, <2>3, <2>4, <2>5
<1>3. QED
  BY <1>1, <1>2

(* Every edge of a contracted tree is a wire, which may begin in the other *)
(* vertex at the point of the parent.                                      *)
Wired(g, t) ==
  \A e \in t.edges :
    \E u \in g.vertices : /\ SamePoint(u, e[1]) /\ <<u, e[2]>> \in DOMAIN g.cost
                          /\ ~SamePoint(u, e[2]) /\ (u = e[1] \/ u \notin t.nodes)

(* Removing the nodes at the points of their parents leaves a wired tree. *)
LEMMA ContractedTree ==
  ASSUME NEW g, NEW t, NEW r, IsTree(t, r), InGraph(g, t), r \in t.fixed, t.fixed \subseteq t.nodes
  PROVE  /\ IsTree(Contracted(t), r) /\ Wired(g, Contracted(t))
         /\ Contracted(t).nodes \subseteq t.nodes
         /\ r \in Contracted(t).fixed /\ Contracted(t).fixed \subseteq Contracted(t).nodes
         /\ Contracted(t).fixed = {Rep(t, v) : v \in t.fixed}
<1>1. PICK c : c = Contracted(t)
  OBVIOUS
<1>2. /\ c.nodes = {Rep(t, v) : v \in t.nodes} /\ c.fixed = {Rep(t, v) : v \in t.fixed}
      /\ c.edges = {<<Rep(t, e[1]), e[2]>> : e \in t.edges \ Redundant(t)}
  BY <1>1 DEF Contracted
<1>3. ASSUME NEW v \in t.nodes
      PROVE  /\ Rep(t, v) \in t.nodes /\ SamePoint(Rep(t, v), v)
             /\ \A e \in Redundant(t) : e[2] # Rep(t, v)
             /\ \A e \in Redundant(t) : e[2] = v => Rep(t, v) = e[1]
             /\ (\A e \in Redundant(t) : e[2] # v) => Rep(t, v) = v
  BY RepIs
<1>4. /\ r \in t.nodes /\ t.edges \subseteq t.nodes \X t.nodes
      /\ \A e \in t.edges : e[1] \in t.nodes /\ e[2] \in t.nodes /\ e[2] # r
      /\ \A e, f \in t.edges : e[2] = f[2] => e = f
      /\ \A v \in t.nodes : v # r => \E e \in t.edges : e[2] = v
  BY DEF IsTree
<1>5. Redundant(t) \subseteq t.edges
  BY DEF Redundant
<1>6. Rep(t, r) = r
  BY <1>3, <1>4, <1>5
<1>7. ASSUME NEW e \in t.edges \ Redundant(t)
      PROVE  e[2] \in c.nodes /\ Rep(t, e[1]) \in c.nodes /\ Rep(t, e[2]) = e[2]
  <2>1. \A f \in Redundant(t) : f[2] # e[2]
    BY <1>4, <1>5
  <2>2. Rep(t, e[2]) = e[2]
    BY <1>3, <1>4, <2>1
  <2>3. QED
    BY <1>2, <1>4, <2>2
<1>8. c.edges \subseteq c.nodes \X c.nodes
  BY <1>2, <1>7
<1>9. \A e \in c.edges : e[2] # r
  BY <1>2, <1>4
<1>10. ASSUME NEW v \in c.nodes, v # r
       PROVE  \E e \in c.edges : e[2] = v
  <2>1. PICK u \in t.nodes : v = Rep(t, u)
    BY <1>2
  <2>2. v \in t.nodes /\ \A e \in Redundant(t) : e[2] # v
    BY <1>3, <2>1
  <2>3. PICK e \in t.edges : e[2] = v
    BY <1>4, <1>10, <2>2
  <2>4. e \notin Redundant(t)
    BY <2>2, <2>3
  <2>5. <<Rep(t, e[1]), e[2]>> \in c.edges /\ <<Rep(t, e[1]), e[2]>>[2] = v
    BY <1>2, <2>3, <2>4
  <2>6. QED
    BY <2>5
<1>11. \A e, f \in c.edges : e[2] = f[2] => e = f
  <2>1. ASSUME NEW e \in c.edges, NEW f \in c.edges, e[2] = f[2]
        PROVE  e = f
    <3>1. PICK d \in t.edges \ Redundant(t) : e = <<Rep(t, d[1]), d[2]>>
      BY <1>2
    <3>2. PICK h \in t.edges \ Redundant(t) : f = <<Rep(t, h[1]), h[2]>>
      BY <1>2
    <3>3. d = h
      BY <1>4, <2>1, <3>1, <3>2
    <3>4. QED
      BY <3>1, <3>2, <3>3
  <2>2. QED
    BY <2>1
<1>12. c.nodes \subseteq t.nodes
  BY <1>2, <1>3
<1>13. \E n, depth : IsDeep(c, n, depth)
  <2>1. PICK n, depth : IsDeep(t, n, depth)
    BY DEF IsTree
  <2>2. n \in Nat /\ depth \in [t.nodes -> 0 .. n] /\ \A e \in t.edges : depth[e[1]] < depth[e[2]]
    BY <2>1 DEF IsDeep
  <2> DEFINE d == [v \in c.nodes |-> depth[v]]
  <2>3. d \in [c.nodes -> 0 .. n]
    BY <1>12, <2>2
  <2>4. ASSUME NEW e \in c.edges
        PROVE  d[e[1]] < d[e[2]]
    <3>1. PICK f \in t.edges \ Redundant(t) : e = <<Rep(t, f[1]), f[2]>>
      BY <1>2
    <3>2. e[1] \in c.nodes /\ e[2] \in c.nodes /\ e[1] = Rep(t, f[1]) /\ e[2] = f[2]
      BY <1>7, <3>1
    <3>3. depth[f[1]] < depth[f[2]] /\ depth[f[1]] \in Int /\ depth[f[2]] \in Int
      BY <1>4, <2>2
    <3>4. depth[Rep(t, f[1])] <= depth[f[1]] /\ depth[Rep(t, f[1])] \in Int
      <4>1. CASE \E h \in Redundant(t) : h[2] = f[1]
        <5>1. PICK h \in Redundant(t) : h[2] = f[1]
          BY <4>1
        <5>2. Rep(t, f[1]) = h[1]
          BY <1>3, <1>4, <5>1
        <5>3. depth[h[1]] < depth[h[2]] /\ depth[h[1]] \in Int /\ depth[h[2]] \in Int
          BY <1>4, <1>5, <2>2
        <5>4. QED
          BY <5>1, <5>2, <5>3
      <4>2. CASE \A h \in Redundant(t) : h[2] # f[1]
        BY <1>3, <1>4, <3>3, <4>2
      <4>3. QED
        BY <4>1, <4>2
    <3>5. QED
      BY <3>2, <3>3, <3>4
  <2>5. IsDeep(c, n, d)
    <3> HIDE DEF d
    <3>1. QED
      BY <2>2, <2>3, <2>4 DEF IsDeep
  <2> HIDE DEF d
  <2>6. QED
    BY <2>5
<1>14. IsTree(c, r)
  <2>1. r \in c.nodes
    BY <1>2, <1>4, <1>6
  <2>2. QED
    BY <1>8, <1>9, <1>10, <1>11, <1>13, <2>1 DEF IsTree
<1>15. Wired(g, c)
  <2>1. ASSUME NEW e \in c.edges
        PROVE  \E u \in g.vertices : /\ SamePoint(u, e[1]) /\ <<u, e[2]>> \in DOMAIN g.cost
                                     /\ ~SamePoint(u, e[2]) /\ (u = e[1] \/ u \notin c.nodes)
    <3>1. PICK f \in t.edges \ Redundant(t) : e = <<Rep(t, f[1]), f[2]>>
      BY <1>2
    <3>2. /\ f[1] \in g.vertices /\ f = <<f[1], f[2]>> /\ f \in DOMAIN g.cost
          /\ ~SamePoint(f[1], f[2]) /\ e[1] = Rep(t, f[1]) /\ e[2] = f[2]
      BY <1>4, <3>1 DEF InGraph, Redundant
    <3>3. SamePoint(f[1], e[1])
      BY <1>3, <1>4, <3>2 DEF SamePoint
    <3>4. f[1] = e[1] \/ f[1] \notin c.nodes
      <4>1. CASE \E h \in Redundant(t) : h[2] = f[1]
        BY <1>2, <1>3, <4>1
      <4>2. CASE \A h \in Redundant(t) : h[2] # f[1]
        BY <1>3, <1>4, <3>2, <4>2
      <4>3. QED
        BY <4>1, <4>2
    <3>5. QED
      BY <3>2, <3>3, <3>4
  <2>2. QED
    BY <2>1 DEF Wired
<1>16. r \in c.fixed /\ c.fixed \subseteq c.nodes
  BY <1>2, <1>6
<1>17. QED
  BY <1>1, <1>2, <1>12, <1>14, <1>15, <1>16

----------------------------------------------------------------------------
(* A step from the nodes I of N that lessens a measure: what holds where   *)
(* no step is taken, and before a step to where it holds, holds for N.     *)
Sinks(N, I, next, measure, n) ==
  /\ I \subseteq N /\ next \in [I -> N] /\ measure \in [N -> 0 .. n] /\ n \in Nat
  /\ \A v \in I : measure[next[v]] < measure[v]

(* By induction on the measure. *)
LEMMA Sinking ==
  ASSUME NEW N, NEW I, NEW next, NEW measure, NEW n, Sinks(N, I, next, measure, n),
         NEW S, \A v \in N \ I : v \in S, \A v \in I : next[v] \in S => v \in S
  PROVE  N \subseteq S
<1> DEFINE F == {k \in Nat : \A v \in N : measure[v] < k => v \in S}
<1>1. /\ I \subseteq N /\ next \in [I -> N] /\ measure \in [N -> 0 .. n] /\ n \in Nat
      /\ \A v \in I : measure[next[v]] < measure[v]
  BY DEF Sinks
<1>2. 0 \in F
  BY <1>1
<1>3. ASSUME NEW k \in Nat, k \in F
      PROVE  k + 1 \in F
  <2>1. ASSUME NEW v \in N, measure[v] < k + 1
        PROVE  v \in S
    <3>1. CASE v \in I
      <4>1. next[v] \in N /\ measure[next[v]] < measure[v]
        BY <1>1, <3>1
      <4>2. measure[next[v]] < k
        BY <1>1, <2>1, <4>1
      <4>3. QED
        BY <1>3, <3>1, <4>1, <4>2
    <3>2. CASE v \notin I
      BY <3>2
    <3>3. QED
      BY <3>1, <3>2
  <2>2. QED
    BY <2>1
<1>4. Nat \subseteq F
  <2> HIDE DEF F
  <2>1. QED
    BY <1>2, <1>3, GrowingNumbers
<1>5. ASSUME NEW v \in N
      PROVE  v \in S
  <2>1. measure[v] + 1 \in F /\ measure[v] < measure[v] + 1
    BY <1>1, <1>4
  <2>2. QED
    BY <2>1
<1>6. QED
  BY <1>5

(* Where the steps end is well defined. *)
LEMMA EndsExist ==
  ASSUME NEW N, NEW I, NEW next, NEW measure, NEW n, Sinks(N, I, next, measure, n)
  PROVE  \E h : h = [v \in N |-> IF v \in I THEN h[next[v]] ELSE v]
<1> DEFINE Low(k) == {v \in N : measure[v] < k}
           Ends(h, k) == h = [v \in Low(k) |-> IF v \in I THEN h[next[v]] ELSE v]
           F == {k \in Nat : \E h : Ends(h, k)}
<1>1. /\ I \subseteq N /\ next \in [I -> N] /\ measure \in [N -> 0 .. n] /\ n \in Nat
      /\ \A v \in I : measure[next[v]] < measure[v]
  BY DEF Sinks
<1>2. 0 \in F
  <2>1. Low(0) = {}
    BY <1>1
  <2> DEFINE h == [v \in {} |-> v]
  <2>2. h = [v \in {} |-> IF v \in I THEN h[next[v]] ELSE v]
    OBVIOUS
  <2> HIDE DEF h, Low
  <2>3. QED
    BY <2>1, <2>2
<1>3. ASSUME NEW k \in Nat, k \in F
      PROVE  k + 1 \in F
  <2>1. PICK f : Ends(f, k)
    BY <1>3
  <2> DEFINE h == [v \in Low(k + 1) |-> IF v \in I THEN f[next[v]] ELSE v]
             Goes(v) == IF v \in I THEN h[next[v]] ELSE v
  <2>2. ASSUME NEW v \in Low(k)
        PROVE  v \in Low(k + 1) /\ h[v] = f[v]
    <3>1. v \in Low(k + 1)
      BY <1>1
    <3>2. f[v] = IF v \in I THEN f[next[v]] ELSE v
      <4> HIDE DEF Low
      <4>1. QED
        BY <2>1
    <3> HIDE DEF Low
    <3>3. QED
      BY <3>1, <3>2
  <2>3. ASSUME NEW v \in Low(k + 1)
        PROVE  h[v] = Goes(v)
    <3>1. CASE v \in I
      <4>1. next[v] \in Low(k)
        BY <1>1, <3>1
      <4>2. h[next[v]] = f[next[v]]
        BY <2>2, <4>1
      <4>3. h[v] = f[next[v]]
        <5> HIDE DEF Low
        <5>1. QED
          BY <3>1
      <4> HIDE DEF h
      <4>4. QED
        BY <3>1, <4>2, <4>3
    <3>2. CASE v \notin I
      <4> HIDE DEF Low
      <4>1. QED
        BY <3>2
    <3>3. QED
      BY <3>1, <3>2
  <2>4. h = [v \in Low(k + 1) |-> h[v]]
    OBVIOUS
  <2>5. Ends(h, k + 1)
    <3> HIDE DEF h, Low
    <3>1. QED
      BY <2>3, <2>4
  <2> HIDE DEF h, Ends
  <2>6. QED
    BY <2>5
<1>4. Nat \subseteq F
  <2> HIDE DEF F
  <2>1. QED
    BY <1>2, <1>3, GrowingNumbers
<1>5. \E h : Ends(h, n + 1)
  <2>1. n + 1 \in Nat
    BY <1>1
  <2>2. n + 1 \in F
    <3> HIDE DEF F
    <3>1. QED
      BY <1>4, <2>1
  <2> HIDE DEF Ends
  <2>3. QED
    BY <2>2
<1>6. Low(n + 1) = N
  <2>1. \A v \in N : measure[v] < n + 1
    BY <1>1
  <2>2. QED
    BY <2>1
<1>7. QED
  <2> HIDE DEF Low
  <2>1. QED
    BY <1>5, <1>6

(* The nodes that Straightened leaves out have one parent and one child,   *)
(* all three on a line.                                                    *)
Next1(t, v) == (CHOOSE e \in t.edges : e[1] = v)[2]

(* Such a node has no other child, and its child goes on along the line. *)
LEMMA InsideIs ==
  ASSUME NEW t, NEW r, IsTree(t, r), IsFiniteSet(t.edges), NEW v \in t.nodes, Inside(t, v)
  PROVE  /\ v \notin t.fixed /\ <<v, Next1(t, v)>> \in t.edges
         /\ \A e \in t.edges : e[1] = v => e = <<v, Next1(t, v)>>
         /\ \E a \in t.nodes : /\ <<a, v>> \in t.edges
                                /\ IF a[3] = v[3] THEN Next1(t, v)[3] = v[3]
                                                  ELSE Next1(t, v)[2] = v[2]
<1> DEFINE E == {e \in t.edges : e[1] = v}
<1>1. v \notin t.fixed /\ Cardinality(E) = 1
  BY DEF Inside
<1>2. PICK e \in t.edges, f \in t.edges : /\ e[2] = v /\ f[1] = v
                                         /\ IF e[1][3] = v[3] THEN f[2][3] = v[3] ELSE f[2][2] = v[2]
  BY DEF Inside
<1>3. IsFiniteSet(E)
  BY FS_Subset
<1>4. E = {f}
  <2>1. f \in E
    BY <1>2
  <2> HIDE DEF E
  <2>2. \E x : E = {x}
    BY <1>1, <1>3, FS_Singleton
  <2>3. QED
    BY <2>1, <2>2
<1>5. (CHOOSE d \in t.edges : d[1] = v) = f
  BY <1>2, <1>4
<1>6. \A d \in t.edges : d = <<d[1], d[2]>> /\ d[1] \in t.nodes /\ d[2] \in t.nodes
  BY DEF IsTree
<1>7. Next1(t, v) = f[2] /\ f = <<v, f[2]>> /\ e = <<e[1], v>> /\ e[1] \in t.nodes
  BY <1>2, <1>5, <1>6 DEF Next1
<1>8. \A d \in t.edges : d[1] = v => d = f
  BY <1>4
<1>9. QED
  BY <1>1, <1>2, <1>7, <1>8

(* Where End leads to. *)
IsEnd(t, End) ==
  End = [v \in t.nodes |-> IF Inside(t, v) THEN End[Next1(t, v)] ELSE v]

Spans(t) == {v \in t.nodes : Inside(t, v)}

(* Going to the only child goes down the tree, so it ends. *)
LEMMA ChildSinks ==
  ASSUME NEW t, NEW r, IsTree(t, r), IsFiniteSet(t.edges)
  PROVE  \E n, measure : Sinks(t.nodes, Spans(t), [v \in Spans(t) |-> Next1(t, v)], measure, n)
<1>1. PICK n, depth : IsDeep(t, n, depth)
  BY DEF IsTree
<1>2. n \in Nat /\ depth \in [t.nodes -> 0 .. n] /\ \A e \in t.edges : depth[e[1]] < depth[e[2]]
  BY <1>1 DEF IsDeep
<1> DEFINE measure == [v \in t.nodes |-> n - depth[v]]
           next == [v \in Spans(t) |-> Next1(t, v)]
<1>3. measure \in [t.nodes -> 0 .. n]
  <2>1. \A v \in t.nodes : n - depth[v] \in 0 .. n
    BY <1>2
  <2>2. QED
    BY <2>1
<1>4. ASSUME NEW v \in Spans(t)
      PROVE  next[v] \in t.nodes /\ measure[next[v]] < measure[v]
  <2>1. v \in t.nodes /\ <<v, Next1(t, v)>> \in t.edges /\ next[v] = Next1(t, v)
    BY InsideIs DEF Spans
  <2>2. next[v] \in t.nodes
    BY <2>1 DEF IsTree
  <2>3. depth[v] < depth[next[v]] /\ depth[v] \in Int /\ depth[next[v]] \in Int
    BY <1>2, <2>1, <2>2
  <2> HIDE DEF next
  <2>4. measure[v] = n - depth[v] /\ measure[next[v]] = n - depth[next[v]]
    BY <2>1, <2>2
  <2> HIDE DEF measure
  <2>5. QED
    BY <1>2, <2>2, <2>3, <2>4
<1>5. next \in [Spans(t) -> t.nodes] /\ Spans(t) \subseteq t.nodes
  <2>1. next = [v \in Spans(t) |-> next[v]]
    OBVIOUS
  <2> HIDE DEF next
  <2>2. QED
    BY <1>4, <2>1 DEF Spans
<1> HIDE DEF measure, next
<1>6. Sinks(t.nodes, Spans(t), next, measure, n)
  BY <1>2, <1>3, <1>4, <1>5 DEF Sinks
<1>7. QED
  BY <1>6 DEF next

(* Straightened is defined by where these steps end. *)
LEMMA StraightIs ==
  ASSUME NEW t, NEW r, IsTree(t, r), IsFiniteSet(t.edges)
  PROVE  \E End : /\ IsEnd(t, End)
                  /\ Straightened(t).nodes = t.nodes \ Spans(t)
                  /\ Straightened(t).fixed = t.fixed
                  /\ Straightened(t).edges = {<<e[1], End[e[2]]>> : e \in {f \in t.edges : f[1] \notin Spans(t)}}
<1> DEFINE next == [v \in Spans(t) |-> Next1(t, v)]
<1>1. PICK n, measure : Sinks(t.nodes, Spans(t), next, measure, n)
  BY ChildSinks
<1>2. PICK h : h = [v \in t.nodes |-> IF v \in Spans(t) THEN h[next[v]] ELSE v]
  <2> HIDE DEF next
  <2>1. QED
    BY <1>1, EndsExist
<1>3. IsEnd(t, h)
  <2>1. \A v \in t.nodes : (v \in Spans(t) <=> Inside(t, v)) /\ (Inside(t, v) => next[v] = Next1(t, v))
    BY DEF Spans
  <2> HIDE DEF next
  <2>2. \A v \in t.nodes : (IF v \in Spans(t) THEN h[next[v]] ELSE v)
                             = (IF Inside(t, v) THEN h[Next1(t, v)] ELSE v)
    BY <2>1
  <2>3. [v \in t.nodes |-> IF v \in Spans(t) THEN h[next[v]] ELSE v]
          = [v \in t.nodes |-> IF Inside(t, v) THEN h[Next1(t, v)] ELSE v]
    BY <2>2
  <2>4. QED
    BY <1>2, <2>3 DEF IsEnd
<1>4. PICK End : End = CHOOSE f : IsEnd(t, f)
  OBVIOUS
<1>5. IsEnd(t, End)
  BY <1>3, <1>4
<1>6. /\ Straightened(t).nodes = {v \in t.nodes : ~Inside(t, v)}
      /\ Straightened(t).fixed = t.fixed
      /\ Straightened(t).edges = {<<e[1], End[e[2]]>> : e \in {f \in t.edges : ~Inside(t, f[1])}}
  BY <1>4 DEF Straightened, IsEnd, Next1
<1>7. {f \in t.edges : ~Inside(t, f[1])} = {f \in t.edges : f[1] \notin Spans(t)}
  BY DEF IsTree, Spans
<1>8. {v \in t.nodes : ~Inside(t, v)} = t.nodes \ Spans(t)
  BY DEF Spans
<1>9. QED
  BY <1>5, <1>6, <1>7, <1>8

----------------------------------------------------------------------------
(* The end of a run lies below its begin, and is a node that is kept. *)
LEMMA EndIs ==
  ASSUME NEW t, NEW r, IsTree(t, r), IsFiniteSet(t.edges), NEW End, IsEnd(t, End),
         NEW n, NEW depth, IsDeep(t, n, depth), NEW v \in t.nodes
  PROVE  /\ End[v] \in t.nodes \ Spans(t) /\ (v # r => End[v] # r) /\ depth[v] <= depth[End[v]]
         /\ v \notin Spans(t) => End[v] = v
<1> DEFINE S == {b \in t.nodes : /\ End[b] \in t.nodes \ Spans(t) /\ (b # r => End[b] # r)
                                 /\ depth[b] <= depth[End[b]]}
           next == [b \in Spans(t) |-> Next1(t, b)]
<1>1. n \in Nat /\ depth \in [t.nodes -> 0 .. n] /\ \A e \in t.edges : depth[e[1]] < depth[e[2]]
  BY DEF IsDeep
<1>2. \A b \in t.nodes : End[b] = IF b \in Spans(t) THEN End[Next1(t, b)] ELSE b
  BY DEF IsEnd, Spans
<1>3. \A b \in t.nodes \ Spans(t) : b \in S
  BY <1>1, <1>2
<1>4. ASSUME NEW b \in Spans(t), next[b] \in S
      PROVE  b \in S
  <2>1. b \in t.nodes /\ <<b, Next1(t, b)>> \in t.edges /\ next[b] = Next1(t, b)
    BY InsideIs DEF Spans
  <2>2. Next1(t, b) \in t.nodes /\ Next1(t, b) # r /\ depth[b] < depth[Next1(t, b)]
    BY <1>1, <2>1 DEF IsTree
  <2>3. End[b] = End[Next1(t, b)]
    BY <1>2, <2>1
  <2>4. /\ End[b] \in t.nodes \ Spans(t) /\ End[b] # r
        /\ depth[Next1(t, b)] <= depth[End[b]]
    BY <1>4, <2>1, <2>2, <2>3
  <2>5. depth[b] \in Int /\ depth[Next1(t, b)] \in Int /\ depth[End[b]] \in Int
    BY <1>1, <2>1, <2>2, <2>4
  <2>6. QED
    BY <2>1, <2>2, <2>4, <2>5
<1>5. PICK m, measure : Sinks(t.nodes, Spans(t), next, measure, m)
  BY ChildSinks
<1>6. t.nodes \subseteq S
  <2> HIDE DEF S, next
  <2>1. QED
    BY <1>3, <1>4, <1>5, Sinking
<1>7. QED
  BY <1>2, <1>6

-----------------------------------------------------------------------------
(* An edge of a wired tree runs along x into the plane H, and along y into *)
(* the plane V.                                                            *)
AlongOf(a, b) == IF b[1] = 0 THEN a[2] ELSE a[3]

WiredIn(g, t, r) ==
  /\ IsTree(t, r) /\ Wired(g, t) /\ IsFiniteSet(t.edges)
  /\ IsGraph(g) /\ IsLaidOut(g) /\ t.nodes \subseteq g.vertices

(* Both ends of such an edge differ in the coordinate it runs along only. *)
LEMMA WireIs ==
  ASSUME NEW g, NEW t, NEW r, WiredIn(g, t, r), NEW a, NEW b, <<a, b>> \in t.edges
  PROVE  /\ a \in g.vertices /\ b \in g.vertices /\ a \in t.nodes /\ b \in t.nodes
         /\ AlongOf(a, b) # Along(b)
         /\ IF b[1] = 0 THEN a[3] = b[3] /\ a[2] # b[2] ELSE b[1] = 1 /\ a[2] = b[2] /\ a[3] # b[3]
         /\ \E u \in g.vertices : /\ OnLine(u, b) /\ <<u, b>> \in DOMAIN g.cost /\ Along(u) = AlongOf(a, b)
                                  /\ ~SamePoint(u, b) /\ (u = a \/ u \notin t.nodes)
                                  /\ SamePoint(u, a)
<1>1. a \in t.nodes /\ b \in t.nodes
  BY DEF WiredIn, IsTree
<1>2. a \in g.vertices /\ b \in g.vertices /\ IsLaidOut(g)
  BY <1>1 DEF WiredIn
<1>3. PICK e : e = <<a, b>> /\ e \in t.edges /\ e[1] = a /\ e[2] = b
  OBVIOUS
<1>4. PICK u \in g.vertices : /\ SamePoint(u, a) /\ <<u, b>> \in DOMAIN g.cost
                              /\ ~SamePoint(u, b) /\ (u = a \/ u \notin t.nodes)
  BY <1>3 DEF WiredIn, Wired
<1>5. PICK d : d = <<u, b>> /\ d \in DOMAIN g.cost /\ d[1] = u /\ d[2] = b
  BY <1>4
<1>6. OnLine(u, b)
  BY <1>2, <1>4, <1>5 DEF IsLaidOut
<1>7. u[2] = a[2] /\ u[3] = a[3] /\ u[1] = b[1]
  BY <1>4, <1>6 DEF SamePoint, OnLine
<1>8. b[1] \in {0, 1}
  BY <1>2, VertexIs
<1>9. Along(u) = AlongOf(a, b)
  BY <1>7 DEF Along, AlongOf
<1>10. IF b[1] = 0 THEN a[3] = b[3] /\ a[2] # b[2] ELSE b[1] = 1 /\ a[2] = b[2] /\ a[3] # b[3]
  BY <1>4, <1>6, <1>7, <1>8 DEF OnLine, SamePoint
<1>11. AlongOf(a, b) # Along(b)
  BY <1>10 DEF AlongOf, Along
<1>12. QED
  BY <1>1, <1>2, <1>4, <1>6, <1>9, <1>10, <1>11

(* Two edges in a row on one line do not turn back. *)
LEMMA GoesOn ==
  ASSUME NEW g, NEW t, NEW r, WiredIn(g, t, r),
         NEW a, NEW b, NEW w, <<a, b>> \in t.edges, <<b, w>> \in t.edges,
         IF a[3] = b[3] THEN w[3] = b[3] ELSE w[2] = b[2]
  PROVE  /\ OnLine(b, w)
         /\ AlongOf(a, b) < Along(b) => Along(b) < Along(w)
         /\ Along(b) < AlongOf(a, b) => Along(w) < Along(b)
<1>1. /\ a \in g.vertices /\ b \in g.vertices /\ w \in g.vertices /\ w \in t.nodes
      /\ IF b[1] = 0 THEN a[3] = b[3] /\ a[2] # b[2] ELSE b[1] = 1 /\ a[2] = b[2] /\ a[3] # b[3]
      /\ IF w[1] = 0 THEN b[3] = w[3] /\ b[2] # w[2] ELSE w[1] = 1 /\ b[2] = w[2] /\ b[3] # w[3]
  BY WireIs
<1>2. OnLine(b, w) /\ w[1] = b[1] /\ Along(b) # Along(w)
  BY <1>1 DEF OnLine, Along
<1>3. IsLaidOut(g) /\ IsTree(t, r)
  BY DEF WiredIn
<1>4. PICK u \in g.vertices : /\ OnLine(u, b) /\ <<u, b>> \in DOMAIN g.cost /\ Along(u) = AlongOf(a, b)
                              /\ ~SamePoint(u, b) /\ (u = a \/ u \notin t.nodes)
                              /\ SamePoint(u, a)
  BY WireIs
<1>5. PICK x \in g.vertices : /\ OnLine(x, w) /\ <<x, w>> \in DOMAIN g.cost /\ SamePoint(x, b)
                              /\ ~SamePoint(x, w)
  BY WireIs
<1>6. x = b
  <2>1. x[1] = b[1]
    BY <1>2, <1>5 DEF OnLine
  <2>2. QED
    BY <1>1, <1>3, <1>5, <2>1, TwoAtPoint
<1>7. OnLine(w, u) /\ OnLine(u, w) /\ OnLine(w, b) /\ OnLine(u, b) /\ OnLine(u, u) /\ OnLine(b, b)
  BY <1>2, <1>4 DEF OnLine
<1>8. /\ ~(Along(u) < Along(w) /\ Along(w) < Along(b))
      /\ ~(Along(b) < Along(w) /\ Along(w) < Along(u))
  <2>1. PICK d : d = <<u, b>> /\ d \in DOMAIN g.cost /\ d[1] = u /\ d[2] = b
    BY <1>4
  <2>2. QED
    BY <1>1, <1>3, <1>4, <1>7, <2>1 DEF IsLaidOut
<1>9. /\ ~(Along(b) < Along(u) /\ Along(u) < Along(w))
      /\ ~(Along(w) < Along(u) /\ Along(u) < Along(b))
  <2>1. PICK d : d = <<b, w>> /\ d \in DOMAIN g.cost /\ d[1] = b /\ d[2] = w
    BY <1>5, <1>6
  <2>2. QED
    BY <1>1, <1>3, <1>5, <1>6, <1>7, <2>1 DEF IsLaidOut
<1>10. Along(u) \in Int /\ Along(b) \in Int /\ Along(w) \in Int
  BY <1>1, <1>3, VertexIs DEF Along
<1>11. Along(u) # Along(w)
  <2>1. SUFFICES ASSUME Along(u) = Along(w)
                 PROVE  FALSE
    OBVIOUS
  <2>2. SamePoint(u, w) /\ u[1] = w[1]
    BY <1>7, <2>1 DEF OnLine, Along, SamePoint
  <2>3. u = w
    BY <1>1, <1>3, <2>2, TwoAtPoint
  <2>4. a = w
    BY <1>1, <1>4, <2>3
  <2>5. PICK n, depth : IsDeep(t, n, depth)
    BY <1>3 DEF IsTree
  <2>6. a \in t.nodes /\ b \in t.nodes
    BY <1>3 DEF IsTree
  <2>7. /\ depth[a] \in Int /\ depth[b] \in Int
        /\ \A e \in t.edges : depth[e[1]] < depth[e[2]]
    BY <2>5, <2>6 DEF IsDeep
  <2>8. depth[a] < depth[b]
    <3>1. PICK e \in t.edges : e = <<a, b>> /\ e[1] = a /\ e[2] = b
      OBVIOUS
    <3>2. QED
      BY <2>7, <3>1
  <2>9. depth[b] < depth[w]
    <3>1. PICK e \in t.edges : e = <<b, w>> /\ e[1] = b /\ e[2] = w
      OBVIOUS
    <3>2. QED
      BY <2>7, <3>1
  <2>10. QED
    BY <2>4, <2>7, <2>8, <2>9
<1>12. QED
  BY <1>2, <1>4, <1>8, <1>9, <1>10, <1>11

(* So a run stays on its line and does not come back. *)
Beyond(a, b, x) ==
  /\ OnLine(b, x)
  /\ AlongOf(a, b) < Along(b) => Along(b) <= Along(x)
  /\ Along(b) < AlongOf(a, b) => Along(x) <= Along(b)

(* An edge that stands for a run is straight, and joins two points. *)
LEMMA RunsStraight ==
  ASSUME NEW g, NEW t, NEW r, WiredIn(g, t, r), NEW End, IsEnd(t, End),
         NEW a, NEW b, <<a, b>> \in t.edges
  PROVE  (a[2] = End[b][2]) # (a[3] = End[b][3])
<1> DEFINE S == {v \in t.nodes : \A u : <<u, v>> \in t.edges => Beyond(u, v, End[v])}
           next == [v \in Spans(t) |-> Next1(t, v)]
<1>1. /\ IsTree(t, r) /\ IsFiniteSet(t.edges) /\ IsLaidOut(g)
      /\ \A v \in t.nodes : v \in g.vertices
  BY DEF WiredIn
<1>2. \A v \in t.nodes : End[v] = IF v \in Spans(t) THEN End[Next1(t, v)] ELSE v
  BY DEF IsEnd, Spans
<1>3. \A v \in t.nodes : Along(v) \in Int /\ v[2] \in Int /\ v[3] \in Int
  BY <1>1, VertexIs DEF Along
<1>4. PICK n, depth : IsDeep(t, n, depth)
  BY <1>1 DEF IsTree
<1>5. \A v \in t.nodes : End[v] \in t.nodes
  BY <1>1, <1>4, EndIs
<1>6. ASSUME NEW v \in t.nodes \ Spans(t)
      PROVE  v \in S
  <2>1. End[v] = v
    BY <1>2
  <2>2. ASSUME NEW u
        PROVE  Beyond(u, v, v)
    BY <1>3 DEF Beyond, OnLine
  <2>3. QED
    BY <2>1, <2>2
<1>7. ASSUME NEW v \in Spans(t), next[v] \in S
      PROVE  v \in S
  <2>1. PICK w : w = Next1(t, v) /\ w = next[v]
    OBVIOUS
  <2>2. v \in t.nodes /\ <<v, w>> \in t.edges
    BY <1>1, <2>1, InsideIs DEF Spans
  <2>3. PICK p \in t.nodes : <<p, v>> \in t.edges /\ IF p[3] = v[3] THEN w[3] = v[3] ELSE w[2] = v[2]
    <3>1. Inside(t, v)
      BY DEF Spans
    <3>2. \E p \in t.nodes : /\ <<p, v>> \in t.edges
                             /\ IF p[3] = v[3] THEN Next1(t, v)[3] = v[3]
                                               ELSE Next1(t, v)[2] = v[2]
      BY <1>1, <2>2, <3>1, InsideIs
    <3>3. w = Next1(t, v)
      BY <2>1
    <3> HIDE DEF next, S
    <3>4. QED
      BY <3>2, <3>3
  <2>4. End[v] = End[w] /\ w \in t.nodes
    BY <1>1, <1>2, <2>1, <2>2 DEF IsTree
  <2>5. Beyond(v, w, End[v])
    BY <1>7, <2>1, <2>2, <2>4
  <2>6. ASSUME NEW u, <<u, v>> \in t.edges
        PROVE  Beyond(u, v, End[v])
    <3>1. u = p
      <4>1. PICK e \in t.edges : e = <<u, v>> /\ e[1] = u /\ e[2] = v
        BY <2>6
      <4>2. PICK f \in t.edges : f = <<p, v>> /\ f[1] = p /\ f[2] = v
        BY <2>3
      <4>3. e = f
        BY <1>1, <4>1, <4>2 DEF IsTree
      <4>4. QED
        BY <4>1, <4>2, <4>3
    <3>2. /\ OnLine(v, w)
          /\ AlongOf(u, v) < Along(v) => Along(v) < Along(w)
          /\ Along(v) < AlongOf(u, v) => Along(w) < Along(v)
      BY <2>2, <2>3, <3>1, GoesOn
    <3>3. AlongOf(v, w) = Along(v)
      BY <3>2 DEF OnLine, AlongOf, Along
    <3>4. OnLine(v, End[v])
      BY <2>5, <3>2 DEF Beyond, OnLine
    <3>5. Along(v) \in Int /\ Along(w) \in Int /\ Along(End[v]) \in Int
      BY <1>3, <1>5, <2>2, <2>4
    <3>6. QED
      BY <2>5, <3>2, <3>3, <3>4, <3>5 DEF Beyond
  <2>7. QED
    BY <2>2, <2>6
<1>8. PICK m, measure : Sinks(t.nodes, Spans(t), next, measure, m)
  BY <1>1, ChildSinks
<1>9. t.nodes \subseteq S
  <2> HIDE DEF S, next
  <2>1. QED
    BY <1>6, <1>7, <1>8, Sinking
<1>10. b \in t.nodes /\ a \in t.nodes
  BY <1>1 DEF IsTree
<1>11. Beyond(a, b, End[b])
  BY <1>9, <1>10
<1>12. IF b[1] = 0 THEN a[3] = b[3] /\ a[2] # b[2] ELSE b[1] = 1 /\ a[2] = b[2] /\ a[3] # b[3]
  BY WireIs
<1>13. /\ a[2] \in Int /\ a[3] \in Int /\ b[2] \in Int /\ b[3] \in Int
       /\ End[b][2] \in Int /\ End[b][3] \in Int
  BY <1>3, <1>5, <1>10
<1>14. PICK x : x = End[b]
  OBVIOUS
<1>15. QED
  BY <1>11, <1>12, <1>13, <1>14 DEF Beyond, OnLine, AlongOf, Along

----------------------------------------------------------------------------
Parent(t, v) == (CHOOSE e \in t.edges : e[2] = v)[1]

(* The parent of a node, and the only edge to it. *)
LEMMA ParentIs ==
  ASSUME NEW t, NEW r, IsTree(t, r), NEW v \in t.nodes \ {r}
  PROVE  /\ <<Parent(t, v), v>> \in t.edges /\ Parent(t, v) \in t.nodes
         /\ \A e \in t.edges : e[2] = v => e = <<Parent(t, v), v>>
<1>1. PICK e \in t.edges : e[2] = v
  BY DEF IsTree
<1>2. \A f \in t.edges : f[2] = v => f = e
  BY <1>1 DEF IsTree
<1>3. (CHOOSE f \in t.edges : f[2] = v) = e
  BY <1>1, <1>2
<1>4. e = <<e[1], e[2]>> /\ e[1] \in t.nodes
  BY DEF IsTree
<1>5. QED
  BY <1>1, <1>2, <1>3, <1>4 DEF Parent

(* Removing the nodes inside straight lines leaves a tree. *)
LEMMA StraightenedTree ==
  ASSUME NEW t, NEW r, IsTree(t, r), IsFiniteSet(t.edges), r \in t.fixed, t.fixed \subseteq t.nodes,
         NEW End, IsEnd(t, End), NEW u, u.nodes = t.nodes \ Spans(t),
         u.edges = {<<e[1], End[e[2]]>> : e \in {f \in t.edges : f[1] \notin Spans(t)}}
  PROVE  IsTree(u, r) /\ t.fixed \subseteq u.nodes
<1> DEFINE N == t.nodes \ {r}
           J == {v \in N : Parent(t, v) \in Spans(t)}
           up == [v \in J |-> Parent(t, v)]
<1>1. PICK n, depth : IsDeep(t, n, depth)
  BY DEF IsTree
<1>2. n \in Nat /\ depth \in [t.nodes -> 0 .. n] /\ \A e \in t.edges : depth[e[1]] < depth[e[2]]
  BY <1>1 DEF IsDeep
<1>3. /\ r \in t.nodes /\ t.edges \subseteq t.nodes \X t.nodes
      /\ \A e \in t.edges : e = <<e[1], e[2]>> /\ e[1] \in t.nodes /\ e[2] \in N
      /\ \A e, f \in t.edges : e[2] = f[2] => e = f
  BY DEF IsTree
<1>4. \A v \in t.fixed : v \notin Spans(t)
  BY DEF Spans, Inside
<1>5. r \notin Spans(t) /\ t.fixed \subseteq u.nodes
  BY <1>4
<1>6. ASSUME NEW v \in N
      PROVE  /\ <<Parent(t, v), v>> \in t.edges /\ Parent(t, v) \in t.nodes
             /\ \A e \in t.edges : e[2] = v => e = <<Parent(t, v), v>>
             /\ depth[Parent(t, v)] < depth[v]
  <2>1. /\ <<Parent(t, v), v>> \in t.edges /\ Parent(t, v) \in t.nodes
        /\ \A e \in t.edges : e[2] = v => e = <<Parent(t, v), v>>
    BY ParentIs
  <2>2. PICK e \in t.edges : e = <<Parent(t, v), v>> /\ e[1] = Parent(t, v) /\ e[2] = v
    BY <2>1
  <2>3. QED
    BY <1>2, <2>1, <2>2
<1>7. ASSUME NEW v \in Spans(t)
      PROVE  /\ v \in t.nodes /\ <<v, Next1(t, v)>> \in t.edges /\ Next1(t, v) \in N
             /\ \A e \in t.edges : e[1] = v => e = <<v, Next1(t, v)>>
             /\ End[v] = End[Next1(t, v)]
  <2>1. /\ v \in t.nodes /\ <<v, Next1(t, v)>> \in t.edges
        /\ \A e \in t.edges : e[1] = v => e = <<v, Next1(t, v)>>
    BY InsideIs DEF Spans
  <2>2. Next1(t, v) \in N
    BY <1>3, <2>1
  <2>3. End[v] = End[Next1(t, v)]
    BY <2>1 DEF IsEnd, Spans
  <2>4. QED
    BY <2>1, <2>2, <2>3
<1>8. ASSUME NEW v \in t.nodes
      PROVE  /\ End[v] \in t.nodes \ Spans(t) /\ (v # r => End[v] # r) /\ depth[v] <= depth[End[v]]
             /\ v \notin Spans(t) => End[v] = v
  BY <1>1, EndIs
<1>9. Sinks(N, J, up, [v \in N |-> depth[v]], n)
  <2>1. \A v \in J : v \in N /\ up[v] = Parent(t, v) /\ up[v] \in N /\ depth[up[v]] < depth[v]
    BY <1>5, <1>6
  <2>2. up \in [J -> N]
    <3>1. up = [v \in J |-> up[v]]
      OBVIOUS
    <3> HIDE DEF up
    <3>2. QED
      BY <2>1, <3>1
  <2> DEFINE d == [v \in N |-> depth[v]]
  <2>3. d \in [N -> 0 .. n]
    BY <1>2
  <2>4. \A v \in J : d[up[v]] < d[v]
    BY <2>1
  <2>5. J \subseteq N
    OBVIOUS
  <2> HIDE DEF d, up, J, N
  <2>6. Sinks(N, J, up, d, n)
    BY <1>2, <2>2, <2>3, <2>4, <2>5 DEF Sinks
  <2>7. QED
    BY <2>6 DEF d
<1>10. PICK Top : Top = [v \in N |-> IF v \in J THEN Top[up[v]] ELSE v]
  <2> HIDE DEF N, J, up
  <2>1. QED
    BY <1>9, EndsExist
<1>11. ASSUME NEW v \in N
       PROVE  /\ v \in J => Top[v] = Top[Parent(t, v)]
              /\ v \notin J => Top[v] = v
  <2>1. Top[v] = IF v \in J THEN Top[up[v]] ELSE v
    <3> HIDE DEF N, J, up
    <3>1. QED
      BY <1>10
  <2>2. QED
    BY <2>1
<1>12. ASSUME NEW v \in N
       PROVE  Top[v] \in N \ J /\ End[Top[v]] = End[v]
  <2> DEFINE S == {b \in N : Top[b] \in N \ J /\ End[Top[b]] = End[b]}
  <2>1. ASSUME NEW b \in N \ J
        PROVE  b \in S
    BY <1>11
  <2>2. ASSUME NEW b \in J, up[b] \in S
        PROVE  b \in S
    <3>1. PICK a : a = Parent(t, b) /\ a = up[b]
      OBVIOUS
    <3>2. a \in Spans(t) /\ <<a, b>> \in t.edges
      BY <1>6, <3>1
    <3>3. b = Next1(t, a)
      BY <1>7, <3>2
    <3>4. End[a] = End[b]
      BY <1>7, <3>2, <3>3
    <3>5. Top[b] = Top[a]
      BY <1>11, <3>1
    <3>6. QED
      BY <2>2, <3>1, <3>4, <3>5
  <2>3. N \subseteq S
    <3> HIDE DEF N, J, up, S
    <3>1. QED
      BY <1>9, <2>1, <2>2, Sinking
  <2>4. QED
    BY <2>3
<1>13. ASSUME NEW v \in N
       PROVE  Top[End[v]] = Top[v]
  <2> DEFINE S == {b \in t.nodes : b # r => Top[End[b]] = Top[b]}
             next == [b \in Spans(t) |-> Next1(t, b)]
  <2>1. \A b \in t.nodes \ Spans(t) : b \in S
    BY <1>8
  <2>2. ASSUME NEW b \in Spans(t), next[b] \in S
        PROVE  b \in S
    <3>1. PICK w : w = Next1(t, b) /\ w = next[b]
      OBVIOUS
    <3>2. w \in N /\ <<b, w>> \in t.edges /\ End[b] = End[w] /\ b \in t.nodes
      BY <1>7, <3>1
    <3>3. Parent(t, w) = b
      BY <1>6, <3>2
    <3>4. Top[w] = Top[b]
      BY <1>11, <3>2, <3>3
    <3>5. Top[End[w]] = Top[w]
      BY <2>2, <3>1, <3>2
    <3>6. QED
      BY <3>2, <3>4, <3>5
  <2>3. PICK m, measure : Sinks(t.nodes, Spans(t), next, measure, m)
    BY ChildSinks
  <2>4. t.nodes \subseteq S
    <3> HIDE DEF S, next
    <3>1. QED
      BY <2>1, <2>2, <2>3, Sinking
  <2>5. QED
    BY <2>4
<1>14. ASSUME NEW e \in u.edges
       PROVE  \E d \in t.edges : /\ e = <<d[1], End[d[2]]>> /\ d[1] \notin Spans(t)
                                 /\ d[2] \in N \ J /\ Top[End[d[2]]] = d[2]
  <2>1. PICK d \in t.edges : e = <<d[1], End[d[2]]>> /\ d[1] \notin Spans(t)
    OBVIOUS
  <2>6. d[2] \in N
    BY <1>3
  <2>7. \A v \in N : \A f \in t.edges : f[2] = v => f = <<Parent(t, v), v>>
    BY <1>6
  <2>2. d[2] \in N /\ Parent(t, d[2]) = d[1]
    BY <2>6, <2>7
  <2>3. d[2] \notin J
    BY <2>1, <2>2
  <2>4. Top[End[d[2]]] = d[2]
    BY <1>11, <1>13, <2>2, <2>3
  <2>5. QED
    BY <2>1, <2>2, <2>3, <2>4
<1>15. ASSUME NEW e \in u.edges
       PROVE  e \in u.nodes \X u.nodes /\ e[2] # r /\ depth[e[1]] < depth[e[2]]
  <2>1. PICK d \in t.edges : e = <<d[1], End[d[2]]>> /\ d[1] \notin Spans(t) /\ d[2] \in N
    BY <1>14
  <2>2. d[1] \in t.nodes /\ d[2] \in t.nodes /\ depth[d[1]] < depth[d[2]]
    BY <1>2, <1>3
  <2>3. End[d[2]] \in t.nodes \ Spans(t) /\ End[d[2]] # r /\ depth[d[2]] <= depth[End[d[2]]]
    BY <1>8, <2>1
  <2>4. depth[d[1]] \in Int /\ depth[d[2]] \in Int /\ depth[End[d[2]]] \in Int
    BY <1>2, <2>2, <2>3
  <2>5. QED
    BY <2>1, <2>2, <2>3, <2>4
<1>16. ASSUME NEW v \in u.nodes, v # r
       PROVE  \E e \in u.edges : e[2] = v
  <2>1. v \in N /\ End[v] = v
    BY <1>8, <1>16
  <2>2. PICK b \in N \ J : b = Top[v] /\ End[b] = v
    BY <1>12, <2>1
  <2>3. PICK d \in t.edges : d = <<Parent(t, b), b>> /\ d[1] = Parent(t, b) /\ d[2] = b
    BY <1>6
  <2>4. d[1] \notin Spans(t)
    BY <2>3
  <2>5. <<d[1], End[d[2]]>> \in u.edges
    BY <2>4
  <2>6. QED
    BY <2>2, <2>3, <2>5
<1>17. ASSUME NEW e \in u.edges, NEW f \in u.edges, e[2] = f[2]
       PROVE  e = f
  <2>1. PICK d \in t.edges : e = <<d[1], End[d[2]]>> /\ Top[End[d[2]]] = d[2]
    BY <1>14
  <2>2. PICK h \in t.edges : f = <<h[1], End[h[2]]>> /\ Top[End[h[2]]] = h[2]
    BY <1>14
  <2>3. d[2] = h[2]
    BY <1>17, <2>1, <2>2
  <2>4. QED
    BY <1>3, <2>1, <2>2, <2>3
<1>18. IsDeep(u, n, [v \in u.nodes |-> depth[v]])
  <2> DEFINE d == [v \in u.nodes |-> depth[v]]
  <2>1. d \in [u.nodes -> 0 .. n]
    BY <1>2
  <2>2. \A e \in u.edges : d[e[1]] < d[e[2]]
    BY <1>15
  <2> HIDE DEF d
  <2>3. QED
    BY <1>2, <2>1, <2>2 DEF IsDeep, d
<1>19. r \in u.nodes
  BY <1>5
<1>20. \E m, d : IsDeep(u, m, d)
  BY <1>18
<1>21. QED
  BY <1>5, <1>15, <1>16, <1>17, <1>19, <1>20 DEF IsTree

----------------------------------------------------------------------------
(* What getSteinerTree makes of the pins g.pins. *)
Joins(g, tree) ==
  /\ \A p \in g.pins : \E v \in tree.fixed : SamePoint(p, v)
  /\ Cardinality(tree.fixed) = Cardinality(g.pins)
  /\ tree.fixed \subseteq tree.nodes
  /\ \E root \in tree.nodes :
       /\ SamePoint(root, g.start) /\ {e[1] : e \in {f \in tree.edges : f[2] = root}} = {}
       /\ \A v \in tree.nodes \ {root} : Cardinality({e[1] : e \in {f \in tree.edges : f[2] = v}}) = 1
  /\ tree.edges \subseteq tree.nodes \X tree.nodes
  /\ \A e \in tree.edges : (e[1][2] = e[2][2]) # (e[1][3] = e[2][3])

(* Pins at different points keep nodes of their own. *)
LEMMA PinsKept ==
  ASSUME NEW g, NEW t, NEW r, IsTree(t, r), InGraph(g, t), g.pins \subseteq t.nodes,
         NEW F, F = {Rep(t, v) : v \in g.pins}
  PROVE  /\ \A p \in g.pins : \E v \in F : SamePoint(p, v)
         /\ Cardinality(F) = Cardinality(g.pins)
<1>1. ASSUME NEW p \in g.pins
      PROVE  Rep(t, p) \in F /\ SamePoint(Rep(t, p), p)
  BY RepIs
<1>2. ASSUME NEW p \in g.pins, NEW q \in g.pins, Rep(t, p) = Rep(t, q)
      PROVE  p = q
  <2>1. SamePoint(q, p)
    BY <1>1, <1>2 DEF SamePoint
  <2>2. QED
    BY <2>1 DEF InGraph, IsGraph
<1>3. IsFiniteSet(g.pins)
  BY FS_Subset DEF InGraph, IsGraph
<1> DEFINE f == [p \in g.pins |-> Rep(t, p)]
<1>4. f \in Bijection(g.pins, F)
  <2>1. f \in [g.pins -> F]
    BY <1>1
  <2>2. \A p, q \in g.pins : f[p] = f[q] => p = q
    BY <1>2
  <2>3. \A x \in F : \E p \in g.pins : f[p] = x
    OBVIOUS
  <2> HIDE DEF f
  <2>4. QED
    BY <2>1, <2>2, <2>3, Fun_IsBij
<1>5. Cardinality(F) = Cardinality(g.pins)
  <2> HIDE DEF f
  <2>1. ExistsBijection(g.pins, F)
    BY <1>4 DEF ExistsBijection
  <2>2. QED
    BY <1>3, <2>1, FS_Bijection
<1>6. \A p \in g.pins : \E v \in F : SamePoint(p, v)
  BY <1>1 DEF SamePoint
<1>7. QED
  BY <1>5, <1>6

(* A tree has one root, and every other node one parent. *)
LEMMA OneParent ==
  ASSUME NEW t, NEW r, IsTree(t, r)
  PROVE  /\ {e[1] : e \in {f \in t.edges : f[2] = r}} = {}
         /\ \A v \in t.nodes \ {r} : Cardinality({e[1] : e \in {f \in t.edges : f[2] = v}}) = 1
<1>1. {e[1] : e \in {f \in t.edges : f[2] = r}} = {}
  BY DEF IsTree
<1>2. ASSUME NEW v \in t.nodes \ {r}
      PROVE  Cardinality({e[1] : e \in {f \in t.edges : f[2] = v}}) = 1
  <2>1. <<Parent(t, v), v>> \in t.edges /\ \A e \in t.edges : e[2] = v => e = <<Parent(t, v), v>>
    BY ParentIs
  <2>2. {e[1] : e \in {f \in t.edges : f[2] = v}} = {Parent(t, v)}
    <3>1. PICK d \in t.edges : d = <<Parent(t, v), v>> /\ d[1] = Parent(t, v) /\ d[2] = v
      BY <2>1
    <3>2. {f \in t.edges : f[2] = v} = {d}
      BY <2>1, <3>1
    <3>3. QED
      BY <3>1, <3>2
  <2>3. QED
    BY <2>2, FS_Singleton
<1>3. QED
  BY <1>1, <1>2

(* The paths over all pins give one tree of straight edges over them. *)
LEMMA TreeJoins ==
  ASSUME NEW g, NEW t, IsTree(t, g.start), InGraph(g, t), t.fixed = g.pins, g.pins \subseteq t.nodes
  PROVE  Joins(g, Straightened(Contracted(t)))
<1>1. PICK c : c = Contracted(t)
  OBVIOUS
<1>2. /\ IsTree(c, g.start) /\ Wired(g, c) /\ c.nodes \subseteq t.nodes
      /\ g.start \in c.fixed /\ c.fixed \subseteq c.nodes
      /\ c.fixed = {Rep(t, v) : v \in g.pins}
  <2>1. g.start \in t.fixed
    BY DEF InGraph, IsGraph
  <2>2. QED
    BY <1>1, <2>1, ContractedTree
<1>3. c.nodes \subseteq g.vertices /\ IsFiniteSet(g.vertices) /\ IsGraph(g) /\ IsLaidOut(g)
  BY <1>2 DEF InGraph, IsGraph
<1>4. IsFiniteSet(c.edges)
  <2>1. IsFiniteSet(g.vertices \X g.vertices)
    BY <1>3, FS_Product
  <2>2. c.edges \subseteq g.vertices \X g.vertices
    BY <1>2, <1>3 DEF IsTree
  <2>3. QED
    BY <2>1, <2>2, FS_Subset
<1>5. WiredIn(g, c, g.start)
  BY <1>2, <1>3, <1>4 DEF WiredIn
<1>6. PICK s : s = Straightened(c)
  OBVIOUS
<1>7. PICK End : /\ IsEnd(c, End)
                 /\ s.nodes = c.nodes \ Spans(c) /\ s.fixed = c.fixed
                 /\ s.edges = {<<e[1], End[e[2]]>> : e \in {f \in c.edges : f[1] \notin Spans(c)}}
  BY <1>2, <1>4, <1>6, StraightIs
<1>8. IsTree(s, g.start) /\ s.fixed \subseteq s.nodes
  BY <1>2, <1>4, <1>7, StraightenedTree
<1>9. /\ \A p \in g.pins : \E v \in s.fixed : SamePoint(p, v)
      /\ Cardinality(s.fixed) = Cardinality(g.pins)
  BY <1>2, <1>7, PinsKept
<1>10. ASSUME NEW e \in s.edges
       PROVE  (e[1][2] = e[2][2]) # (e[1][3] = e[2][3])
  <2>1. PICK d \in c.edges : e = <<d[1], End[d[2]]>>
    BY <1>7
  <2>2. PICK a, b : d = <<a, b>>
    BY <1>2 DEF IsTree
  <2>3. (a[2] = End[b][2]) # (a[3] = End[b][3])
    BY <1>5, <1>7, <2>2, RunsStraight
  <2>4. e[1] = a /\ e[2] = End[b]
    BY <2>1, <2>2
  <2>5. QED
    BY <2>3, <2>4
<1>11. g.start \in s.nodes /\ s.edges \subseteq s.nodes \X s.nodes /\ SamePoint(g.start, g.start)
  BY <1>8 DEF IsTree, SamePoint
<1>12. /\ {e[1] : e \in {f \in s.edges : f[2] = g.start}} = {}
       /\ \A v \in s.nodes \ {g.start} : Cardinality({e[1] : e \in {f \in s.edges : f[2] = v}}) = 1
  BY <1>8, OneParent
<1>13. Joins(g, s)
  BY <1>8, <1>9, <1>10, <1>11, <1>12 DEF Joins
<1>14. QED
  BY <1>1, <1>6, <1>13

(* A net of one pseudo pin is its node. *)
LEMMA NodeJoins ==
  ASSUME NEW g, g.pins = {g.start}
  PROVE  Joins(g, [nodes |-> {g.start}, edges |-> {}, fixed |-> {g.start}])
<1>1. PICK t : t = [nodes |-> {g.start}, edges |-> {}, fixed |-> {g.start}]
  OBVIOUS
<1>2. t.nodes = {g.start} /\ t.edges = {} /\ t.fixed = {g.start}
  BY <1>1
<1>3. Joins(g, t)
  BY <1>2 DEF Joins, SamePoint
<1>4. QED
  BY <1>1, <1>3

(* The invariants imply the property. *)
LEMMA TreeInvSpans ==
  IInv /\ NearInv /\ TreeInv => TreeSpansPins
<1> SUFFICES ASSUME IInv, NearInv, TreeInv
             PROVE  TreeSpansPins
  OBVIOUS
<1>1. /\ graph \in Graphs /\ IsGraph(graph) /\ IsLaidOut(graph)
      /\ visited \subseteq graph.pins /\ graph.start \in visited /\ IsFiniteSet(visited)
  BY GraphsAssumption DEF IInv, TypeOK
<1>2. ASSUME Detached = {}
      PROVE  visited = graph.pins
  BY <1>1, <1>2 DEF Detached
<1>3. CASE solutions = <<>>
  <2>1. Tree.fixed = {graph.start}
    BY <1>3 DEF Tree
  <2>2. visited = {graph.start}
    BY <2>1 DEF TreeInv
  <2>3. ASSUME Detached = {}
        PROVE  Joins(graph, SteinerTree)
    <3>1. graph.pins = {graph.start}
      BY <1>2, <2>2, <2>3
    <3>2. QED
      BY <1>3, <3>1, NodeJoins DEF SteinerTree
  <2>4. QED
    BY <2>3 DEF TreeSpansPins, Joins, TreeInv
<1>4. CASE solutions # <<>>
  <2>1. Tree = Paths
    BY <1>4 DEF Tree
  <2>2. /\ IsTree(Paths, graph.start) /\ Paths.edges \subseteq DOMAIN graph.cost
        /\ Paths.fixed = visited /\ visited \subseteq Paths.nodes /\ Paths.nodes = Built
    BY <2>1 DEF TreeInv
  <2>3. Paths.nodes \subseteq graph.vertices
    BY <2>2 DEF NearInv, OnTree, IInv, TypeOK
  <2>4. InGraph(graph, Paths)
    BY <1>1, <2>2, <2>3 DEF InGraph
  <2>5. ASSUME Detached = {}
        PROVE  Joins(graph, SteinerTree)
    <3>1. Paths.fixed = graph.pins /\ graph.pins \subseteq Paths.nodes
      BY <1>2, <2>2, <2>5
    <3>2. Joins(graph, Straightened(Contracted(Paths)))
      BY <2>2, <2>4, <3>1, TreeJoins
    <3>3. QED
      BY <1>4, <3>2 DEF SteinerTree
  <2>6. QED
    BY <2>5 DEF TreeSpansPins, Joins, TreeInv
<1>5. QED
  BY <1>3, <1>4

(* The paths found are always one tree, whose nodes are the ones the       *)
(* search starts from, over the pins connected.                            *)
THEOREM PathsFormTree == Spec => [](IInv /\ NearInv /\ TreeInv)
<1>1. Init => IInv /\ NearInv /\ TreeInv
  BY InitEstablishes, InitNear, InitTree
<1>2. (IInv /\ NearInv /\ TreeInv) /\ [Next]_vars => (IInv /\ NearInv /\ TreeInv)'
  BY NextKeeps, NextNear, NextTree
<1>3. QED
  BY <1>1, <1>2, PTL DEF Spec

(* When all pins are connected, getSteinerTree makes one tree of the paths *)
(* found: it has a node of its own for each pin, and every edge is a        *)
(* straight line between two points.  So the error it logs for an edge      *)
(* between two nodes at one point is never logged, on any graph.            *)
THEOREM TreeOverPins == Spec => []TreeSpansPins
<1>1. QED
  BY TreeInvSpans, PathsFormTree, PTL

----------------------------------------------------------------------------
(* From one line of a set every other is reached by way of those between. *)
LEMMA LinesReached ==
  ASSUME NEW lines, lines \subseteq Int, NEW T \in SUBSET lines, NEW z \in T,
         \A a, b \in lines : Consecutive(lines, a, b) => (a \in T <=> b \in T)
  PROVE  T = lines
<1> SUFFICES ASSUME NEW y \in lines \ T
             PROVE  FALSE
  OBVIOUS
<1> DEFINE Gap(a, b) == IF a < b THEN b - a ELSE a - b
           Gaps == {Gap(p[1], p[2]) : p \in T \X (lines \ T)}
<1>1. \A a, b \in Int : Gap(a, b) \in Nat
  OBVIOUS
<1>2. Gaps \subseteq Nat /\ Gap(z, y) \in Gaps
  <2>1. \A p \in T \X (lines \ T) : Gap(p[1], p[2]) \in Nat
    <3> HIDE DEF Gap
    <3>1. ASSUME NEW p \in T \X (lines \ T)
          PROVE  Gap(p[1], p[2]) \in Nat
      <4>1. PICK u, v : u = p[1] /\ v = p[2] /\ u \in Int /\ v \in Int
        OBVIOUS
      <4>2. Gap(u, v) \in Nat
        BY <1>1, <4>1
      <4>3. QED
        BY <4>1, <4>2
    <3>2. QED
      BY <3>1
  <2>2. <<z, y>> \in T \X (lines \ T) /\ <<z, y>>[1] = z /\ <<z, y>>[2] = y
    OBVIOUS
  <2> HIDE DEF Gap
  <2>3. QED
    BY <2>1, <2>2
<1>3. PICK d \in Gaps : \A e \in Gaps : d <= e
  <2> HIDE DEF Gaps
  <2>1. QED
    BY <1>2, LeastNumber
<1>4. PICK a \in T, b \in lines \ T : d = Gap(a, b)
  <2> HIDE DEF Gap
  <2>1. PICK p \in T \X (lines \ T) : d = Gap(p[1], p[2])
    OBVIOUS
  <2>2. QED
    BY <2>1
<1>5. ASSUME NEW u \in T, NEW v \in lines \ T
      PROVE  d <= Gap(u, v)
  <2>1. Gap(u, v) \in Gaps
    <3> HIDE DEF Gap
    <3>1. <<u, v>> \in T \X (lines \ T) /\ <<u, v>>[1] = u /\ <<u, v>>[2] = v
      OBVIOUS
    <3>2. QED
      BY <3>1
  <2>2. QED
    BY <1>3, <2>1
<1>6. a \in Int /\ b \in Int /\ a # b
  OBVIOUS
<1>7. ASSUME NEW c \in lines, (a < c /\ c < b) \/ (b < c /\ c < a)
      PROVE  FALSE
  <2>1. c \in Int
    OBVIOUS
  <2>2. CASE c \in T
    <3>1. d <= Gap(c, b)
      BY <1>5, <2>2
    <3>2. QED
      BY <1>4, <1>6, <1>7, <2>1, <3>1
  <2>3. CASE c \notin T
    <3>1. d <= Gap(a, c)
      BY <1>5, <2>3
    <3>2. QED
      BY <1>4, <1>6, <1>7, <2>1, <3>1
  <2>4. QED
    BY <2>2, <2>3
<1>8. Consecutive(lines, a, b) \/ Consecutive(lines, b, a)
  <2>1. CASE a < b
    <3>1. ~\E c \in lines : a < c /\ c < b
      BY <1>7
    <3>2. QED
      BY <2>1, <3>1 DEF Consecutive
  <2>2. CASE b < a
    <3>1. ~\E c \in lines : b < c /\ c < a
      BY <1>7
    <3>2. QED
      BY <2>2, <3>1 DEF Consecutive
  <2>3. QED
    BY <1>6, <2>1, <2>2
<1>9. QED
  BY <1>8

(* What SparseGraph::init is called with: pins on the chip, the grid's     *)
(* lines, and wires and vias that cost something.                          *)
IsInput(points, first, xGrid, yGrid, xSize, ySize, wire, viaCost) ==
  /\ xSize \in Nat /\ ySize \in Nat
  /\ points \subseteq (0 .. xSize - 1) \X (0 .. ySize - 1) /\ first \in points
  /\ xGrid \in [interval : Nat \ {0}, offset : Nat] /\ yGrid \in [interval : Nat \ {0}, offset : Nat]
  /\ viaCost \in Nat \ {0}
  /\ \A x \in 0 .. xSize - 2, y \in 0 .. ySize - 1 : wire[<<H, x, y>>] \in Nat \ {0}
  /\ \A x \in 0 .. xSize - 1, y \in 0 .. ySize - 2 : wire[<<V, x, y>>] \in Nat \ {0}

(* A wire from one line to a later one costs something. *)
LEMMA RowCosts ==
  ASSUME NEW n \in Nat, NEW a \in 0 .. n - 1, NEW b \in 0 .. n - 1, a < b,
         NEW f, DOMAIN f = a .. b - 1, \A x \in 0 .. n - 2 : x \in DOMAIN f => f[x] \in Nat \ {0}
  PROVE  SumFunction(f) \in Nat \ {0}
<1>1. IsFiniteSet(DOMAIN f) /\ a \in DOMAIN f
  BY FS_Interval
<1>2. \A x \in DOMAIN f : f[x] \in Nat /\ f[x] > 0
  OBVIOUS
<1>3. QED
  BY <1>1, <1>2, SumPositive

(* The lines hold those of the pins, and lie on the chip. *)
LEMMA LinesAre ==
  ASSUME NEW size \in Nat, NEW pins, pins \subseteq 0 .. size - 1, NEW grid
  PROVE  /\ pins \subseteq Lines(pins, grid, size)
         /\ Lines(pins, grid, size) \subseteq 0 .. size - 1
         /\ IsFiniteSet(Lines(pins, grid, size))
<1>1. /\ pins \subseteq Lines(pins, grid, size)
      /\ Lines(pins, grid, size) \subseteq 0 .. size - 1
  BY DEF Lines
<1>2. IsFiniteSet(0 .. size - 1)
  BY FS_Interval
<1>3. QED
  BY <1>1, <1>2, FS_Subset

(* The edges of a sparse graph, over the lines xs and ys. *)
Plane(xs, ys) == {0, 1} \X xs \X ys
Wires(xs, ys) == {e \in Plane(xs, ys) \X Plane(xs, ys) : SameLayer(xs, ys, e[1], e[2])}
Vias(xs, ys) == {<<<<0, p[1], p[2]>>, <<1, p[1], p[2]>>>> : p \in xs \X ys}
Forward(xs, ys) == Wires(xs, ys) \cup Vias(xs, ys)

(* A vertex is its plane, its column and its row. *)
LEMMA PlaneIs ==
  ASSUME NEW xs, NEW ys, NEW v \in Plane(xs, ys)
  PROVE  v = <<v[1], v[2], v[3]>> /\ v[1] \in {0, 1} /\ v[2] \in xs /\ v[3] \in ys
BY DEF Plane

(* A wire leads from a line to the next one. *)
Leads(xs, ys, e) ==
  \E d \in {0, 1}, x \in xs, y \in ys, k \in xs \cup ys :
    /\ e[1] = <<d, x, y>>
    /\ d = 0 => e[2] = <<0, k, y>> /\ k \in xs /\ Consecutive(xs, x, k)
    /\ d = 1 => e[2] = <<1, x, k>> /\ k \in ys /\ Consecutive(ys, y, k)

(* All wires do. *)
LEMMA WiresAre ==
  ASSUME NEW xs, NEW ys, xs \subseteq Int, ys \subseteq Int, NEW e \in Wires(xs, ys)
  PROVE  Leads(xs, ys, e)
<1>0. \A v \in Plane(xs, ys) : v = <<v[1], v[2], v[3]>> /\ v[1] \in {0, 1} /\ v[2] \in xs /\ v[3] \in ys
  BY PlaneIs
<1>1. PICK u \in Plane(xs, ys), v \in Plane(xs, ys) : e = <<u, v>>
  BY DEF Wires
<1>2. e[1] = u /\ e[2] = v /\ SameLayer(xs, ys, u, v)
  BY <1>1 DEF Wires
<1>3. PICK d \in {0, 1}, x \in xs, y \in ys : u = <<d, x, y>>
  BY <1>0
<1>4. PICK c \in {0, 1}, z \in xs, w \in ys : v = <<c, z, w>>
  BY <1>0
<1>5. \/ d = 0 /\ c = 0 /\ y = w /\ Consecutive(xs, x, z)
      \/ d = 1 /\ c = 1 /\ x = z /\ Consecutive(ys, y, w)
  BY <1>2, <1>3, <1>4 DEF SameLayer, H, V
<1>6. QED
  BY <1>2, <1>3, <1>4, <1>5 DEF Leads

(* And from every line to the next one there is a wire. *)
LEMMA WireOf ==
  ASSUME NEW xs, NEW ys, NEW x \in xs, NEW y \in ys, NEW k
  PROVE  /\ k \in xs /\ Consecutive(xs, x, k) => <<<<0, x, y>>, <<0, k, y>>>> \in Wires(xs, ys)
         /\ k \in ys /\ Consecutive(ys, y, k) => <<<<1, x, y>>, <<1, x, k>>>> \in Wires(xs, ys)
         /\ <<<<0, x, y>>, <<1, x, y>>>> \in Vias(xs, ys)
<1>1. ASSUME k \in xs, Consecutive(xs, x, k)
      PROVE  <<<<0, x, y>>, <<0, k, y>>>> \in Wires(xs, ys)
  <2>1. PICK u, v : u = <<0, x, y>> /\ v = <<0, k, y>>
    OBVIOUS
  <2>2. u \in Plane(xs, ys) /\ v \in Plane(xs, ys)
    BY <1>1, <2>1 DEF Plane
  <2>3. SameLayer(xs, ys, u, v)
    BY <1>1, <2>1 DEF SameLayer, H, V
  <2>4. QED
    BY <2>1, <2>2, <2>3 DEF Wires
<1>2. ASSUME k \in ys, Consecutive(ys, y, k)
      PROVE  <<<<1, x, y>>, <<1, x, k>>>> \in Wires(xs, ys)
  <2>1. PICK u, v : u = <<1, x, y>> /\ v = <<1, x, k>>
    OBVIOUS
  <2>2. u \in Plane(xs, ys) /\ v \in Plane(xs, ys)
    BY <1>2, <2>1 DEF Plane
  <2>3. SameLayer(xs, ys, u, v)
    BY <1>2, <2>1 DEF SameLayer, H, V
  <2>4. QED
    BY <2>1, <2>2, <2>3 DEF Wires
<1>3. <<<<0, x, y>>, <<1, x, y>>>> \in Vias(xs, ys)
  <2>1. PICK p \in xs \X ys : p[1] = x /\ p[2] = y
    <3>1. <<x, y>> \in xs \X ys /\ <<x, y>>[1] = x /\ <<x, y>>[2] = y
      OBVIOUS
    <3>2. QED
      BY <3>1
  <2>2. QED
    BY <2>1 DEF Vias
<1>4. QED
  BY <1>1, <1>2, <1>3

(* The graph as init builds it, on the lines of the pins and of the grid.  *)
IsBuilt(g, xs, ys, points, first, wire, viaCost) ==
  /\ g.vertices = Plane(xs, ys)
  /\ g.pins = {<<0, p[1], p[2]>> : p \in points}
  /\ g.start = <<0, first[1], first[2]>>
  /\ DOMAIN g.cost = Forward(xs, ys) \cup {<<e[2], e[1]>> : e \in Forward(xs, ys)}
  /\ g.cost = [e \in DOMAIN g.cost |-> g.cost[e]]
  /\ \A e \in DOMAIN g.cost :
       \E f \in Forward(xs, ys) :
         /\ f = IF e \in Forward(xs, ys) THEN e ELSE <<e[2], e[1]>>
         /\ g.cost[e] = IF f \in Wires(xs, ys) THEN WireCost(wire, f[1], f[2])
                        ELSE IF <<f[1][2], f[1][3]>> \in points THEN 0 ELSE viaCost

(* So it does. *)
LEMMA GraphIsBuilt ==
  ASSUME NEW points, NEW first, NEW xGrid, NEW yGrid, NEW xSize, NEW ySize, NEW wire, NEW viaCost,
         NEW xs, xs = Lines({p[1] : p \in points}, xGrid, xSize),
         NEW ys, ys = Lines({p[2] : p \in points}, yGrid, ySize),
         NEW g, g = Graph(points, first, xGrid, yGrid, xSize, ySize, wire, viaCost)
  PROVE  IsBuilt(g, xs, ys, points, first, wire, viaCost)
<1> DEFINE Cost(u, v) == IF <<u, v>> \in Wires(xs, ys) THEN WireCost(wire, u, v)
                         ELSE IF <<u[2], u[3]>> \in points THEN 0 ELSE viaCost
           forward == Forward(xs, ys)
<1>1. g = [vertices |-> Plane(xs, ys),
           pins |-> {<<0, p[1], p[2]>> : p \in points},
           start |-> <<0, first[1], first[2]>>,
           cost |-> [e \in forward \cup {<<e[2], e[1]>> : e \in forward} |->
                       IF e \in forward THEN Cost(e[1], e[2]) ELSE Cost(e[2], e[1])]]
  BY DEF Graph, H, V, Plane, Wires, Vias, Forward
<1>2. PICK both : both = forward \cup {<<e[2], e[1]>> : e \in forward}
  OBVIOUS
<1>3. \A e \in forward : e = <<e[1], e[2]>>
  BY DEF Forward, Wires, Vias
<1>4. g.cost = [e \in both |-> IF e \in forward THEN Cost(e[1], e[2]) ELSE Cost(e[2], e[1])]
  <2> HIDE DEF Cost, forward
  <2>1. QED
    BY <1>1, <1>2
<1>5. /\ g.vertices = Plane(xs, ys) /\ g.pins = {<<0, p[1], p[2]>> : p \in points}
      /\ g.start = <<0, first[1], first[2]>>
  <2> HIDE DEF Cost, forward
  <2>1. QED
    BY <1>1
<1>6. ASSUME NEW e \in both
      PROVE  \E f \in forward :
               /\ f = IF e \in forward THEN e ELSE <<e[2], e[1]>>
               /\ g.cost[e] = IF f \in Wires(xs, ys) THEN WireCost(wire, f[1], f[2])
                              ELSE IF <<f[1][2], f[1][3]>> \in points THEN 0 ELSE viaCost
  <2>1. CASE e \in forward
    <3>1. g.cost[e] = Cost(e[1], e[2]) /\ e = <<e[1], e[2]>>
      <4> HIDE DEF Cost, forward
      <4>1. QED
        BY <1>3, <1>4, <2>1
    <3>2. QED
      BY <2>1, <3>1
  <2>2. CASE e \notin forward
    <3>1. g.cost[e] = Cost(e[2], e[1])
      <4> HIDE DEF Cost, forward
      <4>1. QED
        BY <1>4, <2>2
    <3>2. PICK h \in forward : e = <<h[2], h[1]>>
      BY <1>2, <2>2
    <3>3. <<e[2], e[1]>> = h
      BY <1>3, <3>2
    <3>4. h[1] = e[2] /\ h[2] = e[1]
      BY <3>2
    <3>5. QED
      BY <2>2, <3>1, <3>3, <3>4
  <2>3. QED
    BY <2>1, <2>2
<1>7. DOMAIN g.cost = both /\ g.cost = [e \in DOMAIN g.cost |-> g.cost[e]]
  <2> HIDE DEF Cost, forward
  <2>1. QED
    BY <1>4
<1>8. QED
  BY <1>2, <1>5, <1>6, <1>7 DEF IsBuilt

(* What init puts into the graph. *)
IsReady(xs, ys, points, first, wire, viaCost, n, m) ==
  /\ n \in Nat /\ m \in Nat /\ xs \subseteq 0 .. n - 1 /\ ys \subseteq 0 .. m - 1
  /\ points \subseteq xs \X ys /\ first \in points /\ viaCost \in Nat \ {0}
  /\ \A x \in 0 .. n - 2, y \in 0 .. m - 1 : wire[<<0, x, y>>] \in Nat \ {0}
  /\ \A x \in 0 .. n - 1, y \in 0 .. m - 2 : wire[<<1, x, y>>] \in Nat \ {0}

(* Every wire costs something. *)
LEMMA WiresCost ==
  ASSUME NEW xs, NEW ys, NEW points, NEW first, NEW wire, NEW viaCost, NEW n, NEW m,
         IsReady(xs, ys, points, first, wire, viaCost, n, m), NEW e \in Wires(xs, ys)
  PROVE  WireCost(wire, e[1], e[2]) \in Nat \ {0}
<1>1. /\ n \in Nat /\ m \in Nat /\ xs \subseteq 0 .. n - 1 /\ ys \subseteq 0 .. m - 1
      /\ \A x \in 0 .. n - 2, y \in 0 .. m - 1 : wire[<<0, x, y>>] \in Nat \ {0}
      /\ \A x \in 0 .. n - 1, y \in 0 .. m - 2 : wire[<<1, x, y>>] \in Nat \ {0}
  BY DEF IsReady
<1>2. PICK d \in {0, 1}, x \in xs, y \in ys, k \in xs \cup ys :
        /\ e[1] = <<d, x, y>>
        /\ d = 0 => e[2] = <<0, k, y>> /\ k \in xs /\ Consecutive(xs, x, k)
        /\ d = 1 => e[2] = <<1, x, k>> /\ k \in ys /\ Consecutive(ys, y, k)
  <2>1. xs \subseteq Int /\ ys \subseteq Int
    BY <1>1
  <2>2. QED
    <3>1. Leads(xs, ys, e)
      BY <2>1, WiresAre
    <3>2. QED
      BY <3>1 DEF Leads
<1>3. CASE d = 0
  <2> DEFINE f == [i \in e[1][2] .. e[2][2] - 1 |-> wire[<<H, i, e[1][3]>>]]
  <2>0. e[1][1] = 0 /\ e[1][2] = x /\ e[1][3] = y /\ e[2][2] = k
    BY <1>2, <1>3
  <2>1. k \in xs /\ x < k /\ x \in 0 .. n - 1 /\ k \in 0 .. n - 1
    BY <1>1, <1>2, <1>3 DEF Consecutive
  <2>2. \A i \in 0 .. n - 2 : i \in DOMAIN f => f[i] \in Nat \ {0}
    <3>1. ASSUME NEW i \in 0 .. n - 2, i \in DOMAIN f
          PROVE  f[i] = wire[<<0, i, y>>]
      BY <2>0, <3>1 DEF H
    <3>2. y \in 0 .. m - 1
      BY <1>1
    <3> HIDE DEF f
    <3>3. QED
      BY <1>1, <3>1, <3>2
  <2>3. DOMAIN f = x .. k - 1
    BY <2>0
  <2>4. SumFunction(f) \in Nat \ {0}
    <3> HIDE DEF f
    <3>1. QED
      BY <1>1, <2>1, <2>2, <2>3, RowCosts
  <2>5. WireCost(wire, e[1], e[2]) = SumFunction(f)
    <3>1. e[1][1] = H
      BY <2>0 DEF H
    <3>2. QED
      BY <3>1 DEF WireCost
  <2>6. QED
    BY <2>4, <2>5
<1>4. CASE d = 1
  <2> DEFINE f == [i \in e[1][3] .. e[2][3] - 1 |-> wire[<<V, e[1][2], i>>]]
  <2>0. e[1][1] = 1 /\ e[1][2] = x /\ e[1][3] = y /\ e[2][3] = k
    BY <1>2, <1>4
  <2>1. k \in ys /\ y < k /\ y \in 0 .. m - 1 /\ k \in 0 .. m - 1
    BY <1>1, <1>2, <1>4 DEF Consecutive
  <2>2. \A i \in 0 .. m - 2 : i \in DOMAIN f => f[i] \in Nat \ {0}
    <3>1. ASSUME NEW i \in 0 .. m - 2, i \in DOMAIN f
          PROVE  f[i] = wire[<<1, x, i>>]
      BY <2>0, <3>1 DEF V
    <3>2. x \in 0 .. n - 1
      BY <1>1
    <3> HIDE DEF f
    <3>3. QED
      BY <1>1, <3>1, <3>2
  <2>3. DOMAIN f = y .. k - 1
    BY <2>0
  <2>4. SumFunction(f) \in Nat \ {0}
    <3> HIDE DEF f
    <3>1. QED
      BY <1>1, <2>1, <2>2, <2>3, RowCosts
  <2>5. WireCost(wire, e[1], e[2]) = SumFunction(f)
    <3>1. e[1][1] # H
      BY <2>0 DEF H
    <3>2. QED
      BY <3>1 DEF WireCost
  <2>6. QED
    BY <2>4, <2>5
<1>5. QED
  BY <1>3, <1>4

(* An edge is a wire of positive cost, or a via.                            *)
EdgeIsWire(g, xs, ys, e) ==
  \E d \in {0, 1}, x \in xs, y \in ys, k \in xs \cup ys :
    /\ {e[1], e[2]} = {<<d, x, y>>, IF d = 0 THEN <<0, k, y>> ELSE <<1, x, k>>}
    /\ e = <<e[1], e[2]>> /\ g.cost[e] \in Nat \ {0}
    /\ d = 0 => k \in xs /\ Consecutive(xs, x, k)
    /\ d = 1 => k \in ys /\ Consecutive(ys, y, k)

EdgeIsVia(g, xs, ys, points, viaCost, e) ==
  \E p \in xs \X ys :
    /\ e = <<e[1], e[2]>> /\ {e[1], e[2]} = {<<0, p[1], p[2]>>, <<1, p[1], p[2]>>}
    /\ g.cost[e] = IF <<p[1], p[2]>> \in points THEN 0 ELSE viaCost

(* Every edge is a wire or a via, or one of them the other way around.     *)
LEMMA EdgesAre ==
  ASSUME NEW g, NEW xs, NEW ys, NEW points, NEW first, NEW wire, NEW viaCost, NEW n, NEW m,
         IsReady(xs, ys, points, first, wire, viaCost, n, m),
         IsBuilt(g, xs, ys, points, first, wire, viaCost), NEW e \in DOMAIN g.cost
  PROVE  EdgeIsWire(g, xs, ys, e) \/ EdgeIsVia(g, xs, ys, points, viaCost, e)
<1>1. PICK f \in Forward(xs, ys) :
         /\ f = IF e \in Forward(xs, ys) THEN e ELSE <<e[2], e[1]>>
         /\ g.cost[e] = IF f \in Wires(xs, ys) THEN WireCost(wire, f[1], f[2])
                        ELSE IF <<f[1][2], f[1][3]>> \in points THEN 0 ELSE viaCost
  BY DEF IsBuilt
<1>2. \A h \in Forward(xs, ys) : h = <<h[1], h[2]>>
  BY DEF Forward, Wires, Vias
<1>3. e = <<e[1], e[2]>> /\ {e[1], e[2]} = {f[1], f[2]}
  <2>1. CASE e \in Forward(xs, ys)
    BY <1>1, <1>2, <2>1
  <2>2. CASE e \notin Forward(xs, ys)
    <3>1. PICK h \in Forward(xs, ys) : e = <<h[2], h[1]>>
      BY <2>2 DEF IsBuilt
    <3>2. e = <<e[1], e[2]>>
      BY <3>1
    <3>3. f = <<e[2], e[1]>>
      BY <1>1, <2>2
    <3>4. f[1] = e[2] /\ f[2] = e[1]
      BY <3>3
    <3>5. QED
      BY <3>2, <3>4
  <2>3. QED
    BY <2>1, <2>2
<1>4. CASE f \in Wires(xs, ys)
  <2>1. xs \subseteq Int /\ ys \subseteq Int
    BY DEF IsReady
  <2>2. PICK d \in {0, 1}, x \in xs, y \in ys, k \in xs \cup ys :
           /\ f[1] = <<d, x, y>>
           /\ d = 0 => f[2] = <<0, k, y>> /\ k \in xs /\ Consecutive(xs, x, k)
           /\ d = 1 => f[2] = <<1, x, k>> /\ k \in ys /\ Consecutive(ys, y, k)
    <3>1. Leads(xs, ys, f)
      BY <1>4, <2>1, WiresAre
    <3>2. QED
      BY <3>1 DEF Leads
  <2>3. g.cost[e] \in Nat \ {0}
    BY <1>1, <1>4, WiresCost
  <2>4. f[2] = IF d = 0 THEN <<0, k, y>> ELSE <<1, x, k>>
    BY <2>2
  <2>5. QED
    BY <1>3, <2>2, <2>3, <2>4 DEF EdgeIsWire
<1>5. CASE f \notin Wires(xs, ys)
  <2>1. PICK p \in xs \X ys : f = <<<<0, p[1], p[2]>>, <<1, p[1], p[2]>>>>
    BY <1>1, <1>5 DEF Forward, Vias
  <2>2. f[1] = <<0, p[1], p[2]>> /\ f[2] = <<1, p[1], p[2]>> /\ f[1][2] = p[1] /\ f[1][3] = p[2]
    BY <2>1
  <2>3. g.cost[e] = IF <<p[1], p[2]>> \in points THEN 0 ELSE viaCost
    BY <1>1, <1>5, <2>2
  <2>4. QED
    BY <1>3, <2>2, <2>3 DEF EdgeIsVia
<1>6. QED
  BY <1>4, <1>5

(* The ends of an edge, a wire or a via. *)
LEMMA BuiltLaidOut ==
  ASSUME NEW g, NEW xs, NEW ys, NEW points, NEW first, NEW wire, NEW viaCost, NEW n, NEW m,
         IsReady(xs, ys, points, first, wire, viaCost, n, m),
         IsBuilt(g, xs, ys, points, first, wire, viaCost)
  PROVE  IsLaidOut(g)
<1>1. xs \subseteq Int /\ ys \subseteq Int /\ g.vertices = Plane(xs, ys)
  BY DEF IsReady, IsBuilt
<1>2. g.vertices \subseteq {0, 1} \X Int \X Int
  BY <1>1 DEF Plane
<1>3. ASSUME NEW e \in DOMAIN g.cost
      PROVE  IF SamePoint(e[1], e[2]) THEN e[1] # e[2]
             ELSE /\ OnLine(e[1], e[2])
                  /\ \A v \in g.vertices : OnLine(v, e[1]) =>
                       ~(Along(e[1]) < Along(v) /\ Along(v) < Along(e[2]))
                       /\ ~(Along(e[2]) < Along(v) /\ Along(v) < Along(e[1]))
  <2>1. CASE EdgeIsWire(g, xs, ys, e)
    <3>1. PICK d \in {0, 1}, x \in xs, y \in ys, k \in xs \cup ys :
              /\ {e[1], e[2]} = {<<d, x, y>>, IF d = 0 THEN <<0, k, y>> ELSE <<1, x, k>>}
              /\ d = 0 => k \in xs /\ Consecutive(xs, x, k)
              /\ d = 1 => k \in ys /\ Consecutive(ys, y, k)
      BY <2>1 DEF EdgeIsWire
    <3>2. PICK a, b : a = <<d, x, y>> /\ b = IF d = 0 THEN <<0, k, y>> ELSE <<1, x, k>>
      OBVIOUS
    <3>3. a[1] = d /\ a[2] = x /\ a[3] = y
      BY <3>2
    <3>4. /\ d = 0 => b[1] = 0 /\ b[2] = k /\ b[3] = y
          /\ d = 1 => b[1] = 1 /\ b[2] = x /\ b[3] = k
      BY <3>2
    <3>5. /\ d = 0 => k \in Int /\ x < k /\ \A c \in xs : ~(x < c /\ c < k)
          /\ d = 1 => k \in Int /\ y < k /\ \A c \in ys : ~(y < c /\ c < k)
      BY <1>1, <3>1 DEF Consecutive
    <3>6. x \in Int /\ y \in Int
      BY <1>1
    <3>7. ~SamePoint(a, b) /\ ~SamePoint(b, a)
      BY <3>3, <3>4, <3>5, <3>6 DEF SamePoint
    <3>8. OnLine(a, b) /\ OnLine(b, a)
      BY <3>3, <3>4 DEF OnLine
    <3>9. ASSUME NEW v \in g.vertices, OnLine(v, a) \/ OnLine(v, b)
          PROVE  ~(Along(a) < Along(v) /\ Along(v) < Along(b)) /\ v[1] = d
      <4>1. v[1] \in {0, 1} /\ v[2] \in xs /\ v[3] \in ys
        BY <1>1, PlaneIs
      <4>2. v[1] = d
        BY <3>3, <3>4, <3>9 DEF OnLine
      <4>3. CASE d = 0
        <5>1. Along(a) = x /\ Along(b) = k /\ Along(v) = v[2]
          BY <3>3, <3>4, <4>2, <4>3 DEF Along
        <5>2. QED
          BY <3>5, <4>1, <4>2, <4>3, <5>1
      <4>4. CASE d = 1
        <5>1. Along(a) = y /\ Along(b) = k /\ Along(v) = v[3]
          BY <3>3, <3>4, <4>2, <4>4 DEF Along
        <5>2. QED
          BY <3>5, <4>1, <4>2, <4>4, <5>1
      <4>5. QED
        BY <4>3, <4>4
    <3>10. Along(a) < Along(b) /\ Along(a) \in Int /\ Along(b) \in Int
      BY <3>3, <3>4, <3>5, <3>6 DEF Along
    <3>11. ASSUME NEW v \in g.vertices, OnLine(v, a) \/ OnLine(v, b)
           PROVE  ~(Along(b) < Along(v) /\ Along(v) < Along(a))
      <4>1. v[1] \in {0, 1} /\ v[2] \in Int /\ v[3] \in Int
        BY <1>1, PlaneIs
      <4>2. Along(v) \in Int
        BY <4>1 DEF Along
      <4>3. QED
        BY <3>10, <4>2
    <3>12. (e[1] = a /\ e[2] = b) \/ (e[1] = b /\ e[2] = a)
      BY <3>1, <3>2
    <3>13. CASE e[1] = a /\ e[2] = b
      BY <3>7, <3>8, <3>9, <3>11, <3>13
    <3>14. CASE e[1] = b /\ e[2] = a
      BY <3>7, <3>8, <3>9, <3>11, <3>14
    <3>15. QED
      BY <3>12, <3>13, <3>14
  <2>2. CASE EdgeIsVia(g, xs, ys, points, viaCost, e)
    <3>1. PICK p \in xs \X ys : {e[1], e[2]} = {<<0, p[1], p[2]>>, <<1, p[1], p[2]>>}
      BY <2>2 DEF EdgeIsVia
    <3>2. PICK a, b : a = <<0, p[1], p[2]>> /\ b = <<1, p[1], p[2]>>
      OBVIOUS
    <3>3. a # b /\ a[2] = b[2] /\ a[3] = b[3]
      BY <3>2
    <3>4. (e[1] = a /\ e[2] = b) \/ (e[1] = b /\ e[2] = a)
      BY <3>1, <3>2
    <3>5. QED
      BY <3>3, <3>4 DEF SamePoint
  <2>3. QED
    BY <2>1, <2>2, EdgesAre
<1>4. QED
  BY <1>2, <1>3 DEF IsLaidOut

(* The pins are on the plane H, and the vias there are free. *)
LEMMA BuiltGraph ==
  ASSUME NEW g, NEW xs, NEW ys, NEW points, NEW first, NEW wire, NEW viaCost, NEW n, NEW m,
         IsReady(xs, ys, points, first, wire, viaCost, n, m),
         IsBuilt(g, xs, ys, points, first, wire, viaCost)
  PROVE  IsGraph(g)
<1>1. /\ g.vertices = Plane(xs, ys) /\ g.pins = {<<0, p[1], p[2]>> : p \in points}
      /\ g.start = <<0, first[1], first[2]>> /\ g.cost = [e \in DOMAIN g.cost |-> g.cost[e]]
      /\ DOMAIN g.cost = Forward(xs, ys) \cup {<<e[2], e[1]>> : e \in Forward(xs, ys)}
  BY DEF IsBuilt
<1>2. /\ n \in Nat /\ m \in Nat /\ xs \subseteq 0 .. n - 1 /\ ys \subseteq 0 .. m - 1
      /\ points \subseteq xs \X ys /\ first \in points /\ viaCost \in Nat \ {0}
  BY DEF IsReady
<1>3. IsFiniteSet(g.vertices)
  <2>1. IsFiniteSet(0 .. n - 1) /\ IsFiniteSet(0 .. m - 1) /\ IsFiniteSet(0 .. 1)
    <3>1. \A k \in Int : IsFiniteSet(0 .. k)
      BY FS_Interval
    <3>2. n - 1 \in Int /\ m - 1 \in Int /\ 1 \in Int
      BY <1>2
    <3>3. QED
      BY <3>1, <3>2
  <2>2. IsFiniteSet(xs) /\ IsFiniteSet(ys) /\ IsFiniteSet({0, 1})
    <3>1. {0, 1} \subseteq 0 .. 1
      OBVIOUS
    <3>2. QED
      BY <1>2, <2>1, <3>1, FS_Subset
  <2> DEFINE f == [p \in ({0, 1} \X xs) \X ys |-> <<p[1][1], p[1][2], p[2]>>]
  <2>3. IsFiniteSet(({0, 1} \X xs) \X ys)
    BY <2>2, FS_Product
  <2>4. f \in Surjection(({0, 1} \X xs) \X ys, g.vertices)
    <3>1. f \in [({0, 1} \X xs) \X ys -> g.vertices]
      BY <1>1 DEF Plane
    <3>2. ASSUME NEW v \in g.vertices
          PROVE  \E p \in ({0, 1} \X xs) \X ys : f[p] = v
      <4>1. v = <<v[1], v[2], v[3]>> /\ v[1] \in {0, 1} /\ v[2] \in xs /\ v[3] \in ys
        BY <1>1, PlaneIs
      <4>2. <<<<v[1], v[2]>>, v[3]>> \in ({0, 1} \X xs) \X ys
        BY <4>1
      <4>3. f[<<<<v[1], v[2]>>, v[3]>>] = v
        BY <4>1, <4>2
      <4>4. QED
        BY <4>2, <4>3
    <3> HIDE DEF f
    <3>3. QED
      BY <3>1, <3>2, Fun_IsSurj
  <2>5. QED
    BY <2>3, <2>4, FS_Surjection
<1>4. g.start \in g.pins /\ g.pins \subseteq g.vertices
  BY <1>1, <1>2 DEF Plane
<1>5. ASSUME NEW e \in DOMAIN g.cost
      PROVE  /\ g.cost[e] \in Nat /\ e \in g.vertices \X g.vertices
             /\ g.cost[e] = 0 => SamePoint(e[1], e[2]) /\ (e[1] \in g.pins \/ e[2] \in g.pins)
  <2>1. CASE EdgeIsWire(g, xs, ys, e)
    <3>1. PICK d \in {0, 1}, x \in xs, y \in ys, k \in xs \cup ys :
              /\ {e[1], e[2]} = {<<d, x, y>>, IF d = 0 THEN <<0, k, y>> ELSE <<1, x, k>>}
              /\ e = <<e[1], e[2]>> /\ g.cost[e] \in Nat \ {0}
              /\ d = 0 => k \in xs
              /\ d = 1 => k \in ys
      BY <2>1 DEF EdgeIsWire
    <3>2. {e[1], e[2]} \subseteq g.vertices
      <4>1. <<d, x, y>> \in Plane(xs, ys)
        BY DEF Plane
      <4>2. (IF d = 0 THEN <<0, k, y>> ELSE <<1, x, k>>) \in Plane(xs, ys)
        BY <3>1 DEF Plane
      <4>3. QED
        BY <1>1, <3>1, <4>1, <4>2
    <3>3. QED
      BY <3>1, <3>2
  <2>2. CASE EdgeIsVia(g, xs, ys, points, viaCost, e)
    <3>1. PICK p \in xs \X ys :
              /\ e = <<e[1], e[2]>> /\ {e[1], e[2]} = {<<0, p[1], p[2]>>, <<1, p[1], p[2]>>}
              /\ g.cost[e] = IF <<p[1], p[2]>> \in points THEN 0 ELSE viaCost
      BY <2>2 DEF EdgeIsVia
    <3>2. PICK a, b : a = <<0, p[1], p[2]>> /\ b = <<1, p[1], p[2]>>
      OBVIOUS
    <3>3. a \in g.vertices /\ b \in g.vertices /\ SamePoint(a, b) /\ SamePoint(b, a)
      BY <1>1, <3>2 DEF Plane, SamePoint
    <3>4. (e[1] = a /\ e[2] = b) \/ (e[1] = b /\ e[2] = a)
      BY <3>1, <3>2
    <3>5. g.cost[e] = 0 => a \in g.pins
      <4>1. SUFFICES ASSUME g.cost[e] = 0
                     PROVE  a \in g.pins
        OBVIOUS
      <4>2. <<p[1], p[2]>> \in points
        BY <1>2, <3>1, <4>1
      <4>3. PICK q \in points : q[1] = p[1] /\ q[2] = p[2]
        <5>1. <<p[1], p[2]>>[1] = p[1] /\ <<p[1], p[2]>>[2] = p[2]
          OBVIOUS
        <5>2. QED
          BY <4>2, <5>1
      <4>4. QED
        BY <1>1, <3>2, <4>3
    <3>6. g.cost[e] \in Nat
      BY <1>2, <3>1
    <3>7. e \in g.vertices \X g.vertices
      BY <3>1, <3>3, <3>4
    <3>8. QED
      BY <3>3, <3>4, <3>5, <3>6, <3>7
  <2>3. QED
    BY <2>1, <2>2, EdgesAre
<1>6. ASSUME NEW p \in g.pins, NEW v \in g.vertices \ {p}, SamePoint(v, p)
      PROVE  v \notin g.pins /\ <<v, p>> \in DOMAIN g.cost /\ g.cost[<<v, p>>] = 0
  <2>1. PICK q \in points : p = <<0, q[1], q[2]>> /\ q[1] \in xs /\ q[2] \in ys
    BY <1>1, <1>2
  <2>2. v = <<v[1], v[2], v[3]>> /\ v[1] \in {0, 1} /\ v[2] \in xs /\ v[3] \in ys
    BY <1>1, PlaneIs
  <2>3. v[2] = q[1] /\ v[3] = q[2]
    BY <1>6, <2>1 DEF SamePoint
  <2>4. v = <<1, q[1], q[2]>>
    BY <2>1, <2>2, <2>3
  <2>5. v \notin g.pins
    BY <1>1, <2>4
  <2>6. <<p, v>> \in Vias(xs, ys)
    BY <2>1, <2>4, WireOf
  <2>7. <<v, p>> \in DOMAIN g.cost
    <3>1. PICK h \in Forward(xs, ys) : h[1] = p /\ h[2] = v
      <4>1. <<p, v>>[1] = p /\ <<p, v>>[2] = v
        OBVIOUS
      <4>2. QED
        BY <2>6, <4>1 DEF Forward
    <3>2. QED
      BY <1>1, <3>1
  <2>8. g.cost[<<v, p>>] = 0
    <3>1. PICK e \in DOMAIN g.cost : e = <<v, p>> /\ e[1] = v /\ e[2] = p
      BY <2>7
    <3>2. CASE EdgeIsWire(g, xs, ys, e)
      <4>1. PICK d \in {0, 1}, x \in xs, y \in ys, k \in xs \cup ys :
              {v, p} = {<<d, x, y>>, IF d = 0 THEN <<0, k, y>> ELSE <<1, x, k>>}
        BY <3>1, <3>2 DEF EdgeIsWire
      <4>2. v[1] = 1 /\ p[1] = 0
        BY <2>1, <2>4
      <4>3. QED
        BY <4>1, <4>2
    <3>3. CASE EdgeIsVia(g, xs, ys, points, viaCost, e)
      <4>1. PICK r \in xs \X ys :
              /\ {v, p} = {<<0, r[1], r[2]>>, <<1, r[1], r[2]>>}
              /\ g.cost[e] = IF <<r[1], r[2]>> \in points THEN 0 ELSE viaCost
        BY <3>1, <3>3 DEF EdgeIsVia
      <4>2. r[1] = q[1] /\ r[2] = q[2]
        BY <2>1, <4>1
      <4>3. q = <<q[1], q[2]>>
        BY <1>2
      <4>4. QED
        BY <3>1, <4>1, <4>2, <4>3
    <3>4. QED
      BY <3>2, <3>3, EdgesAre
  <2>9. QED
    BY <2>5, <2>7, <2>8
<1>7. g.cost \in [DOMAIN g.cost -> Nat]
  BY <1>1, <1>5
<1>8. QED
  BY <1>3, <1>4, <1>5, <1>6, <1>7 DEF IsGraph

(* A set of vertices that no edge leaves goes along each line, and changes *)
(* the plane at each point.                                                *)
LEMMA BuiltConnected ==
  ASSUME NEW g, NEW xs, NEW ys, NEW points, NEW first, NEW wire, NEW viaCost, NEW n, NEW m,
         IsReady(xs, ys, points, first, wire, viaCost, n, m),
         IsBuilt(g, xs, ys, points, first, wire, viaCost)
  PROVE  IsConnected(g)
<1> SUFFICES ASSUME NEW S \in SUBSET g.vertices, g.start \in S,
                    \A e \in DOMAIN g.cost : e[1] \in S => e[2] \in S
             PROVE  S = g.vertices
  BY DEF IsConnected
<1>1. /\ g.vertices = Plane(xs, ys) /\ g.start = <<0, first[1], first[2]>>
      /\ DOMAIN g.cost = Forward(xs, ys) \cup {<<e[2], e[1]>> : e \in Forward(xs, ys)}
  BY DEF IsBuilt
<1>2. /\ xs \subseteq Int /\ ys \subseteq Int
      /\ first[1] \in xs /\ first[2] \in ys
  BY DEF IsReady
<1>3. ASSUME NEW a, NEW b, <<a, b>> \in Forward(xs, ys)
      PROVE  a \in S <=> b \in S
  <2>1. PICK h \in Forward(xs, ys) : h = <<a, b>> /\ h[1] = a /\ h[2] = b
    BY <1>3
  <2>2. h \in DOMAIN g.cost
    BY <1>1
  <2>3. PICK e \in DOMAIN g.cost : e[1] = b /\ e[2] = a
    <3>1. <<h[2], h[1]>> \in DOMAIN g.cost
      BY <1>1
    <3>2. <<h[2], h[1]>>[1] = b /\ <<h[2], h[1]>>[2] = a
      BY <2>1
    <3>3. QED
      BY <3>1, <3>2
  <2>4. QED
    BY <2>1, <2>2, <2>3
<1>4. ASSUME NEW x \in xs, NEW y \in ys
      PROVE  <<0, x, y>> \in S <=> <<1, x, y>> \in S
  BY <1>3, WireOf DEF Forward
<1>5. ASSUME NEW x \in xs, NEW y \in ys, <<0, x, y>> \in S
      PROVE  \A k \in xs : <<0, k, y>> \in S
  <2> DEFINE T == {k \in xs : <<0, k, y>> \in S}
  <2>1. ASSUME NEW a \in xs, NEW b \in xs, Consecutive(xs, a, b)
        PROVE  a \in T <=> b \in T
    <3>1. <<<<0, a, y>>, <<0, b, y>>>> \in Forward(xs, ys)
      BY <2>1, WireOf DEF Forward
    <3>2. <<0, a, y>> \in S <=> <<0, b, y>> \in S
      BY <1>3, <3>1
    <3>3. QED
      BY <3>2
  <2>2. x \in T /\ T \subseteq xs
    BY <1>5
  <2>3. T = xs
    <3> HIDE DEF T
    <3>1. QED
      BY <1>2, <2>1, <2>2, LinesReached
  <2>4. QED
    BY <2>3
<1>6. ASSUME NEW x \in xs, NEW y \in ys, <<1, x, y>> \in S
      PROVE  \A k \in ys : <<1, x, k>> \in S
  <2> DEFINE T == {k \in ys : <<1, x, k>> \in S}
  <2>1. ASSUME NEW a \in ys, NEW b \in ys, Consecutive(ys, a, b)
        PROVE  a \in T <=> b \in T
    BY <1>3, <2>1, WireOf DEF Forward
  <2>2. y \in T /\ T \subseteq ys
    BY <1>6
  <2>3. T = ys
    <3> HIDE DEF T
    <3>1. QED
      BY <1>2, <2>1, <2>2, LinesReached
  <2>4. QED
    BY <2>3
<1>7. ASSUME NEW v \in g.vertices
      PROVE  v \in S
  <2>1. v = <<v[1], v[2], v[3]>> /\ v[1] \in {0, 1} /\ v[2] \in xs /\ v[3] \in ys
    BY <1>1, PlaneIs
  <2>2. PICK x \in xs, y \in ys : x = v[2] /\ y = v[3]
    BY <2>1
  <2>3. PICK fx \in xs, fy \in ys : g.start = <<0, fx, fy>>
    BY <1>1, <1>2
  <2>4. <<0, x, fy>> \in S
    BY <1>5, <2>3
  <2>5. <<1, x, fy>> \in S
    BY <1>4, <2>4
  <2>6. <<1, x, y>> \in S
    BY <1>6, <2>5
  <2>7. <<0, x, y>> \in S
    BY <1>4, <2>6
  <2>8. QED
    BY <2>1, <2>2, <2>6, <2>7
<1>8. QED
  BY <1>7

(* SparseGraph::init hands over graphs as MazeSearch assumes them, for     *)
(* every chip, set of pins, wire costs and grid of lines.                  *)
THEOREM InitBuildsGraphs ==
  ASSUME NEW points, NEW first, NEW xGrid, NEW yGrid, NEW xSize, NEW ySize, NEW wire, NEW viaCost,
         IsInput(points, first, xGrid, yGrid, xSize, ySize, wire, viaCost),
         NEW g, g = Graph(points, first, xGrid, yGrid, xSize, ySize, wire, viaCost)
  PROVE  IsGraph(g) /\ IsLaidOut(g) /\ IsConnected(g)
<1>1. PICK xs, ys : /\ xs = Lines({p[1] : p \in points}, xGrid, xSize)
                    /\ ys = Lines({p[2] : p \in points}, yGrid, ySize)
  OBVIOUS
<1>2. /\ xSize \in Nat /\ ySize \in Nat /\ points \subseteq (0 .. xSize - 1) \X (0 .. ySize - 1)
      /\ first \in points
  BY DEF IsInput
<1>3. {p[1] : p \in points} \subseteq xs /\ xs \subseteq 0 .. xSize - 1
  <2>1. {p[1] : p \in points} \subseteq 0 .. xSize - 1
    BY <1>2
  <2>2. QED
    BY <1>1, <1>2, <2>1, LinesAre
<1>4. {p[2] : p \in points} \subseteq ys /\ ys \subseteq 0 .. ySize - 1
  <2>1. {p[2] : p \in points} \subseteq 0 .. ySize - 1
    BY <1>2
  <2>2. QED
    BY <1>1, <1>2, <2>1, LinesAre
<1>5. points \subseteq xs \X ys
  <2>1. ASSUME NEW p \in points
        PROVE  p = <<p[1], p[2]>> /\ p[1] \in xs /\ p[2] \in ys
    BY <1>2, <1>3, <1>4
  <2>2. QED
    BY <2>1
<1>6. IsReady(xs, ys, points, first, wire, viaCost, xSize, ySize)
  BY <1>2, <1>3, <1>4, <1>5 DEF IsReady, IsInput, H, V
<1>7. IsBuilt(g, xs, ys, points, first, wire, viaCost)
  BY <1>1, GraphIsBuilt
<1>8. QED
  BY <1>6, <1>7, BuiltGraph, BuiltLaidOut, BuiltConnected

-----------------------------------------------------------------------------
(* Part 2: DetourShift.                                                    *)

TrunkInv ==
  /\ trunk \in Trunks /\ trunk.position < trunk.size
  /\ pc \in {"low", "high", "step", "shift"}
  /\ low \in 0 .. trunk.position /\ high \in trunk.position .. trunk.size - 1
  /\ step \in Nat \ {0}

(* Before the shifts.                                                      *)
OpenInv ==
  pc # "shift" =>
    /\ detours = {}
    /\ pc # "step" => step = 1
    /\ step > 1 => StepsEachSide(step) >= Target

(* A window around position x in steps of s: a positions below it and b    *)
(* above, of which k are done, with the detours made at them.              *)
Position(x, s, a, j) == x + (j - a) * s
Positions(x, s, a, k) == {Position(x, s, a, j) : j \in (0 .. k - 1) \ {a}}

Around(x, s, l, h, p, made, anchored, a, b, k) ==
  /\ l = x - a * s /\ h = x + b * s
  /\ p = Position(x, s, a, k) /\ k <= a + b + 1
  /\ a + b <= 2 * Target
  /\ s > 1 => a + b >= Target
  /\ anchored => made = Positions(x, s, a, k)

Aligned(a, b, k) ==
  Around(trunk.position, step, low, high, pos, detours, trunk.anchored, a, b, k)

AlignedInv == pc = "shift" => \E a, b, k \in Nat : Aligned(a, b, k)

InsideInv == TrunkInv /\ OpenInv /\ AlignedInv

WindowInv == pc = "trunk" \/ InsideInv

(* A division rounds down. *)
LEMMA Division ==
  ASSUME NEW a \in Nat, NEW s \in Nat \ {0}
  PROVE  /\ a \div s \in Nat /\ (a \div s) * s \in Nat
         /\ (a \div s) * s <= a /\ a < (a \div s) * s + s
OBVIOUS

(* Without a rest the quotient counts the steps, *)
LEMMA WholeSteps ==
  ASSUME NEW a \in Nat, NEW s \in Nat \ {0}
  PROVE  a % s = 0 <=> \E m \in Nat : a = m * s
<1>1. (a \div s) * s + (a % s) = a /\ a \div s \in Nat /\ a % s \in Nat /\ a % s < s
  OBVIOUS
<1>2. ASSUME NEW m \in Nat, a = m * s
      PROVE  a % s = 0
  <2> DEFINE q == a \div s
             u == a % s
  <2>1. a = q * s + u /\ q \in Nat /\ u \in 0 .. s - 1
    BY <1>1
  <2> HIDE DEF q, u
  <2>2. (m - q) * s = u
    BY <1>2, <2>1
  <2>3. m - q = 0
    <3>1. m - q >= 1 => (m - q) * s >= s
      BY <2>1
    <3>2. m - q <= -1 => (m - q) * s <= -s
      BY <2>1
    <3>3. QED
      BY <2>1, <2>2, <3>1, <3>2
  <2>4. u = 0
    BY <2>2, <2>3
  <2>5. QED
    BY <2>4 DEF u
<1>3. ASSUME a % s = 0
      PROVE  a = (a \div s) * s
  BY <1>1, <1>3
<1>4. QED
  BY <1>1, <1>2, <1>3

(* and less is fewer steps. *)
LEMMA Fewer ==
  ASSUME NEW m \in Nat, NEW b \in Nat, NEW s \in Nat \ {0}, m * s <= b * s
  PROVE  m <= b
<1> SUFFICES ASSUME m > b
             PROVE  FALSE
  OBVIOUS
<1>1. (m - b) * s > 0 /\ m * s = b * s + (m - b) * s /\ b * s \in Nat
  OBVIOUS
<1>2. (m - b) * s \in Int
  OBVIOUS
<1>3. QED
  BY <1>1, <1>2

(* With a step that is longer by one there are at least half as many on a  *)
(* side, rounded down. *)
LEMMA CoarserHalves ==
  ASSUME NEW d \in Nat, NEW s \in Nat \ {0}
  PROVE  /\ d \div s \in Nat /\ d \div (s + 1) \in Nat
         /\ d \div s <= 2 * (d \div (s + 1)) + 1
         /\ (d \div s) * s <= d
<1> DEFINE q == d \div (s + 1)
           p == d \div s
<1>1. q \in Nat /\ d < q * (s + 1) + (s + 1)
  BY Division, s + 1 \in Nat \ {0}
<1>2. p \in Nat /\ p * s <= d
  BY Division
<1> HIDE DEF q, p
<1>3. p <= 2 * q + 1
  <2> SUFFICES ASSUME p >= 2 * q + 2
               PROVE  FALSE
    BY <1>1, <1>2
  <2> DEFINE e == p - (2 * q + 2)
             t == s - 1
  <2>1. e \in Nat /\ p = 2 * q + 2 + e /\ t \in Nat /\ s = t + 1
    BY <1>1, <1>2
  <2> HIDE DEF e, t
  <2>2. e * s \in Nat /\ q * t \in Nat
    BY <1>1, <2>1
  <2>3. p * s = 2 * (q * s) + 2 * s + e * s /\ q * s = q * t + q /\ q * (s + 1) = q * s + q
    BY <1>1, <2>1
  <2>4. q * s \in Nat
    BY <1>1
  <2>5. QED
    BY <1>1, <1>2, <2>1, <2>2, <2>3, <2>4
<1>4. QED
  BY <1>1, <1>2, <1>3 DEF p, q

LEMMA WindowOpens ==
  ASSUME InsideInv, Lower \/ Raise \/ Coarsen
  PROVE  InsideInv'
<1>1. trunk.position \in Nat /\ trunk.size \in Nat
  BY DEF InsideInv, TrunkInv, Trunks
<1>2. CASE Lower
  BY <1>1, <1>2 DEF Lower, CanLower, InsideInv, TrunkInv, OpenInv, AlignedInv
<1>3. CASE Raise
  BY <1>1, <1>3 DEF Raise, CanRaise, InsideInv, TrunkInv, OpenInv, AlignedInv
<1>4. CASE Coarsen
  <2>1. /\ pc = "step" /\ step' = step + 1 /\ UNCHANGED <<trunk, pc, low, high, pos, detours>>
        /\ StepsEachSide(step + 1) >= Target
    BY <1>4 DEF Coarsen, TooDense
  <2>2. StepsEachSide(step)' = StepsEachSide(step + 1)
    BY <2>1 DEF StepsEachSide
  <2>3. QED
    BY <2>1, <2>2 DEF InsideInv, TrunkInv, OpenInv, AlignedInv
<1>5. QED
  BY <1>2, <1>3, <1>4

(* The window that Align leaves has the right number of positions. *)
LEMMA WindowAligns ==
  ASSUME InsideInv, Align
  PROVE  InsideInv'
<1>1. PICK x, s, l, h, a, b :
        /\ x = trunk.position /\ s = step /\ l = low /\ h = high
        /\ a = (x - l) \div s /\ b = (h - x) \div s
  OBVIOUS
<1>2. /\ pc = "step" /\ pc' = "shift" /\ UNCHANGED <<trunk, step, detours>>
      /\ low' = x - a * s /\ high' = x + b * s /\ pos' = x - a * s
      /\ ~((x - l) \div (s + 1) + (h - x) \div (s + 1) >= Target)
  BY <1>1 DEF Align, TooDense, StepsEachSide
<1>3. /\ x \in Nat /\ trunk.size \in Nat /\ s \in Nat \ {0}
      /\ l \in 0 .. x /\ h \in x .. trunk.size - 1
      /\ detours = {} /\ (s > 1 => a + b >= Target)
  BY <1>1, <1>2 DEF InsideInv, TrunkInv, OpenInv, Trunks, StepsEachSide
<1>4. x - l \in Nat /\ h - x \in Nat
  BY <1>3
<1>5. /\ a \in Nat /\ a * s <= x - l /\ a <= 2 * ((x - l) \div (s + 1)) + 1
      /\ (x - l) \div (s + 1) \in Nat
  BY <1>1, <1>3, <1>4, CoarserHalves
<1>6. /\ b \in Nat /\ b * s <= h - x /\ b <= 2 * ((h - x) \div (s + 1)) + 1
      /\ (h - x) \div (s + 1) \in Nat
  BY <1>1, <1>3, <1>4, CoarserHalves
<1>7. a + b <= 2 * Target
  BY <1>2, <1>5, <1>6, TargetAssumption
<1>8. a * s \in Nat /\ b * s \in Nat
  BY <1>3, <1>5, <1>6
<1>9. low' \in 0 .. x /\ high' \in x .. trunk.size - 1
  BY <1>2, <1>3, <1>5, <1>6, <1>8
<1>10. Around(x, s, low', high', pos', {}, trunk.anchored, a, b, 0)
  <2>1. x - a * s = Position(x, s, a, 0)
    BY <1>3, <1>5 DEF Position
  <2>2. Positions(x, s, a, 0) = {}
    <3>1. 0 .. 0 - 1 = {}
      OBVIOUS
    <3>2. QED
      BY <3>1 DEF Positions
  <2>3. QED
    BY <1>2, <1>3, <1>5, <1>6, <1>7, <2>1, <2>2 DEF Around
<1>11. 0 \in Nat
  OBVIOUS
<1>12. AlignedInv'
  <2>1. x = trunk'.position /\ s = step' /\ detours' = {} /\ trunk'.anchored = trunk.anchored
    BY <1>1, <1>2, <1>3
  <2>2. QED
    BY <1>5, <1>6, <1>10, <1>11, <2>1 DEF AlignedInv, Aligned
<1>13. TrunkInv'
  BY <1>1, <1>2, <1>3, <1>9 DEF InsideInv, TrunkInv
<1>14. QED
  BY <1>2, <1>12, <1>13 DEF InsideInv, OpenInv

(* A round of the last loop does the next position. *)
LEMMA WindowShifts ==
  ASSUME InsideInv, Shift
  PROVE  InsideInv'
<1>1. PICK x, s, p, D : x = trunk.position /\ s = step /\ p = pos /\ D = detours
  OBVIOUS
<1>2. /\ pc = "shift" /\ p <= high /\ pos' = p + s
      /\ detours' = IF p # x /\ trunk.anchored THEN D \cup {p} ELSE D
      /\ UNCHANGED <<trunk, pc, low, high, step>>
  BY <1>1 DEF Shift, Shifts
<1>3. x \in Nat /\ s \in Nat \ {0}
  BY <1>1 DEF InsideInv, TrunkInv, Trunks
<1>4. PICK a, b, k \in Nat : Aligned(a, b, k)
  BY <1>2 DEF InsideInv, AlignedInv
<1>5. /\ low = x - a * s /\ high = x + b * s /\ p = Position(x, s, a, k)
      /\ k <= a + b + 1 /\ a + b <= 2 * Target /\ (s > 1 => a + b >= Target)
      /\ trunk.anchored => D = Positions(x, s, a, k)
  BY <1>1, <1>4 DEF Aligned, Around
<1>6. k <= a + b
  <2> SUFFICES ASSUME k = a + b + 1
               PROVE  FALSE
    BY <1>5
  <2>1. (k - a) * s = b * s + s /\ b * s \in Nat
    BY <1>3
  <2>2. QED
    BY <1>2, <1>3, <1>5, <2>1 DEF Position
<1>7. p + s = Position(x, s, a, k + 1)
  <2>1. (k + 1 - a) * s = (k - a) * s + s /\ (k - a) * s \in Int
    BY <1>3
  <2>2. QED
    BY <1>3, <1>5, <2>1 DEF Position
<1>8. p = x <=> k = a
  <2>1. k = a => (k - a) * s = 0
    BY <1>3
  <2>2. k # a => (k - a) * s # 0
    BY <1>3
  <2>3. (k - a) * s \in Int
    BY <1>3
  <2>4. QED
    BY <1>3, <1>5, <2>1, <2>2, <2>3 DEF Position
<1>9. trunk.anchored => detours' = Positions(x, s, a, k + 1)
  <2> SUFFICES ASSUME trunk.anchored
               PROVE  detours' = Positions(x, s, a, k + 1)
    OBVIOUS
  <2>1. 0 .. k + 1 - 1 = (0 .. k - 1) \cup {k}
    OBVIOUS
  <2>2. CASE k = a
    <3>1. detours' = D
      BY <1>2, <1>8, <2>2
    <3>2. (0 .. k + 1 - 1) \ {a} = (0 .. k - 1) \ {a}
      BY <2>1, <2>2
    <3>3. QED
      BY <1>5, <3>1, <3>2 DEF Positions
  <2>3. CASE k # a
    <3>1. detours' = D \cup {Position(x, s, a, k)}
      BY <1>2, <1>5, <1>8, <2>3
    <3>2. (0 .. k + 1 - 1) \ {a} = ((0 .. k - 1) \ {a}) \cup {k}
      BY <2>1, <2>3
    <3>3. QED
      BY <1>5, <3>1, <3>2 DEF Positions
  <2>4. QED
    BY <2>2, <2>3
<1>10. Around(x, s, low, high, pos', detours', trunk.anchored, a, b, k + 1)
  <2>1. k + 1 <= a + b + 1
    BY <1>6
  <2>2. QED
    BY <1>2, <1>5, <1>7, <1>9, <2>1 DEF Around
<1>11. AlignedInv'
  <2>1. k + 1 \in Nat
    OBVIOUS
  <2>2. x = trunk'.position /\ s = step' /\ low' = low /\ high' = high /\ trunk'.anchored = trunk.anchored
    BY <1>1, <1>2
  <2>3. QED
    BY <1>10, <2>1, <2>2 DEF AlignedInv, Aligned
<1>12. QED
  BY <1>2, <1>11 DEF InsideInv, TrunkInv, OpenInv

(* The loops of a trunk keep the window as it should be, *)
LEMMA InsideStep ==
  ASSUME InsideInv, Lower \/ Raise \/ Coarsen \/ Align \/ Shift \/ UNCHANGED shiftVars
  PROVE  InsideInv'
<1>1. CASE UNCHANGED shiftVars
  <2>1. UNCHANGED <<trunk, pc, low, high, step, pos, detours>>
    BY <1>1 DEF shiftVars
  <2>2. TrunkInv' /\ OpenInv'
    BY <2>1 DEF InsideInv, TrunkInv, OpenInv, StepsEachSide
  <2>3. AlignedInv'
    BY <2>1 DEF InsideInv, AlignedInv, Aligned
  <2>4. QED
    BY <2>2, <2>3 DEF InsideInv
<1>2. QED
  BY <1>1, WindowOpens, WindowAligns, WindowShifts

(* and so does going from one trunk to the next. *)
LEMMA WindowStep == WindowInv /\ [WindowNext]_shiftVars => WindowInv'
<1> SUFFICES ASSUME WindowInv, [WindowNext]_shiftVars
             PROVE  WindowInv'
  OBVIOUS
<1>1. ASSUME pc = "trunk", NEW t \in Trunks, t.position < t.size, Open(t)
      PROVE  WindowInv'
  <2>1. t.position \in Nat /\ t.size \in Nat
    BY DEF Trunks
  <2>2. /\ trunk' = t /\ low' = t.position /\ high' = t.position /\ step' = 1
        /\ detours' = {} /\ pc' = "low"
    BY <1>1 DEF Open
  <2>3. QED
    BY <1>1, <2>1, <2>2 DEF WindowInv, InsideInv, TrunkInv, OpenInv, AlignedInv
<1>2. CASE Close
  BY <1>2 DEF Close, WindowInv
<1>3. CASE Lower \/ Raise \/ Coarsen \/ Align \/ Shift
  <2>1. pc # "trunk"
    BY <1>3 DEF Lower, Raise, Coarsen, Align, Shift
  <2>2. QED
    BY <1>3, <2>1, InsideStep DEF WindowInv
<1>4. CASE UNCHANGED shiftVars
  <2>1. pc' = pc
    BY <1>4 DEF shiftVars
  <2>2. QED
    BY <1>4, <2>1, InsideStep DEF WindowInv
<1>5. QED
  BY <1>1, <1>2, <1>3, <1>4 DEF WindowNext

(* How many positions there are, one left out. *)
LEMMA PositionsCount ==
  ASSUME NEW x \in Int, NEW s \in Nat \ {0}, NEW a \in Nat, NEW n \in Nat, a <= n
  PROVE  IsFiniteSet(Positions(x, s, a, n + 1)) /\ Cardinality(Positions(x, s, a, n + 1)) = n
<1> DEFINE S == (0 .. n) \ {a}
           D == Positions(x, s, a, n + 1)
           f == [j \in S |-> Position(x, s, a, j)]
<1> HIDE DEF S, D, f
<1>1. IsFiniteSet(0 .. n) /\ Cardinality(0 .. n) = n + 1
  BY FS_Interval
<1>2. IsFiniteSet(S) /\ Cardinality(S) = n
  <2>1. a \in 0 .. n
    OBVIOUS
  <2>2. IsFiniteSet((0 .. n) \ {a}) /\ Cardinality((0 .. n) \ {a}) = Cardinality(0 .. n) - 1
    BY <1>1, <2>1, FS_RemoveElement
  <2>3. QED
    BY <1>1, <2>2 DEF S
<1>3. ASSUME NEW i \in S, NEW j \in S, Position(x, s, a, i) = Position(x, s, a, j)
      PROVE  i = j
  <2> SUFFICES ASSUME i # j
               PROVE  FALSE
    OBVIOUS
  <2>0. i \in Nat /\ j \in Nat
    BY DEF S
  <2>1. (i - a) * s \in Int /\ (j - a) * s \in Int /\ (i - a) * s - (j - a) * s = (i - j) * s
    BY <2>0
  <2>2. i - j \in Int /\ i - j # 0
    BY <2>0
  <2>3. (i - j) * s # 0
    BY <2>2
  <2>4. QED
    BY <1>3, <2>1, <2>3 DEF Position
<1>4. D = {Position(x, s, a, j) : j \in S}
  <2>1. n + 1 - 1 = n
    OBVIOUS
  <2>2. QED
    BY <2>1 DEF D, S, Positions
<1>5. ExistsBijection(S, D)
  <2>1. f \in [S -> D] /\ \A d \in D : \E j \in S : f[j] = d
    BY <1>4 DEF f
  <2>2. \A i, j \in S : f[i] = f[j] => i = j
    BY <1>3 DEF f
  <2>3. QED
    <3>1. f \in Injection(S, D) /\ f \in Surjection(S, D)
      BY <2>1, <2>2 DEF Injection, IsInjective, Surjection
    <3>2. QED
      BY <3>1 DEF ExistsBijection, Bijection
<1>6. QED
  BY <1>2, <1>5, FS_Bijection DEF D

(* What is left when the loop is over. *)
LEMMA WindowImplies == WindowInv => DetoursOnTarget
<1> SUFFICES ASSUME WindowInv, Done, trunk.anchored
             PROVE  /\ Cardinality(detours) <= 2 * Target
                    /\ step > 1 => Cardinality(detours) >= Target
                    /\ \A p \in detours : p \in 0 .. trunk.size - 1 /\ Distance(p, trunk.position) % step = 0
                    /\ \A p \in low .. high :
                         p # trunk.position /\ Distance(p, trunk.position) % step = 0 => p \in detours
  BY DEF DetoursOnTarget
<1>0. InsideInv
  BY DEF Done, WindowInv
<1>1. PICK x, s, D, size : x = trunk.position /\ s = step /\ D = detours /\ size = trunk.size
  OBVIOUS
<1>2. x \in Nat /\ s \in Nat \ {0} /\ low \in 0 .. x /\ high \in x .. size - 1 /\ size \in Nat
  BY <1>0, <1>1 DEF InsideInv, TrunkInv, Trunks
<1>3. PICK a, b, k \in Nat : Aligned(a, b, k)
  BY <1>0 DEF Done, InsideInv, AlignedInv
<1>4. /\ low = x - a * s /\ high = x + b * s /\ pos = Position(x, s, a, k)
      /\ k <= a + b + 1 /\ a + b <= 2 * Target /\ (s > 1 => a + b >= Target)
      /\ D = Positions(x, s, a, k)
      /\ pos > high
  BY <1>1, <1>3 DEF Aligned, Around, Done
<1>5. k = a + b + 1
  <2> SUFFICES ASSUME k <= a + b
               PROVE  FALSE
    BY <1>4
  <2>1. b * s = (k - a) * s + (a + b - k) * s /\ (k - a) * s \in Int
    BY <1>2
  <2>2. (a + b - k) * s \in Nat
    BY <1>2
  <2>3. QED
    BY <1>2, <1>4, <2>1, <2>2 DEF Position
<1>6. a * s \in Nat /\ b * s \in Nat
  BY <1>2
<1>7. Cardinality(D) = a + b
  <2>1. a + b \in Nat /\ a <= a + b /\ x \in Int
    BY <1>2
  <2>2. Cardinality(Positions(x, s, a, a + b + 1)) = a + b
    BY <1>2, <2>1, PositionsCount
  <2>3. QED
    BY <1>4, <1>5, <2>2
<1>8. \A p : p \in D <=> \E j \in 0 .. a + b : j # a /\ p = Position(x, s, a, j)
  <2>1. 0 .. k - 1 = 0 .. a + b
    BY <1>5
  <2>2. QED
    BY <1>4, <2>1 DEF Positions
<1>9. ASSUME NEW p \in D
      PROVE  p \in 0 .. size - 1 /\ Distance(p, x) % s = 0
  <2>1. PICK j \in 0 .. a + b : p = x + (j - a) * s
    BY <1>8, <1>9 DEF Position
  <2>2. (j - a) * s = j * s - a * s /\ j * s \in Nat /\ j * s <= a * s + b * s
    <3>1. (a + b - j) * s \in Nat /\ (a + b - j) * s = a * s + b * s - j * s
      BY <1>2
    <3>2. j * s \in Nat /\ (j - a) * s = j * s - a * s
      BY <1>2
    <3>3. QED
      BY <1>6, <3>1, <3>2
  <2>3. p \in 0 .. size - 1
    BY <1>2, <1>4, <1>6, <2>1, <2>2
  <2>4. PICK m \in Nat : Distance(p, x) = m * s
    <3>1. CASE j >= a
      <4>1. (j - a) * s \in Nat /\ Distance(p, x) = (j - a) * s /\ j - a \in Nat
        BY <1>2, <2>1, <3>1 DEF Distance
      <4>2. QED
        BY <4>1
    <3>2. CASE j < a
      <4>1. (a - j) * s \in Nat /\ (j - a) * s = 0 - (a - j) * s /\ a - j \in Nat
        BY <1>2, <3>2
      <4>2. Distance(p, x) = (a - j) * s
        BY <1>2, <2>1, <4>1 DEF Distance
      <4>3. QED
        BY <4>1, <4>2
    <3>3. QED
      BY <3>1, <3>2
  <2>5. QED
    BY <1>2, <2>3, <2>4, WholeSteps
<1>10. ASSUME NEW p \in low .. high, p # x, Distance(p, x) % s = 0
      PROVE  p \in D
  <2>1. Distance(p, x) \in Nat /\ p \in Int
    BY <1>2 DEF Distance
  <2>2. PICK m \in Nat : Distance(p, x) = m * s
    BY <1>2, <1>10, <2>1, WholeSteps
  <2>3. CASE p >= x
    <3>1. m * s <= b * s /\ p = x + m * s
      BY <1>2, <1>4, <1>6, <2>1, <2>2, <2>3 DEF Distance
    <3>2. m <= b
      BY <1>2, <3>1, Fewer
    <3>3. m # 0
      BY <1>2, <1>10, <3>1
    <3>4. a + m \in 0 .. a + b /\ a + m # a /\ p = Position(x, s, a, a + m)
      BY <3>1, <3>2, <3>3 DEF Position
    <3>5. QED
      BY <1>8, <3>4
  <2>4. CASE p < x
    <3>1. m * s <= a * s /\ p = x - m * s
      BY <1>2, <1>4, <1>6, <2>1, <2>2, <2>4 DEF Distance
    <3>2. m <= a
      BY <1>2, <3>1, Fewer
    <3>3. m # 0
      BY <1>2, <1>10, <3>1
    <3>4. (a - m - a) * s = 0 - m * s /\ m * s \in Nat
      BY <1>2
    <3>5. a - m \in 0 .. a + b /\ a - m # a /\ p = Position(x, s, a, a - m)
      BY <1>2, <3>1, <3>2, <3>3, <3>4 DEF Position
    <3>6. QED
      BY <1>8, <3>5
  <2>5. QED
    BY <1>2, <2>1, <2>3, <2>4
<1>11. QED
  BY <1>1, <1>4, <1>7, <1>9, <1>10

(* target_detour_count is kept for trunks of every length and position: as *)
(* many detours at most as twice the target, at least the target where     *)
(* positions were left out, evenly spaced and in the grid. *)
THEOREM WindowOnTarget == WindowSpec => []DetoursOnTarget
<1>1. WindowInit => WindowInv
  BY DEF WindowInit, WindowInv
<1>2. QED
  BY <1>1, WindowStep, WindowImplies, PTL DEF WindowSpec

(* Values that are larger by at most d each give a sum larger by at most d *)
(* times their number. *)
LEMMA SumsDiffer ==
  ASSUME NEW S, IsFiniteSet(S), NEW f \in [S -> Nat], NEW g \in [S -> Nat], NEW d \in Nat,
         \A x \in S : f[x] <= g[x] + d
  PROVE  /\ SumFunction(f) \in Nat /\ SumFunction(g) \in Nat /\ Cardinality(S) \in Nat
         /\ SumFunction(f) <= SumFunction(g) + d * Cardinality(S)
<1> DEFINE ff(T) == [x \in T |-> f[x]]
           gg(T) == [x \in T |-> g[x]]
           F == {T \in SUBSET S : SumFunction(ff(T)) <= SumFunction(gg(T)) + d * Cardinality(T)}
<1>1. {} \in F
  <2>1. SumFunction(ff({})) = 0 /\ SumFunction(gg({})) = 0
    BY SumOfNone
  <2>2. Cardinality({}) = 0
    BY FS_EmptySet
  <2>3. QED
    BY <2>1, <2>2
<1>2. ASSUME NEW T \in SUBSET S, NEW x \in S \ T, T \in F
      PROVE  T \cup {x} \in F
  <2>1. IsFiniteSet(T)
    BY FS_Subset
  <2>2. Cardinality(T \cup {x}) = Cardinality(T) + 1 /\ Cardinality(T) \in Nat
    BY <2>1, FS_AddElement, FS_CardinalityType
  <2>3. SumFunction(ff(T)) \in Nat /\ SumFunction(gg(T)) \in Nat
    BY <2>1, SumType
  <2>4. SumFunction(ff(T \cup {x})) = SumFunction(ff(T)) + f[x]
    <3>1. PICK a : a = ff(T)
      OBVIOUS
    <3>2. PICK b : b = ff(T \cup {x})
      OBVIOUS
    <3>3. DOMAIN a = T /\ DOMAIN b = T \cup {x} /\ x \notin T
      BY <3>1, <3>2
    <3>4. \A y \in T : a[y] \in Nat /\ b[y] = a[y]
      BY <3>1, <3>2
    <3>5. b[x] = f[x] /\ b[x] \in Nat
      BY <3>2
    <3>6. SumFunction(b) = SumFunction(a) + b[x]
      BY <2>1, <3>3, <3>4, <3>5, SumAdd
    <3>7. QED
      BY <3>1, <3>2, <3>5, <3>6
  <2>5. SumFunction(gg(T \cup {x})) = SumFunction(gg(T)) + g[x]
    <3>1. PICK a : a = gg(T)
      OBVIOUS
    <3>2. PICK b : b = gg(T \cup {x})
      OBVIOUS
    <3>3. DOMAIN a = T /\ DOMAIN b = T \cup {x} /\ x \notin T
      BY <3>1, <3>2
    <3>4. \A y \in T : a[y] \in Nat /\ b[y] = a[y]
      BY <3>1, <3>2
    <3>5. b[x] = g[x] /\ b[x] \in Nat
      BY <3>2
    <3>6. SumFunction(b) = SumFunction(a) + b[x]
      BY <2>1, <3>3, <3>4, <3>5, SumAdd
    <3>7. QED
      BY <3>1, <3>2, <3>5, <3>6
  <2>6. f[x] \in Nat /\ g[x] \in Nat /\ f[x] <= g[x] + d
    OBVIOUS
  <2>7. SumFunction(ff(T)) <= SumFunction(gg(T)) + d * Cardinality(T)
    BY <1>2
  <2>8. d * (Cardinality(T) + 1) = d * Cardinality(T) + d /\ d * Cardinality(T) \in Nat
    BY <2>2
  <2>9. PICK a, b, c : a = SumFunction(ff(T)) /\ b = SumFunction(gg(T)) /\ c = d * Cardinality(T)
    OBVIOUS
  <2>10. a + f[x] <= b + g[x] + (c + d)
    BY <2>3, <2>6, <2>7, <2>8, <2>9
  <2>11. SumFunction(ff(T \cup {x})) <= SumFunction(gg(T \cup {x})) + d * Cardinality(T \cup {x})
    BY <2>2, <2>4, <2>5, <2>8, <2>9, <2>10
  <2>12. QED
    BY <2>11
<1>3. S \in F
  <2> HIDE DEF F
  <2>1. QED
    BY <1>1, <1>2, GrowingFamily
<1>4. ff(S) = f /\ gg(S) = g
  OBVIOUS
<1>5. QED
  BY <1>3, <1>4, SumType, FS_CardinalityType

(* The stems of a trunk grow by at most its shift each. *)
LEMMA StemsGrow ==
  ASSUME trunk \in Trunks, NEW p \in Int, NEW q \in Int
  PROVE  /\ getTotalStemLength(p) \in Nat /\ getTotalStemLength(q) \in Nat
         /\ getTotalStemLength(p) <= getTotalStemLength(q) + Distance(p, q) * Len(trunk.stems)
<1>1. PICK stems \in Seq(Int) : stems = trunk.stems
  BY DEF Trunks
<1> DEFINE S == DOMAIN stems
           f == [k \in S |-> Distance(stems[k], p)]
           g == [k \in S |-> Distance(stems[k], q)]
<1>2. IsFiniteSet(S) /\ Cardinality(S) = Len(stems)
  <2>1. S = 1 .. Len(stems) /\ Len(stems) \in Nat
    OBVIOUS
  <2>2. QED
    BY <2>1, FS_Interval
<1>3. \A k \in S : stems[k] \in Int
  OBVIOUS
<1>4. f \in [S -> Nat] /\ g \in [S -> Nat] /\ Distance(p, q) \in Nat
      /\ \A k \in S : f[k] <= g[k] + Distance(p, q)
  BY <1>3 DEF Distance
<1>5. getTotalStemLength(p) = SumFunction(f) /\ getTotalStemLength(q) = SumFunction(g)
  BY <1>1 DEF getTotalStemLength
<1> HIDE DEF S, f, g
<1>6. QED
  BY <1>1, <1>2, <1>4, <1>5, SumsDiffer

(* Below the trunk the window ends where max_detour_ratio says, above it   *)
(* the last position tested is two below the last one taken.               *)
StemsInv ==
  /\ \A p \in low .. trunk.position : LengthIncrease(p) <= maxLengthIncrease
  /\ \A p \in trunk.position + 1 .. high : LengthIncrease(p - 2) <= maxLengthIncrease
  /\ pc = "shift" => pos \in Int /\ pos >= low
  /\ detours \subseteq low .. high

RatioInv == pc = "trunk" \/ StemsInv

RatioNearlyKept ==
  Done => \A p \in detours :
    LengthIncrease(p) <= maxLengthIncrease + IF p > trunk.position THEN 2 * Len(trunk.stems) ELSE 0

(* The trunk as it is has the stems it has. *)
LEMMA Unshifted == trunk \in Trunks => LengthIncrease(trunk.position) <= maxLengthIncrease
<1> SUFFICES ASSUME trunk \in Trunks
             PROVE  LengthIncrease(trunk.position) <= maxLengthIncrease
  OBVIOUS
<1>1. trunk.position \in Int /\ trunk.range \in Nat
  BY DEF Trunks
<1>2. PICK p \in Int : p = trunk.position
  BY <1>1
<1>3. getTotalStemLength(p) \in Nat
  BY StemsGrow
<1>4. LengthIncrease(p) = 0
  BY <1>2, <1>3 DEF LengthIncrease
<1>5. QED
  BY <1>1, <1>2, <1>4 DEF maxLengthIncrease

(* Each loop looks at the stems before it widens the window, *)
LEMMA StemsStep ==
  ASSUME InsideInv, InsideInv', StemsInv,
         Lower \/ Raise \/ Coarsen \/ Align \/ Shift \/ UNCHANGED shiftVars
  PROVE  StemsInv'
<1>1. trunk' = trunk
  BY DEF Lower, Raise, Coarsen, Align, Shift, shiftVars
<1>2. PICK x, l, h, max : x = trunk.position /\ l = low /\ h = high /\ max = maxLengthIncrease
  OBVIOUS
<1>3. /\ x \in Nat /\ trunk.size \in Nat /\ l \in 0 .. x /\ h \in x .. trunk.size - 1 /\ step \in Nat \ {0}
      /\ low' \in 0 .. x /\ high' \in x .. trunk.size - 1 /\ step' \in Nat \ {0}
  BY <1>1, <1>2 DEF InsideInv, TrunkInv, Trunks
<1>4. trunk'.position = x /\ maxLengthIncrease' = max
  BY <1>1, <1>2 DEF maxLengthIncrease
<1>5. \A p : LengthIncrease(p)' = LengthIncrease(p)
  BY <1>1 DEF LengthIncrease, getTotalStemLength
<1>6. /\ \A p \in l .. x : LengthIncrease(p) <= max
      /\ \A p \in x + 1 .. h : LengthIncrease(p - 2) <= max
      /\ pc = "shift" => pos \in Int /\ pos >= l
      /\ detours \subseteq l .. h
      /\ pc # "shift" => detours = {}
  BY <1>2 DEF StemsInv, InsideInv, OpenInv
<1>7. SUFFICES /\ \A p \in low' .. x : LengthIncrease(p) <= max
               /\ \A p \in x + 1 .. high' : LengthIncrease(p - 2) <= max
               /\ pc' = "shift" => pos' \in Int /\ pos' >= low'
               /\ detours' \subseteq low' .. high'
  BY <1>4, <1>5 DEF StemsInv
<1>8. CASE Lower
  <2>1. pc = "low" /\ high' = h /\ pc' # "shift" /\ detours' = detours
        /\ ((low' = l - 1 /\ LengthIncrease(l - 1) <= max) \/ low' = l)
    BY <1>2, <1>8 DEF Lower, CanLower
  <2>2. \A p \in low' .. x : p \in l .. x \/ (p = l - 1 /\ low' = l - 1)
    BY <1>3, <2>1
  <2>3. \A p \in low' .. x : LengthIncrease(p) <= max
    BY <1>3, <1>6, <2>1, <2>2
  <2>4. QED
    BY <1>6, <2>1, <2>3
<1>9. CASE Raise
  <2>1. pc = "high" /\ low' = l /\ pc' # "shift" /\ detours' = detours
        /\ ((high' = h + 1 /\ LengthIncrease(h - 1) <= max) \/ high' = h)
    BY <1>2, <1>9 DEF Raise, CanRaise
  <2>2. \A p \in x + 1 .. high' : p \in x + 1 .. h \/ (p = h + 1 /\ high' = h + 1)
    BY <1>3, <2>1
  <2>3. h + 1 - 2 = h - 1
    BY <1>3
  <2>4. \A p \in x + 1 .. high' : LengthIncrease(p - 2) <= max
    BY <1>3, <1>6, <2>1, <2>2, <2>3
  <2>5. QED
    BY <1>6, <2>1, <2>4
<1>10. CASE Coarsen
  BY <1>2, <1>6, <1>10 DEF Coarsen
<1>11. CASE Align
  <2>1. PICK a, b, s : /\ a = (x - l) \div s /\ b = (h - x) \div s /\ s = step
                       /\ low' = x - a * s /\ high' = x + b * s /\ pos' = low'
                       /\ detours' = {}
    BY <1>2, <1>6, <1>11 DEF Align
  <2>2. a * s <= x - l /\ a * s \in Nat /\ b * s <= h - x /\ b * s \in Nat
    BY <1>3, <2>1, Division, x - l \in Nat, h - x \in Nat
  <2>3. low' >= l /\ high' <= h
    BY <1>3, <2>1, <2>2
  <2>4. QED
    BY <1>3, <1>6, <2>1, <2>3
<1>12. CASE Shift
  <2>1. /\ pc = "shift" /\ pos <= h /\ pos' = pos + step /\ low' = l /\ high' = h
        /\ detours' \subseteq detours \cup {pos}
    BY <1>2, <1>12 DEF Shift
  <2>2. pos \in l .. h /\ pos' \in Int /\ pos' >= l
    BY <1>3, <1>6, <2>1
  <2>3. QED
    BY <1>3, <1>6, <2>1, <2>2
<1>13. CASE UNCHANGED shiftVars
  BY <1>2, <1>6, <1>13 DEF shiftVars
<1>14. QED
  BY <1>8, <1>9, <1>10, <1>11, <1>12, <1>13

(* and each trunk begins where it is. *)
LEMMA RatioStep == WindowInv /\ WindowInv' /\ RatioInv /\ [WindowNext]_shiftVars => RatioInv'
<1> SUFFICES ASSUME WindowInv, WindowInv', RatioInv, [WindowNext]_shiftVars
             PROVE  RatioInv'
  OBVIOUS
<1>1. ASSUME pc = "trunk", NEW t \in Trunks, t.position < t.size, Open(t)
      PROVE  RatioInv'
  <2>1. t.position \in Nat
    BY DEF Trunks
  <2>2. trunk' = t /\ low' = t.position /\ high' = t.position /\ detours' = {} /\ pc' = "low"
    BY <1>1 DEF Open
  <2>3. (LengthIncrease(trunk.position) <= maxLengthIncrease)'
    <3>1. (trunk \in Trunks)' => (LengthIncrease(trunk.position) <= maxLengthIncrease)'
      BY Unshifted, PTL
    <3>2. QED
      BY <2>2, <3>1
  <2>4. \A p \in low' .. trunk'.position : p = trunk'.position
    BY <2>1, <2>2
  <2>5. \A p \in trunk'.position + 1 .. high' : FALSE
    BY <2>1, <2>2
  <2>6. QED
    BY <2>2, <2>3, <2>4, <2>5 DEF RatioInv, StemsInv
<1>2. CASE Close
  BY <1>2 DEF Close, RatioInv
<1>3. CASE Lower \/ Raise \/ Coarsen \/ Align \/ Shift
  <2>1. pc # "trunk" /\ pc' # "trunk"
    BY <1>3 DEF Lower, Raise, Coarsen, Align, Shift
  <2>2. QED
    BY <1>3, <2>1, StemsStep DEF WindowInv, RatioInv
<1>4. CASE UNCHANGED shiftVars
  <2>1. pc' = pc
    BY <1>4 DEF shiftVars
  <2>2. QED
    BY <1>4, <2>1, StemsStep DEF WindowInv, RatioInv
<1>5. QED
  BY <1>1, <1>2, <1>3, <1>4 DEF WindowNext

LEMMA RatioImplies == WindowInv /\ RatioInv => RatioNearlyKept
<1> SUFFICES ASSUME WindowInv, RatioInv, Done, NEW p \in detours
             PROVE  LengthIncrease(p) <= maxLengthIncrease
                                           + IF p > trunk.position THEN 2 * Len(trunk.stems) ELSE 0
  BY DEF RatioNearlyKept
<1>0. InsideInv /\ StemsInv
  BY DEF Done, WindowInv, RatioInv
<1>1. /\ trunk \in Trunks /\ trunk.position \in Nat /\ low \in Nat /\ high \in Int
      /\ Len(trunk.stems) \in Nat /\ trunk.range \in Nat /\ p \in low .. high
  BY <1>0 DEF InsideInv, TrunkInv, StemsInv, Trunks
<1>2. maxLengthIncrease \in Nat
  BY <1>1 DEF maxLengthIncrease
<1>3. /\ getTotalStemLength(p) \in Nat /\ getTotalStemLength(trunk.position) \in Nat
      /\ getTotalStemLength(p - 2) \in Nat
      /\ getTotalStemLength(p) <= getTotalStemLength(p - 2) + 2 * Len(trunk.stems)
  <2>1. PICK q : q = p - 2
    OBVIOUS
  <2>2. p \in Int /\ q \in Int /\ Distance(p, q) = 2
    BY <1>1, <2>1 DEF Distance
  <2>3. /\ getTotalStemLength(p) \in Nat /\ getTotalStemLength(q) \in Nat
        /\ getTotalStemLength(p) <= getTotalStemLength(q) + 2 * Len(trunk.stems)
    BY <1>1, <2>2, StemsGrow
  <2>4. getTotalStemLength(trunk.position) \in Nat
    <3>1. PICK r : r = trunk.position
      OBVIOUS
    <3>2. r \in Int
      BY <1>1, <3>1
    <3>3. getTotalStemLength(r) \in Nat
      BY <1>1, <3>2, StemsGrow
    <3>4. QED
      BY <3>1, <3>3
  <2>5. QED
    BY <2>1, <2>3, <2>4
<1>4. CASE p > trunk.position
  <2>1. LengthIncrease(p - 2) <= maxLengthIncrease
    BY <1>0, <1>1, <1>4 DEF StemsInv
  <2>2. QED
    BY <1>1, <1>2, <1>3, <1>4, <2>1 DEF LengthIncrease
<1>5. CASE ~(p > trunk.position)
  <2>1. LengthIncrease(p) <= maxLengthIncrease
    BY <1>0, <1>1, <1>5 DEF StemsInv
  <2>2. QED
    BY <1>1, <1>2, <1>3, <1>5, <2>1 DEF LengthIncrease
<1>6. QED
  BY <1>4, <1>5

(* max_detour_ratio is kept below a trunk, and above it but for what two   *)
(* positions add to the stems. *)
THEOREM RatioHolds == WindowSpec => []RatioNearlyKept
<1>1. WindowInit => WindowInv /\ RatioInv
  BY DEF WindowInit, WindowInv, RatioInv
<1>2. WindowInv /\ RatioInv /\ [WindowNext]_shiftVars => WindowInv' /\ RatioInv'
  BY WindowStep, RatioStep
<1>3. WindowInv /\ RatioInv => RatioNearlyKept
  BY RatioImplies
<1>4. QED
  BY <1>1, <1>2, <1>3, PTL DEF WindowSpec
=============================================================================

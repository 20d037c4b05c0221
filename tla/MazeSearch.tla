----------------------------- MODULE MazeSearch -----------------------------
(***************************************************************************)
(* MazeRoute (gr/MazeRoute.cpp): run connects the pins of a net one by one *)
(* with a best-first search that starts from the whole tree built so far,  *)
(* and getSteinerTree makes a tree of the paths found.  It has no effect   *)
(* of its own, and is the state function SteinerTree.                      *)
(*                                                                         *)
(* A solution is the sequence of the (vertex, cost) pairs that its prev    *)
(* pointers lead through, its own first.  Entries of the queue equal in    *)
(* value are one entry: the second one would find nothing left to do.      *)
(***************************************************************************)
EXTENDS Integers, Sequences, FiniteSets, FiniteSetsExt, SequencesExt

CONSTANT Graphs    \* the graphs SparseGraph::init can hand over

VARIABLES graph,      \* the graph of this net
          minCosts,   \* least cost pushed for each vertex pushed so far
          queue,      \* the solutions in the priority queue
          visited,    \* the pins connected
          solutions   \* the paths that connected them

vars == <<graph, minCosts, queue, visited, solutions>>

(* getNextVertex over the three edge indices, the missing ones left out.   *)
NextVertices(u) == {v \in graph.vertices : <<u, v>> \in DOMAIN graph.cost}

(* The vertices are (direction, x, y).                                     *)
SamePoint(u, v) == u[2] = v[2] /\ u[3] = v[3]

(* Wires have a length and cost something; only the vias at pins are free. *)
IsGraph(g) ==
  /\ IsFiniteSet(g.vertices) /\ g.start \in g.pins /\ g.pins \subseteq g.vertices
  /\ g.cost \in [DOMAIN g.cost -> Nat]
  /\ \A e \in DOMAIN g.cost :
       /\ e \in g.vertices \X g.vertices
       /\ g.cost[e] = 0 => SamePoint(e[1], e[2]) /\ (e[1] \in g.pins \/ e[2] \in g.pins)
  /\ \A p \in g.pins : \A v \in g.vertices \ {p} : SamePoint(v, p) =>
       v \notin g.pins /\ <<v, p>> \in DOMAIN g.cost /\ g.cost[<<v, p>>] = 0

(* The vertices of two planes over the grid: H (0), whose edges run along  *)
(* x, and V (1), whose edges run along y.  An edge joins two vertices at   *)
(* one point, or two neighbours on a line of their plane.                  *)
Along(v) == IF v[1] = 0 THEN v[2] ELSE v[3]
OnLine(u, v) == u[1] = v[1] /\ IF u[1] = 0 THEN u[3] = v[3] ELSE u[2] = v[2]

IsLaidOut(g) ==
  /\ g.vertices \subseteq {0, 1} \X Int \X Int
  /\ \A e \in DOMAIN g.cost :
       IF SamePoint(e[1], e[2]) THEN e[1] # e[2]
       ELSE /\ OnLine(e[1], e[2])
            /\ \A v \in g.vertices : OnLine(v, e[1]) =>
                 ~(Along(e[1]) < Along(v) /\ Along(v) < Along(e[2]))
                 /\ ~(Along(e[2]) < Along(v) /\ Along(v) < Along(e[1]))

(* Every set of vertices that holds the start and is closed is whole.      *)
IsConnected(g) ==
  \A S \in SUBSET g.vertices :
    g.start \in S /\ (\A e \in DOMAIN g.cost : e[1] \in S => e[2] \in S) => S = g.vertices

ASSUME GraphsAssumption == \A g \in Graphs : IsGraph(g) /\ IsLaidOut(g) /\ IsConnected(g)

Solution(v, c, prev) == <<[vertex |-> v, cost |-> c]>> \o prev
NoTree == [nodes |-> {}, edges |-> {}, fixed |-> {}]

Init ==
  /\ graph \in Graphs
  /\ minCosts = [v \in {graph.start} |-> 0]
  /\ queue = {Solution(graph.start, 0, <<>>)}
  /\ visited = {graph.start}
  /\ solutions = <<>>

Detached == graph.pins \ visited

(* The tops the priority queue can have.                                   *)
CheapestAny == queue    \* mutant: the comparison of the queue is lost

Cheapest == {s \in queue : \A o \in queue : s[1].cost <= o[1].cost}

(* The positions of a path up to the first that costs nothing, which is    *)
(* where it leaves the tree.                                               *)
Fresh(s) == {i \in DOMAIN s : \A j \in 1 .. i : s[j].cost # 0}

(* A detached pin comes out of the queue: the vertices of its path become  *)
(* sources.                                                                *)
FoundWithoutSources(s) ==    \* mutant: nothing is pushed for the path
  /\ s \in Cheapest /\ s[1].vertex \in Detached
  /\ solutions' = Append(solutions, s)
  /\ visited' = visited \cup {s[1].vertex}
  /\ queue' = queue \ {s}
  /\ UNCHANGED <<graph, minCosts>>

Found(s) ==
  /\ s \in Cheapest /\ s[1].vertex \in Detached
  /\ solutions' = Append(solutions, s)
  /\ visited' = visited \cup {s[1].vertex}
  /\ queue' = (queue \ {s}) \cup
       {Solution(s[i].vertex, 0, SubSeq(s, i + 1, Len(s))) : i \in Fresh(s)}
  /\ minCosts' = [v \in DOMAIN minCosts |-> IF \E i \in Fresh(s) : s[i].vertex = v
                                            THEN 0 ELSE minCosts[v]]
  /\ UNCHANGED graph

PrunedAtLeast(s) ==    \* mutant: solutions at the least cost are pruned too
  /\ Detached # {}
  /\ s \in Cheapest /\ s[1].vertex \notin Detached
  /\ s[1].cost >= minCosts[s[1].vertex]
  /\ queue' = queue \ {s}
  /\ UNCHANGED <<graph, minCosts, visited, solutions>>

Pruned(s) ==
  /\ Detached # {}
  /\ s \in Cheapest /\ s[1].vertex \notin Detached
  /\ s[1].cost > minCosts[s[1].vertex]
  /\ queue' = queue \ {s}
  /\ UNCHANGED <<graph, minCosts, visited, solutions>>

(* The neighbours a solution reaches at less than before, but for the one  *)
(* it came from.                                                           *)
NextCost(s, v) == s[1].cost + graph.cost[<<s[1].vertex, v>>]

Better(s) ==
  {v \in NextVertices(s[1].vertex) :
     /\ ~(Len(s) > 1 /\ v = s[2].vertex)
     /\ v \notin DOMAIN minCosts \/ NextCost(s, v) < minCosts[v]}

Expand(s) ==
  /\ Detached # {}
  /\ s \in Cheapest /\ s[1].vertex \notin Detached
  /\ s[1].cost <= minCosts[s[1].vertex]
  /\ queue' = (queue \ {s}) \cup {Solution(v, NextCost(s, v), s) : v \in Better(s)}
  /\ minCosts' = [v \in DOMAIN minCosts \cup Better(s) |->
                    IF v \in Better(s) THEN NextCost(s, v) ELSE minCosts[v]]
  /\ UNCHANGED <<graph, visited, solutions>>
----------------------------------------------------------------------------
(* getSteinerTree: a path is followed until a vertex that has a node.  The *)
(* nodes of its ends hold pins, whose layers they take.                    *)
Attach(t, s) ==
  LET old == {i \in DOMAIN s : \/ s[i].vertex \in t.nodes
                               \/ \E j \in 1 .. i - 1 : s[j].vertex = s[i].vertex}
      new == {i \in DOMAIN s : \A j \in 1 .. i : j \notin old}
  IN [nodes |-> t.nodes \cup {s[i].vertex : i \in new},
      edges |-> t.edges \cup {<<s[i + 1].vertex, s[i].vertex>> : i \in new \ {Len(s)}},
      fixed |-> t.fixed \cup {s[i].vertex : i \in new \cap {1, Len(s)}}]

Paths == FoldLeft(Attach, NoTree, solutions)

(* Remove redundant tree nodes: a child at the point of its parent.        *)
Redundant(t) == {e \in t.edges : SamePoint(e[1], e[2])}

Rep(t, v) ==
  IF \E e \in Redundant(t) : e[2] = v THEN (CHOOSE e \in Redundant(t) : e[2] = v)[1] ELSE v

Contracted(t) ==
  [nodes |-> {Rep(t, v) : v \in t.nodes},
   edges |-> {<<Rep(t, e[1]), e[2]>> : e \in t.edges \ Redundant(t)},
   fixed |-> {Rep(t, v) : v \in t.fixed}]

(* Remove intermediate tree nodes: inside a straight line, without a pin.  *)
InsideBends(t, v) ==    \* mutant: bends are removed too
  /\ v \notin t.fixed
  /\ Cardinality({e \in t.edges : e[1] = v}) = 1
  /\ \E e \in t.edges : e[2] = v

Inside(t, v) ==
  /\ v \notin t.fixed
  /\ Cardinality({e \in t.edges : e[1] = v}) = 1
  /\ \E e, f \in t.edges : /\ e[2] = v /\ f[1] = v
                           /\ IF e[1][3] = v[3] THEN f[2][3] = v[3] ELSE f[2][2] = v[2]

Straightened(t) ==
  LET End[v \in t.nodes] ==
        IF Inside(t, v) THEN End[(CHOOSE e \in t.edges : e[1] = v)[2]] ELSE v
  IN [nodes |-> {v \in t.nodes : ~Inside(t, v)},
      edges |-> {<<e[1], End[e[2]]>> : e \in {f \in t.edges : ~Inside(t, f[1])}},
      fixed |-> t.fixed]

(* A net of one pseudo pin is its node.                                    *)
SteinerTree ==
  IF solutions = <<>> THEN [nodes |-> {graph.start}, edges |-> {}, fixed |-> {graph.start}]
  ELSE Straightened(Contracted(Paths))

Search == \E s \in queue : Found(s) \/ Pruned(s) \/ Expand(s)
Returned == Detached = {} /\ UNCHANGED vars
Next == Search \/ Returned

(* One thread runs the search.                                             *)
Spec == Init /\ [][Next]_vars /\ WF_vars(Search)
----------------------------------------------------------------------------
Chains == Seq([vertex : graph.vertices, cost : Nat])

IsSolution(s) ==
  /\ s \in Chains /\ Len(s) > 0
  /\ s[Len(s)].vertex = graph.start
  /\ \A i \in DOMAIN s : s[i].vertex \in DOMAIN minCosts

TypeOK ==
  /\ IsGraph(graph)
  /\ DOMAIN minCosts \subseteq graph.vertices
  /\ \A v \in DOMAIN minCosts : minCosts[v] \in Nat
  /\ \A s \in queue : IsSolution(s)
  /\ solutions \in Seq(Chains)
  /\ \A i \in DOMAIN solutions : IsSolution(solutions[i])
  /\ visited \subseteq graph.pins /\ graph.start \in visited
  /\ Len(solutions) = Cardinality(visited) - 1

(* While a pin is detached the search can go on: the queue never runs      *)
(* empty, which would dereference a null solution.                         *)
NeverStuck == Detached # {} => queue # {}

(* The least cost of a walk from A to each vertex, as (vertex, cost) pairs: *)
(* walks are made one edge longer as often as there are vertices.          *)
Longer(d) ==
  LET all == d \cup UNION {{<<v, p[2] + graph.cost[<<p[1], v>>]>> : v \in NextVertices(p[1])} : p \in d}
  IN {p \in all : \A q \in all : q[1] = p[1] => p[2] <= q[2]}

Distances(A) ==
  LET D[k \in Nat] == IF k = 0 THEN {<<v, 0>> : v \in A} ELSE Longer(D[k - 1])
  IN D[Cardinality(graph.vertices)]

(* Each pin found is one that is nearest to the tree built before, and its *)
(* path is as short as any: pushing the tree's vertices again at cost 0    *)
(* gives what a new search from all of them would.                         *)
NearestPinNext ==
  [][solutions' # solutions =>
       Last(solutions')[1].cost =
         Min({d[2] : d \in {e \in Distances(Paths.nodes \cup {graph.start}) : e[1] \in Detached}})]_vars

(* The assertion that a path ends in pins holds, and the paths give one    *)
(* tree over all pins: its root is where the start is, every edge is       *)
(* straight and none joins two nodes at one point (getSteinerTree logs     *)
(* that as an error), and each pin gives its layers to a node at its point.*)
TreeSpansPins ==
  /\ Paths.fixed \subseteq graph.pins
  /\ Detached = {} =>
       LET tree == SteinerTree
           Parents(v) == {e[1] : e \in {f \in tree.edges : f[2] = v}}
       IN
       /\ \A p \in graph.pins : \E v \in tree.fixed : SamePoint(p, v)
       /\ Cardinality(tree.fixed) = Cardinality(graph.pins)
       /\ tree.fixed \subseteq tree.nodes
       /\ \E root \in tree.nodes :
            /\ SamePoint(root, graph.start) /\ Parents(root) = {}
            /\ \A v \in tree.nodes \ {root} : Cardinality(Parents(v)) = 1
       /\ tree.edges \subseteq tree.nodes \X tree.nodes
       /\ \A e \in tree.edges : (e[1][2] = e[2][2]) # (e[1][3] = e[2][3])

(* Every pin is connected in the end.                                      *)
Terminates == <>(Detached = {})
=============================================================================

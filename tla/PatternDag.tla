----------------------------- MODULE PatternDag -----------------------------
(***************************************************************************)
(* The routing DAG of PatternRoute (gr/PatternRoute.cpp): operators only.  *)
(*                                                                         *)
(* A Steiner tree is a record of its root, its nodes <<i>>, where they are *)
(* (at), the layers of their pins (fixed) and their children in order.  In *)
(* the DAG, the corner of a path from p to c is p \o c \o <<0>> or <<1>>.  *)
(***************************************************************************)
EXTENDS Integers, FiniteSetsExt, SequencesExt

CONSTANTS NumLayers, MinRoutingLayer

ASSUME LayersAssumption == MinRoutingLayer \in 1 .. NumLayers - 1

H == 0
V == 1
Layer == 0 .. NumLayers - 1
LayerDirection(l) == l % 2

(* IntervalT without a value: above every layer and below every layer.     *)
NoLayers == [low |-> NumLayers, high |-> -1]

(* A wire from a to b.                                                    *)
Direction(a, b) == IF a[1] = b[1] THEN V ELSE H

(* constructPaths: the alternatives from a node to a child of it.          *)
Corner(p, c, k) == p \o c \o <<k>>

Alternatives(n, p, c) ==
  IF n.at[p][1] = n.at[c][1] \/ n.at[p][2] = n.at[c][2] THEN <<c>>
  ELSE <<Corner(p, c, 0), Corner(p, c, 1)>>

(* constructRoutingDAG: paths[m] has one sequence of alternatives for each *)
(* child of m.                                                             *)
RoutingDag(n) ==
  LET edges == UNION {{<<p, n.children[p][i]>> : i \in DOMAIN n.children[p]} : p \in n.nodes}
      bent == {e \in edges : Len(Alternatives(n, e[1], e[2])) = 2}
      corners == {Corner(e[1], e[2], k) : e \in bent, k \in {0, 1}}
      Edge(m) == CHOOSE e \in bent : \E k \in {0, 1} : m = Corner(e[1], e[2], k)
      start(m) == n.at[Edge(m)[1]]
      end(m) == n.at[Edge(m)[2]]
      nodes == n.nodes \cup corners
  IN [nodes |-> nodes,
      at |-> [m \in nodes |-> IF m \in n.nodes THEN n.at[m]
                              ELSE IF Last(m) = 0 THEN <<end(m)[1], start(m)[2]>>
                              ELSE <<start(m)[1], end(m)[2]>>],
      fixed |-> [m \in nodes |-> IF m \in n.nodes THEN n.fixed[m] ELSE NoLayers],
      paths |-> [m \in nodes |->
                   IF m \in n.nodes
                   THEN [i \in DOMAIN n.children[m] |-> Alternatives(n, m, n.children[m][i])]
                   ELSE <<<<Edge(m)[2]>>>>]]
=============================================================================

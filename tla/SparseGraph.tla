---------------------------- MODULE SparseGraph ----------------------------
(***************************************************************************)
(* SparseGraph::init (gr/MazeRoute.cpp): the graph a net is maze-routed    *)
(* on.  It has two planes, H and V, over some lines of the grid: every     *)
(* line of a pin and every interval-th line of the chip.                   *)
(***************************************************************************)
EXTENDS Integers, Functions

H == 0
V == 1

(* The merge of the pins' sorted coordinates with the lines of the grid.   *)
Lines(pins, grid, size) ==
  pins \cup {x \in 0 .. size - 1 : x >= grid.offset /\ (x - grid.offset) % grid.interval = 0}

(* Consecutive lines.                                                      *)
Consecutive(lines, a, b) == a < b /\ ~\E c \in lines : a < c /\ c < b

(* addSameLayerEdge: H edges run along x, V edges along y.                 *)
SameLayer(xs, ys, u, v) ==
  \/ u[1] = H /\ v[1] = H /\ u[3] = v[3] /\ Consecutive(xs, u[2], v[2])
  \/ u[1] = V /\ v[1] = V /\ u[2] = v[2] /\ Consecutive(ys, u[3], v[3])

(* wireCostView.sum: the edges of the grid between two points of a line.   *)
WireCost(wire, u, v) ==
  IF u[1] = H THEN SumFunction([x \in u[2] .. v[2] - 1 |-> wire[<<H, x, u[3]>>]])
              ELSE SumFunction([y \in u[3] .. v[3] - 1 |-> wire[<<V, u[2], y>>]])

(* init: points are the pseudo pins, wire the cost of each grid edge.  The *)
(* via at a pin costs nothing, on either end.                              *)
Graph(points, first, xGrid, yGrid, xSize, ySize, wire, viaCost) ==
  LET xs == Lines({p[1] : p \in points}, xGrid, xSize)
      ys == Lines({p[2] : p \in points}, yGrid, ySize)
      vertices == {H, V} \X xs \X ys
      sameLayer == {e \in vertices \X vertices : SameLayer(xs, ys, e[1], e[2])}
      diffLayer == {<<<<H, p[1], p[2]>>, <<V, p[1], p[2]>>>> : p \in xs \X ys}
      forward == sameLayer \cup diffLayer
      Cost(u, v) == IF <<u, v>> \in sameLayer THEN WireCost(wire, u, v)
                    ELSE IF <<u[2], u[3]>> \in points THEN 0 ELSE viaCost
  IN [vertices |-> vertices,
      pins |-> {<<H, p[1], p[2]>> : p \in points},
      start |-> <<H, first[1], first[2]>>,
      cost |-> [e \in forward \cup {<<e[2], e[1]>> : e \in forward} |->
                  IF e \in forward THEN Cost(e[1], e[2]) ELSE Cost(e[2], e[1])]]
=============================================================================

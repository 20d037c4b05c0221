----------------------------- MODULE GridGraph -----------------------------
(***************************************************************************)
(* GridGraph: what committing, ripping up and checking a routing tree does *)
(* to the edges of the 3D grid graph, and the 2D cost view derived from    *)
(* them.  A routing tree is the sequence of its (node, child) pairs in the *)
(* order GRTreeNode::preorder visits them.  Demands and capacities are     *)
(* counted in halves of a track, the smallest amount the code commits.     *)
(*                                                                         *)
(* The edge <<l, x, y>> joins (x, y) to the next cell of layer l in the    *)
(* layer's routing direction.                                              *)
(***************************************************************************)
EXTENDS Integers, FiniteSets, Functions

CONSTANTS nLayers, xSize, ySize,
          layerDirections,    \* layerDirections[l]: H or V
          min_routing_layer   \* the lowest layer the 2D views look at

H == 0
V == 1
Layers == 0 .. nLayers - 1
Cells == (0 .. xSize - 1) \X (0 .. ySize - 1)

ASSUME GridAssumption ==
  /\ nLayers \in Nat /\ xSize \in Nat /\ ySize \in Nat
  /\ layerDirections \in [Layers -> {H, V}]
  /\ min_routing_layer \in Nat

getSize(d) == IF d = H THEN xSize ELSE ySize
Coord(c, d) == IF d = H THEN c[1] ELSE c[2]

(* Cell c moved by k cells in direction d. *)
Shift(c, d, k) == IF d = H THEN <<c[1] + k, c[2]>> ELSE <<c[1], c[2] + k>>

Edge(l, c) == <<l, c[1], c[2]>>
Cell(e) == <<e[2], e[3]>>
Edges == {e \in Layers \X (0 .. xSize - 1) \X (0 .. ySize - 1) :
            Coord(Cell(e), layerDirections[e[1]]) < getSize(layerDirections[e[1]]) - 1}

(* The two cells an edge joins. *)
Ends(e) == {Cell(e), Shift(Cell(e), layerDirections[e[1]], 1)}

(* A GRPoint, and a (node, child) pair. *)
Points == [l : Layers, c : Cells]
IsWire(s) == s.u.l = s.v.l
IsVia(s) == s.u.l # s.v.l
Low(a, b) == IF a <= b THEN a ELSE b
High(a, b) == IF a <= b THEN b ELSE a

(* What commitTree's assertions ask of a pair: a wire follows the routing  *)
(* direction of its layer; a via stays in its cell.                        *)
Legal(s) ==
  /\ s.u \in Points /\ s.v \in Points
  /\ IsWire(s) => Coord(s.u.c, 1 - layerDirections[s.u.l])
                    = Coord(s.v.c, 1 - layerDirections[s.u.l])
  /\ IsVia(s) => s.u.c = s.v.c
----------------------------------------------------------------------------
(* commitWire: the edges of a wire, one track each. *)
WireEdges(s) ==
  LET d == layerDirections[s.u.l]
      a == Coord(s.u.c, d)
      b == Coord(s.v.c, d)
  IN  {Edge(s.u.l, Shift(s.u.c, d, x - a)) : x \in Low(a, b) .. High(a, b) - 1}

(* commitNonStackVia: a via that passes through layer l takes one track of *)
(* it, half on each side of the cell, all of it on the only side there is  *)
(* at the end of the row.                                                  *)
NonStackLayers(s) ==
  {l \in Layers : Low(s.u.l, s.v.l) < l /\ l < High(s.u.l, s.v.l) - 1}
LowSide(l, c) == Coord(c, layerDirections[l]) > 0
HighSide(l, c) == Coord(c, layerDirections[l]) < getSize(layerDirections[l]) - 1
NonStackEdges(l, c) ==
  {e \in {Edge(l, Shift(c, layerDirections[l], -1))} : LowSide(l, c)}
    \cup {e \in {Edge(l, c)} : HighSide(l, c)}
NonStackDemand(l, c) == IF LowSide(l, c) /\ HighSide(l, c) THEN 1 ELSE 2

ViaEdges(s) == UNION {NonStackEdges(l, s.u.c) : l \in NonStackLayers(s)}

(* The edges a pair is committed to, and how much. *)
SegmentEdges(s) == IF IsWire(s) THEN WireEdges(s) ELSE ViaEdges(s)
SegmentDemand(s, e) == IF IsWire(s) THEN 2 ELSE NonStackDemand(e[1], s.u.c)

(* commitTree: one update of demand for every edge of every pair. *)
Commits(tree) ==
  UNION {{<<k, e>> : e \in SegmentEdges(tree[k])} : k \in DOMAIN tree}
CommitDemand(tree, u) == SegmentDemand(tree[u[1]], u[2])

(* What the whole tree takes of an edge, and the demands with the tree      *)
(* committed or ripped up as a whole.                                      *)
TreeEdges(tree) == UNION {SegmentEdges(tree[k]) : k \in DOMAIN tree}
Usage(tree, e) ==
  SumFunction([k \in DOMAIN tree |->
                 IF e \in SegmentEdges(tree[k]) THEN SegmentDemand(tree[k], e) ELSE 0])

Commit(demand, tree) ==
  [e \in Edges |-> IF e \in TreeEdges(tree) THEN demand[e] + Usage(tree, e) ELSE demand[e]]
RipUpTree(demand, tree) ==
  [e \in Edges |-> IF e \in TreeEdges(tree) THEN demand[e] - Usage(tree, e) ELSE demand[e]]

(* checkOverflow of an edge, and of a tree: only its wires are checked.  A *)
(* null tree, which the code counts as one that fits, is no tree here:     *)
(* where it is called every net has one (EveryNetRouted of AreaRouter).    *)
EdgeOverflow(capacity, demand, e) == capacity[e] - demand[e] < 0
checkOverflow(capacity, demand, tree) ==
  \E k \in DOMAIN tree :
    IsWire(tree[k]) /\ \E e \in WireEdges(tree[k]) : EdgeOverflow(capacity, demand, e)
----------------------------------------------------------------------------
(* The 2D cost view: for every cell and direction a cost that is a function *)
(* of the demand summed over the routing layers of that direction (the sum  *)
(* of the capacities is fixed), so the model's view is that sum.            *)
ViewCells == {v \in {H, V} \X (0 .. xSize - 1) \X (0 .. ySize - 1) :
                Coord(<<v[2], v[3]>>, v[1]) < getSize(v[1]) - 1}
ViewCell(d, c) == <<d, c[1], c[2]>>
ViewLayers(d) == {l \in Layers : l >= min_routing_layer /\ layerDirections[l] = d}
ViewDemand(demand, v) ==
  SumFunction([l \in ViewLayers(v[1]) |-> demand[<<l, v[2], v[3]>>]])

extractWireCostView(demand) == [v \in ViewCells |-> ViewDemand(demand, v)]

(* updateWireCostView: the entries it recomputes for a tree. *)
ViaViewCells(s) ==
  LET Dirs == {layerDirections[l] : l \in Low(s.u.l, s.v.l) .. High(s.u.l, s.v.l) - 1}
  IN  {ViewCell(d, s.u.c) : d \in Dirs}
        \cup {ViewCell(d, Shift(s.u.c, d, -1)) : d \in {d \in Dirs : Coord(s.u.c, d) > 0}}
WireViewCells(s) == {ViewCell(layerDirections[e[1]], Cell(e)) : e \in WireEdges(s)}
UpdatedCells(tree) ==
  ViewCells \cap
    UNION {IF IsWire(tree[k]) THEN WireViewCells(tree[k]) ELSE ViaViewCells(tree[k])
             : k \in DOMAIN tree}

updateWireCostView(view, demand, tree) ==
  [v \in ViewCells |-> IF v \in UpdatedCells(tree) THEN ViewDemand(demand, v) ELSE view[v]]
=============================================================================

---------------------------- MODULE MCMazeSearch ----------------------------
(* The sparse graphs of a chip of XSize by YSize cells: every net of one   *)
(* to four pins with one in the corner, every second line of the grid, and *)
(* one or no congested edge.                                               *)
EXTENDS MazeSearch

S == INSTANCE SparseGraph

CONSTANTS XSize, YSize, ViaCost, Congested

Grids == [interval : {2}, offset : {0, 1}]
GridEdges == {<<S!H, x, y>> : x \in 0 .. XSize - 2, y \in 0 .. YSize - 1}
               \cup {<<S!V, x, y>> : x \in 0 .. XSize - 1, y \in 0 .. YSize - 2}
WireCosts == {[e \in GridEdges |-> IF e = hot THEN Congested ELSE 1] : hot \in GridEdges \cup {<<>>}}
Cells == (0 .. XSize - 1) \X (0 .. YSize - 1)
Points == {p \in SUBSET Cells : <<0, 0>> \in p /\ Cardinality(p) \in 1 .. 4}

MCGraphs ==
  UNION {{S!Graph(points, first, grid, grid, XSize, YSize, wire, ViaCost) :
            first \in points, grid \in Grids, wire \in WireCosts} : points \in Points}
=============================================================================

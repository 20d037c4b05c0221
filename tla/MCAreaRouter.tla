---------------------------- MODULE MCAreaRouter ---------------------------
(***************************************************************************)
(* Five layers (odd ones horizontal) over 3 x 2 cells.  Nets a and b join  *)
(* the two cells of neighbouring columns; c joins the two lower cells of   *)
(* these columns, so its box meets both.  Vias up to layer 4 pass through  *)
(* layers 1 and 2, and a detour moves a's wire into b's column.            *)
(***************************************************************************)
EXTENDS AreaRouter, Sequences

MCDirections == [l \in 0 .. 4 |-> IF l % 2 = 1 THEN 0 ELSE 1]
MCNets == {"a", "b", "c"}
MCBoxes == [n \in MCNets |->
  CASE n = "a" -> [lx |-> 0, hx |-> 0, ly |-> 0, hy |-> 1]
    [] n = "b" -> [lx |-> 1, hx |-> 1, ly |-> 0, hy |-> 1]
    [] n = "c" -> [lx |-> 0, hx |-> 1, ly |-> 0, hy |-> 0]]

Pt(l, x, y) == [l |-> l, c |-> <<x, y>>]
Seg(p, q) == [u |-> p, v |-> q]
(* Up to layer l in column x, along it, and down again. *)
Column(l, x) ==
  <<Seg(Pt(0, x, 0), Pt(l, x, 0)), Seg(Pt(l, x, 0), Pt(l, x, 1)),
    Seg(Pt(l, x, 1), Pt(0, x, 1))>>
(* From column x over to column x2, along it on layer 2, and back. *)
Detour(x, x2) ==
  <<Seg(Pt(1, x, 0), Pt(1, x2, 0)), Seg(Pt(1, x2, 0), Pt(2, x2, 0)),
    Seg(Pt(2, x2, 0), Pt(2, x2, 1)), Seg(Pt(2, x2, 1), Pt(1, x2, 1)),
    Seg(Pt(1, x2, 1), Pt(1, x, 1))>>
Row(l) == <<Seg(Pt(0, 0, 0), Pt(l, 0, 0)), Seg(Pt(l, 0, 0), Pt(l, 1, 0)),
            Seg(Pt(l, 1, 0), Pt(0, 1, 0))>>

MCPattern == [n \in MCNets |->
  CASE n = "a" -> {Column(2, 0), Column(4, 0)}
    [] n = "b" -> {Column(2, 1), Column(4, 1)}
    [] n = "c" -> {Row(1)}]
MCDetour == [n \in MCNets |->
  CASE n = "a" -> {Column(4, 0), Detour(0, 1)}
    [] n = "b" -> {Column(2, 1), Detour(1, 2)}
    [] n = "c" -> {Row(1), Row(3)}]
MCMaze == [n \in MCNets |->
  CASE n = "a" -> {Column(4, 0), Detour(0, 1)}
    [] n = "b" -> {Column(4, 1)}
    [] n = "c" -> {Row(3)}]

(* One track everywhere; or not enough on layer 2. *)
MCCapacities ==
  {[e \in Edges |-> 2], [e \in Edges |-> IF e[1] = 2 THEN 1 ELSE 2]}
=============================================================================

-------------------------- MODULE MCBatchScheduler -------------------------
(* Up to 4 nets in any order: boxes in a row of cells, and one above it,   *)
(* that are apart, touch, overlap, contain each other or are equal, with   *)
(* half perimeters 0 to 2.                                                 *)
EXTENDS BatchScheduler

Box(lx, hx, ly, hy) == [lx |-> lx, hx |-> hx, ly |-> ly, hy |-> hy]
MCBoxes ==
  {Box(0, 0, 0, 0), Box(1, 1, 0, 0), Box(0, 1, 0, 0), Box(1, 2, 0, 0),
   Box(2, 2, 0, 0), Box(1, 2, 0, 1), Box(0, 1, 1, 1)}
MCNetCounts == 0 .. 4
MCThreadCounts == {1, 4}
=============================================================================

---------------------------- MODULE MCGPURouter ----------------------------
(***************************************************************************)
(* Three layers (1 vertical) over 6 x 5 cells.  Coarse cells are of 2 x 3, *)
(* those of the upper row of 2 x 2: ySize is no multiple of ScaleY.  Two   *)
(* or three nets; a net's first tree is a comb on a trunk in row y of      *)
(* layer 2.                                                                *)
(***************************************************************************)
EXTENDS GPURouter

MCDirections == [l \in 0 .. 2 |-> IF l % 2 = 0 THEN 0 ELSE 1]

Pt(l, x, y) == [l |-> l, c |-> <<x, y>>]

(* Up from the first cell to layer 2, along row y, and down to the pins;   *)
(* pins are in order of their columns, which differ.                       *)
Pair(p, q) == IF p = q THEN <<>> ELSE <<[u |-> p, v |-> q]>>
Comb(pins, y) ==
  LET X(i) == pins[i].c[1]
      Foot(i) == Pt(1, X(i), pins[i].c[2])
      Tooth(i) == Pair(Pt(2, X(i), y), Pt(1, X(i), y)) \o Pair(Pt(1, X(i), y), Foot(i))
                    \o Pair(Foot(i), pins[i])
      First == Pair(pins[1], Foot(1)) \o Pair(Foot(1), Pt(1, X(1), y))
                 \o Pair(Pt(1, X(1), y), Pt(2, X(1), y))
      Step(i) == Pair(Pt(2, X(i - 1), y), Pt(2, X(i), y)) \o Tooth(i)
  IN [root |-> pins[1], pairs |-> FoldLeft(LAMBDA t, i : t \o Step(i), First,
                                           [k \in 1 .. Len(pins) - 1 |-> k + 1])]

Net(points, y) ==
  [pins |-> points, tree |-> Comb([i \in DOMAIN points |-> Last(points[i])], y)]

(* Net 1 has a pin with access points on layers 0 and 1, net 2 two pins in *)
(* one coarse cell; net 3, if there is one, is narrower than one, or       *)
(* straight in a column of net 2's.                                        *)
FirstNets ==
  {Net(<< <<Pt(0, 0, 0)>>, <<Pt(1, 2, 4), Pt(0, 2, 4)>>, <<Pt(0, 5, 1)>> >>, y) : y \in {1, 3}}
SecondNets ==
  {Net(<< <<Pt(1, 0, 4)>>, <<Pt(1, 2, 0)>>, <<Pt(1, 3, 1)>> >>, y) : y \in {1, 3}}
LocalNet == Net(<< <<Pt(0, 2, 2)>>, <<Pt(1, 3, 3)>> >>, 3)
ColumnNet ==
  [pins |-> << <<Pt(1, 3, 1)>>, <<Pt(1, 3, 3)>>, <<Pt(1, 3, 4)>> >>,
   tree |-> [root |-> Pt(1, 3, 1),
             pairs |-> Pair(Pt(1, 3, 1), Pt(1, 3, 3)) \o Pair(Pt(1, 3, 3), Pt(1, 3, 4))]]

(* Where there is no track at all.                                         *)
Walls ==
  {{},
   {e \in Edges : e[1] = 1 /\ e[2] < 5 /\ e[3] = 1},
   {e \in Edges : e[1] = 2 /\ e[2] = 2 /\ e[3] < 4},
   {e \in Edges : e[1] = 1 /\ e[2] = 2 /\ e[3] >= 3}}
MCProblems ==
  {[nets |-> nets, capacity |-> [e \in Edges |-> IF e \in w THEN 0 ELSE t]]
     : nets \in {<<a, b>> : a \in FirstNets, b \in SecondNets}
                  \cup {<<a, b, c>> : a \in FirstNets, b \in SecondNets, c \in {LocalNet, ColumnNet}},
       w \in Walls, t \in {3, 6}}
=============================================================================

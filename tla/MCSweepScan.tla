---------------------------- MODULE MCSweepScan ----------------------------
(* Up to three wires of one to three cells packed into rows of four, with  *)
(* a thread for every two entries, and wires of five to seven cells in     *)
(* rows of their own, more than the threads have pairs for in one pass.    *)
(* Costs are 1 and 2; there are wires on layer 0.  The rows to sum up have *)
(* one to seven cells.                                                     *)
EXTENDS WirePacking

Wire(n, layer) == [length |-> n, z |-> layer, cost |-> [i \in 1 .. n - 1 |-> 1 + ((i + n) % 2)]]

MCWires ==
  {<<Wire(n, 1)>> : n \in 5 .. 7}
    \cup {<<Wire(5, 1), Wire(2, 1), Wire(n, 1)>> : n \in 1 .. 3}
    \cup UNION {[1 .. k -> {Wire(n, 1) : n \in 1 .. 3}] : k \in 1 .. 3}
    \cup {<<Wire(2, 0), Wire(2, 1)>>, <<Wire(2, 1), Wire(2, 0)>>}

(* Cells that are reached, and those no wire is in, which never are.       *)
Dists(plan, offset, length) ==
  {f \in [0 .. length - 1 -> {0, 2, Infinity}] :
     \A i \in 0 .. length - 1 : CellAt(plan, offset + i) = Nothing => f[i] = Infinity}

MCWireRows ==
  UNION {UNION {{RowAt(PackPlan(w), b[1], b[2], d) : d \in Dists(PackPlan(w), b[1], b[2])}
                : b \in Blocks(w)}
         : w \in MCWires}

MCGridRows ==
  {[length |-> n, at |-> [i \in 0 .. n - 1 |-> 1 + (i * i)], dist |-> [i \in 0 .. n - 1 |-> 0],
    cell |-> [i \in 0 .. n - 1 |-> Nothing], sizes |-> <<>>, layers |-> <<>>] : n \in 1 .. 7}
=============================================================================

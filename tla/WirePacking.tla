---------------------------- MODULE WirePacking ----------------------------
(***************************************************************************)
(* How GuidedGamer::setGuide2D and packWireToRows (gamer/GuidedGamer.cu)   *)
(* lay out the wires of a guide in the rows that SweepScan sweeps: a long  *)
(* wire has rows of its own and is swept by itself, the others share rows  *)
(* of PackRowSize entries.                                                 *)
(*                                                                         *)
(* A wire is a record of its length, its layer z and the cost[i] of the    *)
(* edge to its cell i.  An entry of a row holds <<k, i>>, cell i of the    *)
(* k-th wire of the plan, or Nothing.                                      *)
(***************************************************************************)
EXTENDS SweepScan, SequencesExt

CONSTANT PackRowSize    \* PACK_ROW_SIZE

ASSUME PackAssumption == PackRowSize \in Nat \ {0}

Nothing == <<0, 0>>

IsLong(w) == w.length > PackRowSize

RowUp(n) == ((n + PackRowSize - 1) \div PackRowSize) * PackRowSize

(* A plan is the end of the rows used and the wires with their offsets.    *)
PlacedAt(plan, w, offset, next) ==
  [rowsOffset |-> next, wires |-> Append(plan.wires, [wire |-> w, offset |-> offset])]

(* std::partition puts the long wires first: each of the two loops passes  *)
(* over the wires of the other.                                            *)
PlaceLong(plan, w) ==
  LET offset == RowUp(plan.rowsOffset) IN
  IF IsLong(w) THEN PlacedAt(plan, w, offset, offset + RowUp(w.length)) ELSE plan

PlaceAnywhere(plan, w) ==    \* mutant: no new row if the wire does not fit
  IF IsLong(w) THEN plan
  ELSE PlacedAt(plan, w, plan.rowsOffset, plan.rowsOffset + w.length)

PlaceShort(plan, w) ==
  LET offset == IF PackRowSize - (plan.rowsOffset % PackRowSize) < w.length
                THEN RowUp(plan.rowsOffset) ELSE plan.rowsOffset
  IN IF IsLong(w) THEN plan ELSE PlacedAt(plan, w, offset, offset + w.length)

LongPlan(wires) == FoldLeft(PlaceLong, [rowsOffset |-> 0, wires |-> <<>>], wires)
PackPlan(wires) == FoldLeft(PlaceShort, LongPlan(wires), wires)

(* packWireToRows: idxAtRow and costAtRow, of a plan.  What no wire writes *)
(* was cleared to -1 and Infinity.                                         *)
CellAt(plan, pos) ==
  LET on == {k \in DOMAIN plan.wires :
               LET w == plan.wires[k] IN pos \in w.offset .. w.offset + w.wire.length - 1}
  IN IF on = {} THEN Nothing ELSE LET k == Max(on) IN <<k, pos - plan.wires[k].offset>>

CostAt(plan, pos) ==
  LET c == CellAt(plan, pos)
      w == plan.wires[c[1]].wire
  IN IF c = Nothing \/ c[2] = 0 \/ w.z = 0 THEN Infinity ELSE w.cost[c[2]]

(* The row of length entries at offset, for SweepScan.                     *)
RowAt(plan, offset, length, d) ==
  LET at[i \in 0 .. length - 1] == IF i = 0 THEN 0 ELSE at[i - 1] + CostAt(plan, offset + i)
  IN [length |-> length, at |-> at, dist |-> d,
      cell |-> [i \in 0 .. length - 1 |-> CellAt(plan, offset + i)],
      sizes |-> [k \in DOMAIN plan.wires |-> plan.wires[k].wire.length],
      layers |-> [k \in DOMAIN plan.wires |-> plan.wires[k].wire.z]]

(* The blocks of sweepWireGlobal, one per long wire, and of sweepWireShared.*)
Blocks(wires) ==
  LET plan == PackPlan(wires)
      long == LongPlan(wires)
  IN {<<long.wires[k].offset, long.wires[k].wire.length>> : k \in DOMAIN long.wires}
       \cup {<<r * PackRowSize, PackRowSize>>
               : r \in long.rowsOffset \div PackRowSize
                       .. RowUp(plan.rowsOffset) \div PackRowSize - 1}

-----------------------------------------------------------------------------
(* A row holds its wires whole, and a sweep does not leave the wire: every *)
(* cell it reaches, it reaches along cells of the same wire, which is what *)
(* tracePath marks between the two positions and stores as a route.  And   *)
(* it goes through the wire: of a wire with a reached cell all cells are   *)
(* reached, but on layer 0, where no wire can be used.                     *)
WiresStayApart ==
  kernel = "sweep" /\ out # <<>> =>
    \A i \in Cells(row) :
      LET c == row.cell[i]
          p == out.prev[i]
      IN /\ c # Nothing =>
              {row.cell[j] : j \in {m \in Cells(row) : row.cell[m][1] = c[1]}}
                = {<<c[1], n>> : n \in 0 .. row.sizes[c[1]] - 1}
         /\ out.dist[i] < Infinity =>
              /\ c # Nothing
              /\ \A j \in Cells(row) : (p <= j /\ j <= i) \/ (i <= j /\ j <= p) =>
                   row.cell[j] = <<c[1], c[2] + j - i>>
              /\ row.layers[c[1]] # 0 =>
                   \A j \in Cells(row) : row.cell[j][1] = c[1] => out.dist[j] < Infinity
=============================================================================

SPECIFICATION Spec
CONSTANTS
  WireRows <- MCWireRows
  GridRows <- MCGridRows
  BlockDim = 2
  Infinity = 100
  PackRowSize = 4
INVARIANTS SweepIsShortest RaceFree SumsExact WiresStayApart

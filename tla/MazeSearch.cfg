SPECIFICATION Spec
CONSTANTS
  XSize = 3
  YSize = 2
  ViaCost = 2
  Congested = 4
  Graphs <- MCGraphs
INVARIANTS NeverStuck TreeSpansPins
PROPERTIES NearestPinNext Terminates

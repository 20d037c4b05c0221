SPECIFICATION Spec
CONSTANTS
  nLayers = 3
  xSize = 6
  ySize = 5
  layerDirections <- MCDirections
  min_routing_layer = 1
  Problems <- MCProblems
  ScaleX = 2
  ScaleY = 3
  Margin = 1
  CoarseTurns = 4
  FineTurns = 4
  Infinity = 100000
INVARIANTS
  PinsOnGuides
  PinsEndRoutes
  DeviceDemandExact
  HostTreesJoinPins
  GuidesTouch

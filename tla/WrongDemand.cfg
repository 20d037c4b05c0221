SPECIFICATION Spec
CONSTANTS
  nLayers = 5
  xSize = 3
  ySize = 2
  layerDirections <- MCDirections
  min_routing_layer = 1
  Nets <- MCNets
  boundingBox <- MCBoxes
  PatternTrees <- MCPattern
  DetourTrees <- MCDetour
  MazeTrees <- MCMaze
  Capacities <- MCCapacities
  NoTree = NoTree
INVARIANT
  NoWrongDemand

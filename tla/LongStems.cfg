SPECIFICATION Spec
CONSTANTS
  NumLayers = 4
  MinRoutingLayer = 1
  Target = 3
  flute <- MCFlute
  Nets <- MCNets
INVARIANT WithinRatio

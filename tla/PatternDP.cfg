SPECIFICATION Spec
CONSTANTS
  NumLayers = 4
  MinRoutingLayer = 1
  Infinity = 1000
  Nets <- MCNets
INVARIANTS CostsOptimal TreeMeetsCosts TreeConnects

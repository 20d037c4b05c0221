SPECIFICATION Spec
CONSTANTS
  Pin <- MCPin
  NetLists <- MCNetLists
  Coord <- MCCoord
INVARIANTS
  Connected
  PartsFormTree
  PinsKeepTheirArea
  SinglePinsLeftOut

SPECIFICATION Spec
CONSTANT
  Coordinates <- Edges
INVARIANTS
  SidesAreKept
PROPERTIES
  MoreIsMore

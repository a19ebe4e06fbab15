SPECIFICATION Spec
CONSTANTS
  Decompositions <- MCDecompositions
  Fields = 2
INVARIANTS TypeOK NeighborsKnowEachOther TagsAgree BlocksTile LevelsRoundTrip

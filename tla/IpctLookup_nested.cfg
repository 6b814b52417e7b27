\* Elements of nested structures.
SPECIFICATION FairSpec
CONSTANTS
  Klasses <- MCKlasses
  Ids <- MCIds
  TupleIds <- MCTupleIds
  NULL = NULL
INVARIANT NestedElemsFound

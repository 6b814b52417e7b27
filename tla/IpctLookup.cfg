\* Lists of classes, subclasses, actions and elements.
SPECIFICATION FairSpec
CONSTANTS
  Klasses <- MCKlasses
  Ids <- MCIds
  TupleIds <- MCTupleIds
  NULL = NULL
INVARIANTS
  TypeOK
  PathInv
  LookupIsRegistrys
PROPERTY
  LookupEnds

\* The example as it is linked: the firmware's tables on both sides.
SPECIFICATION Spec
CONSTANTS
  OneProgram = TRUE
  Leftovers <- MCLeftovers
  FloatInRange <- NoFloats
  IPCT_MAX_DEPTH = 10
  NULL = NULL
CHECK_DEADLOCK FALSE
INVARIANTS
  TypeOK
  ParamsTaken
  HandlesOnlyParams
PROPERTY RunEnds

\* Do the parameters arrive in the program as it is linked?
SPECIFICATION Spec
CONSTANTS
  OneProgram = TRUE
  Leftovers <- MCLeftovers
  FloatInRange <- NoFloats
  IPCT_MAX_DEPTH = 10
  NULL = NULL
CHECK_DEADLOCK FALSE
INVARIANT ParamsArrive

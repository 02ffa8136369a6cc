SPECIFICATION ScalarSpec
CONSTANTS
  W = 4
  Fuel = 14
  MaxSweeps = 3
  MaxIterations = 2
  Programs <- Miscompiled
  Inputs <- FunctionInputs
INVARIANT SameScalarBehaviour
CHECK_DEADLOCK FALSE

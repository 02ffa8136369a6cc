SPECIFICATION FairScalarSpec
CONSTANTS
  W = 4
  Fuel = 14
  MaxSweeps = 3
  MaxIterations = 2
  Programs <- AllFunctions
  Inputs <- FunctionInputs
INVARIANTS SameScalarBehaviour ConstantsCoverRuns RangesHold EndsSettled
PROPERTIES OnlyClimbs OnlyNarrows Terminates
CHECK_DEADLOCK FALSE

SPECIFICATION FairSpec
CONSTANTS
  W = 3
  Fuel = 16
  Programs <- AllFunctions
  Inputs <- FunctionInputs
  Labels <- BlockLabels
  EntryLabel = "entry"
INVARIANTS TreeFound IntervalsDecide SameBehaviour StaysSSA PhisOnIteratedFrontier HeldValuesDominate
PROPERTIES TreeEnds
CHECK_DEADLOCK FALSE

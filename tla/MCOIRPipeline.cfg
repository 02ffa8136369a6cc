SPECIFICATION GoingSpec
CONSTANTS
  W = 3
  Fuel = 8
  Programs <- Functions
  Inputs <- PipelineInputs
  Threaded <- ThreadedFunctions
  MaxIterations = 3
  LargeBlocks = 5
  LargeInstrs = 19
  Globals <- Variables
  Callees <- Module
  MemoryPrograms <- MemoryFunctions
INVARIANTS EdgesAgree StaysSSA SameBehaviour Settled
PROPERTY Terminates
CHECK_DEADLOCK FALSE

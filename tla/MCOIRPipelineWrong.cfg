SPECIFICATION FairPipelineSpec
CONSTANTS
  W = 3
  Fuel = 12
  Programs <- NoFunctions
  Inputs <- PipelineInputs
  Threaded <- Mistreated
  MaxIterations = 3
  LargeBlocks = 7
  LargeInstrs = 30
  Globals <- Variables
  Callees <- Module
  MemoryPrograms <- Miscompiled
PROPERTY CompilesRight
CHECK_DEADLOCK FALSE

SPECIFICATION Spec
CONSTANTS
  None = None
  Programs <- MCPrograms
  Physical <- MCPhysical
  Palette <- MCPalette
  CallerSaved <- MCCallerSaved
  CalleeSaved <- MCCalleeSaved
  CallClobbers <- MCCallClobbers
  Scratch <- MCScratch
  ZeroClobbers <- MCZeroClobbers
  MaxIterations = 4
  MaxBlocks = 5
INVARIANTS SameValues LivenessExact Converges
CHECK_DEADLOCK FALSE

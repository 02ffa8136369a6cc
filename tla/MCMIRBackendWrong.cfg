SPECIFICATION Spec
CONSTANTS
  W = 4
  Fuel = 14
  ImmBits = 3
  ArgRegs <- MCArgRegs
  Palette <- MCPalette
  CallerSaved <- MCCallerSaved
  Window = 4
  PostRAWindow = 4
  Programs <- Miscompiled
  InputsOf <- MCInputs
  Policies <- MCPolicies
  Scratch <- MCScratch
  MaySpill <- AnySpill
INVARIANT SameBehaviour
CHECK_DEADLOCK FALSE

SPECIFICATION Spec
CONSTANTS
  W = 4
  Fuel = 14
  ImmBits = 3
  ArgRegs <- MCArgRegs
  Palette <- MCPalette
  CallerSaved <- MCCallerSaved
  Window = 4
  PostRAWindow = 4
  Programs <- MCPrograms
  InputsOf <- MCInputs
  Policies <- MCPolicies
  Scratch <- MCScratch
  MaySpill <- MCMaySpill
INVARIANTS SameBehaviour
CHECK_DEADLOCK FALSE

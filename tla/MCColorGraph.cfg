SPECIFICATION Spec
CONSTANTS
  r1 = r1
  r2 = r2
  r3 = r3
  None = None
  Registers <- MCRegisters
  Palette <- MCPalette
  Problems <- MCProblems
INVARIANTS ProperColoring SpillJustified LowDegreeColored
CHECK_DEADLOCK FALSE

SPECIFICATION FairSpec
CONSTANTS
  NumVars = 3
  Problems <- MCProblems
INVARIANTS VerdictSound WatchListsExact PropagationComplete LimitsHonoured
PROPERTIES ImplementsDPLL Terminates
CHECK_DEADLOCK FALSE

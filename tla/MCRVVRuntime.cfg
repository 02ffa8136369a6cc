SPECIFICATION FairSpec
CONSTANTS
  t1 = t1
  t2 = t2
  Threads <- MCThreads
  MaxCalls = 2
INVARIANTS VectorBodyUsable VerdictJustified
PROPERTIES ImplementsWriteOnce EveryCallSettles

SPECIFICATION FairSpec
CONSTANTS
  None = None
  VTypes <- MCVTypes
  VLMax <- MCVLMax
  Lengths = {1, 3}
  MaxBlocks = 6
  Programs <- MCPrograms
INVARIANTS RunsAsAsked MeetOverPaths RefusesOnlyTheUnknown
PROPERTIES Finishes
CHECK_DEADLOCK FALSE

SPECIFICATION FileSpec
CONSTANTS
  OldFiles <- MCOld
  MaxEntries = 2
  MaxChanges = 2
INVARIANTS FileIsCurrent
PROPERTIES StartsAsMeant
CHECK_DEADLOCK FALSE

SPECIFICATION FairSpec
CONSTANTS
  s1 = s1
  s2 = s2
  Servers = {s1}
  Types <- MCTypes
  Lengths <- MCLengths
  Installs <- MCInstalls
  FilterSets <- MCFilterSets
  DiskFails = TRUE
INVARIANTS ClassifyTypeOK PendingModelFits TableNamesModel
PROPERTIES KnownStaysKnown ReachesDisk
CHECK_DEADLOCK FALSE

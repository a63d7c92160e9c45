SPECIFICATION FairSpec
CONSTANTS
  OtherPlugins = {p}
  Versions = {3, 4, 6, bad}
  Malformed = bad
  MinOpenShiftVersion = 4
  MaxOpenShiftVersion = bad
  DefaultMaxOpenShiftVersion = 5
  OLMManaged = TRUE
  MaxAttempts = 4
  MaxEdits = 4
  MaxFaults = 2
INVARIANTS TypeOK NoDuplicateEntry
PROPERTIES OthersKept NoDanglingEntry Settles
CHECK_DEADLOCK FALSE

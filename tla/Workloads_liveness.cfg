SPECIFICATION FairSpec
CONSTANTS
  IsOpenShift = TRUE
  Modelled = {"databaseSecret", "agentProxyConfig", "databasePVC",
              "database", "reports", "core"}
  Specs <- MCSpecs
  Tampered = {"database"}
  Frozen = {"agentProxyConfig"}
  MaxEdits = 1
  MaxFaults = 1
INVARIANTS AtRestInPlace
PROPERTIES DataKept Converges
CHECK_DEADLOCK FALSE

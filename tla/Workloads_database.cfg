SPECIFICATION FairSpec
CONSTANTS
  IsOpenShift = TRUE
  Modelled = {"databaseSecret", "databasePVC", "database", "core"}
  Specs <- TwoSecrets
  Tampered = {}
  Frozen = {}
  MaxEdits = 2
  MaxFaults = 1
INVARIANTS TypeOK DatabaseOpens AtRestInPlace
PROPERTIES NewDeploymentsStay Converges
CHECK_DEADLOCK FALSE

SPECIFICATION FairSpec
CONSTANTS
  Namespaces = {inst, a}
  InstallNamespace = inst
  IsOpenShift = TRUE
  CertManagerInstalled = TRUE
  None = none
  Specs = {{inst}, {inst, a}}
  CertManagerSettings = {TRUE}
  MaxEdits = 2
  MaxFaults = 1
INVARIANTS TypeOK NoLostWakeup
PROPERTIES Convergence DeletionCompletes FinalizedClean
CHECK_DEADLOCK FALSE

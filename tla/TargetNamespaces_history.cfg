SPECIFICATION Spec
CONSTANTS
  Namespaces = {inst, a}
  InstallNamespace = inst
  IsOpenShift = FALSE
  CertManagerInstalled = FALSE
  None = none
  Specs = {{}, {inst, a}}
  CertManagerSettings = {TRUE, FALSE}
  MaxEdits = 3
  MaxFaults = 1
INVARIANTS ClusterObjectsGuarded NoLostWakeup
PROPERTIES FinalizedClean StatusBacked ImplementsNamespaceAccess
CHECK_DEADLOCK FALSE

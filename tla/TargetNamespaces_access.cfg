SPECIFICATION Spec
CONSTANTS
  Namespaces = {inst, a}
  InstallNamespace = inst
  IsOpenShift = TRUE
  CertManagerInstalled = TRUE
  None = none
  Specs = {{inst}, {inst, a}}
  CertManagerSettings = {FALSE}
  MaxEdits = 3
  MaxFaults = 0
INVARIANT AccessOnlyWhereSpecified
CHECK_DEADLOCK FALSE

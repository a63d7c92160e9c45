SPECIFICATION Spec
CONSTANTS
  Components = {"cryostat"}
  Keystores = {"cryostat"}
  Namespaces = {"app"}
  InstallNamespace = "install"
  OldOwners = {"cr"}
  Profiles = {FALSE}
  Tampered <- DeletedSecrets
  None = none
  MaxEdits = 0
  MaxFaults = 1
INVARIANTS TrustCurrent ChainCurrent
CHECK_DEADLOCK FALSE

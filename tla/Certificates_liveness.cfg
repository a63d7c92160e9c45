SPECIFICATION FairSpec
CONSTANTS
  Components = {"cryostat"}
  Keystores = {"cryostat"}
  Namespaces = {"app"}
  InstallNamespace = "install"
  OldOwners = {}
  Profiles = {FALSE}
  Tampered <- DeletedSecrets
  None = none
  MaxEdits = 1
  MaxFaults = 0
INVARIANTS TypeOK TrustCurrent
CHECK_DEADLOCK FALSE
PROPERTIES TLSSettles

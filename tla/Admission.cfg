SPECIFICATION Spec
CONSTANTS
  Namespaces = {inst, a}
  InstallNamespace = inst
  Specs = {{}, {inst, a}}
  Users = {u, v}
  None = none
  V1Objects <- SomeV1Objects
  V2Objects <- SomeV2Objects
  MaxRequests = 2
  MaxChanges = 1
SYMMETRY Symmetry
INVARIANT TypeOK
PROPERTIES GrantsVetted OldClientSafe AuditOnlyForNewCRs
CHECK_DEADLOCK FALSE

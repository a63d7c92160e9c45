SPECIFICATION Spec
CONSTANTS
  Namespaces = {inst, a}
  InstallNamespace = inst
  Specs = {{}, {inst, a}}
  Users = {u, v}
  None = none
  V1Objects <- SomeV1Objects
  V2Objects <- SomeV2Objects
  MaxRequests = 1
  MaxChanges = 0
INVARIANT SharedFieldsConverted
CHECK_DEADLOCK FALSE

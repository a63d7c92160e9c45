SPECIFICATION Spec
CONSTANTS
  bad = bad
  Bits = 8
  MaxPort = 100
  DefaultPort = 99
  DefaultMaxAge = 30
  DefaultMaxSize = 20
  Bad = bad
  Containers = {"app", "sidecar"}
  ValueFromVars = {"FROM_SECRET"}
  VolumeNames = {"triggers"}
  EnvNames = {"JAVA_TOOL_OPTIONS", "FROM_SECRET"}
  LabelMaps <- MCLabelMaps
  MaxEdits = 4
  MaxFaults = 1
INVARIANTS TypeOK AgentComplete
PROPERTY PropagationSuffices
CHECK_DEADLOCK FALSE

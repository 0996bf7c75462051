SPECIFICATION Spec
CONSTANTS
  Vessels = {v1}
  Names = {n1, n2}
  NoName = noname
  Unknown = unknown
  MqttNames = {n1}
  AisNames = {n2}
  MaxTime = 0
  StaleAfter = 0
  Persistent = FALSE
PROPERTIES SourcesNeverInterleave
CHECK_DEADLOCK FALSE

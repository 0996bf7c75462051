SPECIFICATION FairSpec
CONSTANTS
  Vessels = {v1}
  Names = {n1, n2}
  NoName = noname
  Unknown = unknown
  MaxTime = 1
  MqttNames = {n1, noname}
  AisNames = {n2, noname}
  StaleAfter = 0
  Persistent = TRUE
INVARIANTS TypeOK SerialWritesAgree NameAppears
PROPERTIES AuthorityKept HeldFixAdvances SupplementOnlyFills StaleGoes

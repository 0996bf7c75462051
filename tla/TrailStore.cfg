SPECIFICATION FairSpec
CONSTANTS
  Callers = {mqtt, aisstream}
  Vessels = {v1}
  Fixes = {f,g}
  Interval = 2
  QueueCap = 1
  BatchSize = 2
  MaxTs = 4
INVARIANTS RecordedSpaced CloseFlushes
PROPERTIES KeepsLog NothingLingers CloseReturns

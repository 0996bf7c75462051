SPECIFICATION Spec
CONSTANTS
  Callers = {mqtt, aisstream}
  Vessels = {v1}
  Fixes = {f}
  Interval = 2
  QueueCap = 2
  BatchSize = 2
  MaxTs = 4
INVARIANT Spaced

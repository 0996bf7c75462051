SPECIFICATION FairFeedSpec
CONSTANTS
  Vessels = {v1}
  Browsers = {b1}
  Conns = {c1}
  NoConn = noconn
  Records <- MCReports
  NoTag = 0
  QueueCap = 2
  ResyncInterval = 3
PROPERTIES KeepsOrder Converges

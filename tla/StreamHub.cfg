SPECIFICATION Spec
CONSTANTS
  Vessels = {v1, v2}
  Browsers = {b1}
  Conns = {c1, c2}
  NoConn = noconn
  Records <- MCOne
  NoTag = notag
  QueueCap = 1
  ResyncInterval = 2
SYMMETRY Symmetry
INVARIANTS TypeOK NoSendOnClosed BasedTracksHub ToldArrives

SPECIFICATION FairSpec
CONSTANTS
  w1 = w1  w2 = w2  w3 = w3
  c1 = c1  c2 = c2  f1 = f1
  r1 = r1  r2 = r2
  short = short  long = long  empty = empty
  Workers = {w1, w2, w3}
  Channels = {c1}
  Files = {f1}
  ReportIds = {r1}
  Docs = {short}
  Pages <- MCPages
  MaxAttempts = 2
  PoolSize = 2
  MaxRequests = 3
  NoDoc = NoDoc  NoRow = NoRow  NoReport = NoReport  NoChannel = NoChannel
PROPERTIES EveryRequestAnswered

SPECIFICATION ProgressSpec
CONSTANTS
  Socks = {l, s1, s2, s3}
  Listener = l
  Keys = {k1}
  NoKey = NoKey
  NoSock = NoSock
  Limits = {2}
  Totals = {2}
  BusyModes = {}
  MaxTries = 2
  Window = 1
  ScanSlack = 2
  Producers = {p1, p2}
  Consumers = {q1, q2}
  Messages = {m1, m2}
  NULL = NULL
  Nobody = Nobody
  MaxPushes = 4
PROPERTIES
  CallReturns
  IsFifo
  Drained

SPECIFICATION Spec
CONSTANTS
  Socks = {l, s1, s2, s3}
  Listener = l
  Keys = {k1}
  NoKey = NoKey
  NoSock = NoSock
  Limits = {1, 2}
  Totals = {0, 1, 2}
  BusyModes = {"output"}
  MaxTries = 2
  Window = 1
  ScanSlack = 2
SYMMETRY SlotSymmetry
INVARIANTS
  ContainerConsistent
  GroupsConsistent
  CallerSurvives
PROPERTIES
  AddressLimitKept
  TotalLimitKept
  RefusedOnlyIfBusy

SPECIFICATION Spec
CONSTANTS
  Conns = {c1}
  Apps = {a1, a2}
  Loop = Loop
  In = In
  Out = Out
  None = None
  MaxFrames = 2
  MaxMsgs = 1
INVARIANTS
  NoUseAfterFree
  WriteArmed
  FramesInOrder
  DisconnectHeard
PROPERTY ShutdownEnds

CONSTANTS
  LenMod = 6
  SizeMod = 6
  Strings <- MCStrings
  Ids <- MCIds
  EchoName <- MCEchoName
  ClientName <- MCClientName
  Lst = l
  MaxDials = 1
  Late <- MCNobody
  None = None
  Overrun = Overrun
  MaxStops = 1
  MaxLinks = 1
  MaxFails = 0
SPECIFICATION Spec
INVARIANT ListenerStops
CHECK_DEADLOCK FALSE

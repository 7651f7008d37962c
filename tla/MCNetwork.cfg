CONSTANTS
  LenMod = 6
  SizeMod = 6
  Strings <- MCStrings
  Ids <- MCIds
  EchoName <- MCEchoName
  ClientName <- MCClientName
  Lst = l
  MaxDials = 2
  Late <- MCLate
  None = None
  Overrun = Overrun
  MaxStops = 1
  MaxLinks = 2
  MaxFails = 1
SPECIFICATION FairSpec
INVARIANTS TypeOK StopCloses Answers
PROPERTIES Answered ConnectSeen LossSeen
CHECK_DEADLOCK FALSE

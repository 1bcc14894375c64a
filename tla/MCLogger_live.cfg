\* The same threads under fairness.
CONSTANTS
  Producers = {p1, p2}
  BufSize = 1
  MaxMsgs = 4
  Length <- Lengths
  Level <- MsgLevels
  EnvLevel = ""
  Signals = TRUE
SPECIFICATION FairSpec
PROPERTIES LogReturns ShutdownReturns

\* Two producers and the log thread; five of six messages go round the three buffers.
CONSTANTS
  Producers = {p1, p2}
  BufSize = 2
  MaxMsgs = 6
  Length <- Lengths
  Level <- MsgLevels
  EnvLevel = ""
  Signals = TRUE
SPECIFICATION Spec
SYMMETRY Symmetry
INVARIANTS RowsExclusive AtMostOnce LossOnlyByRace LinesIntact

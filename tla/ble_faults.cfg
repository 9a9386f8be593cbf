SPECIFICATION Spec
CONSTANTS
  a = a
  b = b
  r = r
  s = s
  NoTag = NoTag
  Msgs = {b}
  Replies = {s}
  Size <- MCSize
  RSize <- MCRSize
  Slots = 3
  Body = 3
  Word = 2
  MaxRetry = 1
  U8 = 8
  U16 = 65536
  QueueCap = 1
  Polite = TRUE
  Prompts = {TRUE}
  Patient = TRUE
  MaxLoss = 0
  MaxDown = 1
  MaxStray = 1
INVARIANT ReportTruthful

SPECIFICATION FairSpec
CONSTANTS
  a = a
  b = b
  r = r
  s = s
  NoTag = NoTag
  Msgs = {a, b}
  Replies = {r, s}
  Size <- MCSize
  RSize <- MCRSize
  Slots = 3
  Body = 3
  Word = 2
  MaxRetry = 3
  U8 = 8
  U16 = 65536
  QueueCap = 2
  Polite = TRUE
  Prompts = {TRUE, FALSE}
  Patient = TRUE
  MaxLoss = 2
  MaxDown = 0
  MaxStray = 0
INVARIANTS IdleMeansFresh TxAligned DeliveredIntact ReplyIntact
PROPERTY RoundTrip TxReturnsToIdle ResendEnds

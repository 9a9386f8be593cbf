SPECIFICATION FairSpec
CONSTANTS
    MaxResend = 2
    NumMod = 4
    Apdus = {7, 8}
    Patient = TRUE
    Faults = {"frame", "lost", "reply"}
    Garbles = {}
    MaxAsk = 4
    MaxFault = 2
    MaxDown = 0
    MaxWire = 16
    MaxOut = 4
INVARIANTS FramesWhole ReplyMatches
PROPERTIES Answered Settles

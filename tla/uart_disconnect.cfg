SPECIFICATION FairSpec
CONSTANTS
    MaxResend = 2
    NumMod = 4
    Apdus = {7, 8}
    Patient = TRUE
    Faults = {"frame", "lost"}
    Garbles = {}
    MaxAsk = 3
    MaxFault = 1
    MaxDown = 1
    MaxWire = 16
    MaxOut = 4
PROPERTIES Confirmed LeavesKeyMode

CONSTANTS
    MaxResend = 3
    NumMod = 4
    Apdus = {7}
    Patient = FALSE
    Faults = {"byte","cut","repeat"}
    Garbles = {165}
    MaxAsk = 2
    MaxFault = 1
    MaxDown = 0
    MaxWire = 16
    MaxOut = 4
SPECIFICATION FairSpec
INVARIANTS BoundedRetries NoStrayTimeout

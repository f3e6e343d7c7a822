SPECIFICATION FairSpec
CONSTANTS
    Procs = {"u", "v"}
    Programs <- Uses
    Length <- Lengths
    Nrfl = 1
    RF_NAMLEN = 3
    RF_DATALEN = 2
    RF_RETRIES = 2
    Overtaking = FALSE
    MaxInTransit = 2
PROPERTIES AnswersTrue CallsReturn
CHECK_DEADLOCK FALSE

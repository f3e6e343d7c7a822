SPECIFICATION FairSpec
CONSTANTS
    Procs = {1, 2, 3}
    Keys = {"a", "b", "NEWLINE", "BACKSP", "EOFCH", "KILLCH", "STOPCH", "STRTCH"}
    Texts <- Messages
    ReadCounts = {0, 2}
    Setups <- Lines
    Prompt = TRUE
    MaxAvail = 3
PROPERTIES IsTerminal WritersReturn

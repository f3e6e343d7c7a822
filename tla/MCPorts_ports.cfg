SPECIFICATION FairSpec
CONSTANTS
    Procs = {p1, p2, p3}
    NPORTS = 1
    NSEM = 2
    PT_MSGS = 2
    Counts = {1, 2}
    Msgs = {1, 2}
    MaxSeq = 3
    MaxKills = 1
INVARIANTS PortInv
PROPERTIES IsChannel WaitersReturn

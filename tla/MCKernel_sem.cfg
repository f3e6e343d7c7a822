SPECIFICATION FairSpec
CONSTANTS
    NPROC = 4
    NSEM = 1
    QUANTUM = 2
    NSTK = 3
    Counts = {0, 1}
    SignalNs = {0, 2}
    MaxCount = 1
    Msgs = {}
    MaxWaits = {}
    Delays = {1}
    Prios = {1, 2}
    InitPrio = 1
    Programs <- SemPrograms
INVARIANTS TypeOK CurrInv DeferInv HighestPriorityRuns
PROPERTIES FirstComeFirstServed TopProcessRuns SleepersWake

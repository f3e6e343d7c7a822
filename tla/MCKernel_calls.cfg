SPECIFICATION Spec
CONSTANTS
    NPROC = 4
    NSEM = 1
    QUANTUM = 1
    NSTK = 3
    Counts = {0}
    SignalNs = {}
    MaxCount = 0
    Msgs = {7, 8}
    MaxWaits = {0, 2}
    Delays = {0, 1, 2}
    Prios = {1}
    InitPrio = 2
    Programs <- MsgAndKillPrograms
INVARIANTS QueueInv SemInv PrcountExact StackOwned ReadySorted MessageInv
PROPERTIES DelaysKept NeverEarly MessageKept
CONSTRAINT KillsApart

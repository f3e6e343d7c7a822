SPECIFICATION Spec
CONSTANTS
    Users = {"u1", "u2"}
    Hosts = {"a", "b"}
    Router = "a"
    UDP_SLOTS = 1
    UDP_QSIZ = 1
    ICMP_SLOTS = 2
    ICMP_QSIZ = 1
    IP_OQSIZ = 1
    ARP_SIZ = 1
    ARP_RETRY = 2
    Ports = {1}
    Remotes = {"b"}
    Dests = {"far"}
    Pings = {"a"}
    Frames <- Wire
    Calls <- Programs
INVARIANTS NetInv BuffersOwned RightMac
CHECK_DEADLOCK FALSE

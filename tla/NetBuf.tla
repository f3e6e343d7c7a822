------------------------------- MODULE NetBuf -------------------------------
(***************************************************************************)
(* What the parts of the network stack share: the pool of packet buffers   *)
(* (net/net.c, system/getbuf.c, freebuf.c), the one message a process can  *)
(* hold, and where each process is in the calls of the stack.              *)
(*                                                                         *)
(* The functions of the stack run with interrupts disabled, so that one    *)
(* process has the CPU until it blocks, in getbuf, in wait or in recvtime, *)
(* or returns: cpu names it, and the function it is in is call[p].at.      *)
(* Every function is an action; between two of them nobody else runs.      *)
(***************************************************************************)
EXTENDS SemOps, FiniteSets

CONSTANTS
    Users,          \* the processes that use the network
    Hosts,          \* the addresses of the others on the local network
    Router,         \* the default router, one of them, or "none"
    UDP_SLOTS, UDP_QSIZ, ICMP_SLOTS, ICMP_QSIZ

ASSUME NetBufAssumption ==
    /\ IsFiniteSet(Users)
    /\ Users \cap {"netin", "ipout", "any", "none"} = {}
    /\ {UDP_SLOTS, UDP_QSIZ, ICMP_SLOTS, ICMP_QSIZ} \subseteq Nat

Tasks == Users \cup {"netin", "ipout"}

\* The size of the pool that net_init creates.
NBUFS == UDP_SLOTS * UDP_QSIZ + ICMP_SLOTS * ICMP_QSIZ + 1

VARIABLES
    ipvalid,    \* NetData: the interface has its address
    free,       \* how many buffers are in the pool
    netsem,     \* the semaphore of the pool
    hasmsg,     \* the processes that hold a message (always OK)
    call,       \* what each process is doing
    cpu,        \* the process that runs with interrupts disabled, or "any"
    astray      \* how the stack has come to use a stale or overwritten packet

bufVars == <<free, netsem>>

NoPkt == [proto |-> "none", type |-> "none", src |-> "none", dst |-> "none",
          mac |-> "none", sport |-> 0, dport |-> 0, ident |-> 0, good |-> TRUE]

\* bufs is how many buffers the call holds: that of pkt, and while it answers an
\* echo request also that of the request.  stale is a ghost: what the call was
\* waiting for has been given to another use in the meantime.
Idle == [at |-> "start", next |-> "start", bufs |-> 0, pkt |-> NoPkt,
         hop |-> "none", mac |-> "none", slot |-> 0, i |-> 0, stale |-> FALSE]

Runs(p, at) ==
    /\ astray = "no"
    /\ call[p].at = at
    /\ IF cpu = "any" THEN ~Queued(netsem, p) ELSE cpu = p

\* Process p goes on in function at, keeping the CPU.
Goto(p, c, at) ==
    /\ call' = [call EXCEPT ![p] = [c EXCEPT !.at = at]]
    /\ cpu' = p

\* Process p blocks in at, and leaves the CPU.
Block(p, c, at) ==
    /\ call' = [call EXCEPT ![p] = [c EXCEPT !.at = at]]
    /\ cpu' = "any"

\* The call of p is over.
Return(p) ==
    /\ call' = [call EXCEPT ![p] = Idle]
    /\ cpu' = "any"

\* The calls, when slot s of the table that at waits for is given to another
\* use.
Robbed(at, s) ==
    [p \in Tasks |-> IF call[p].at = at /\ call[p].slot = s
                     THEN [call[p] EXCEPT !.stale = TRUE] ELSE call[p]]

\* send(pid, OK) to a process that may hold a message already.
send(p) == hasmsg' = hasmsg \cup {p}

\* Process p goes on at next with the buffer it has got from the pool.
Granted(p, c) ==
    /\ free' = free - 1
    /\ LET d == [c EXCEPT !.bufs = @ + 1, !.next = "start"] IN
       IF c.next = "read" THEN Block(p, d, "read") ELSE Goto(p, d, c.next)

\* getbuf: p is to go on at next with a buffer for packet pk.
getbuf(p, c, pk, next) ==
    LET d == [c EXCEPT !.pkt = pk, !.next = next] IN
    /\ netsem' = wait(netsem, p)
    /\ IF Queued(netsem', p) THEN Block(p, d, "getbuf") /\ UNCHANGED free
       ELSE Granted(p, d)

\* getbuf when wait returns.
getbufResumed(p) ==
    /\ Runs(p, "getbuf")
    /\ Granted(p, call[p])
    /\ UNCHANGED <<ipvalid, netsem, hasmsg, astray>>

\* freebuf of n buffers puts them on the list of the pool.
Freed(n) == free + n

\* freebuf of n buffers, and the signals that go with it.
freebuf(n) ==
    /\ free' = Freed(n)
    /\ netsem' = signaln(netsem, n)

\* The call of p is over and the packet is not needed any more.
Drop(p) == freebuf(call[p].bufs) /\ Return(p)

\* The result of recvtime, which takes the message if there is one.
Timeout(p) == p \notin hasmsg
Received(p) == hasmsg' = hasmsg \ {p}

BufInit ==
    /\ ipvalid \in BOOLEAN
    /\ free = NBUFS
    /\ netsem = semcreate(NBUFS)
    /\ hasmsg = {}
    /\ call = [p \in Tasks |-> Idle]
    /\ cpu = "any"
    /\ astray = "no"
=============================================================================

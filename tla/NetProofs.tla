----------------------------- MODULE NetProofs ------------------------------
(***************************************************************************)
(* The network stack, for any number of programs, slots, cache entries and *)
(* any frames in any order: no packet buffer is lost, the ARP cache, the   *)
(* UDP and ICMP slots and the output queue agree with the processes that   *)
(* wait at them, and frames carry the address of their next hop.           *)
(***************************************************************************)
EXTENDS Net, QueueProofs

\* How many buffers a call holds where it is.
BufsAt(c) ==
    IF c.at \in {"start", "ipout", "udp", "icmp"} THEN 0
    ELSE IF c.at = "ip_enqueue" THEN 2
    ELSE IF c.at = "getbuf" /\ c.next # "ip_enqueue" THEN 0
    ELSE 1

\* Where a process is that keeps the CPU.
Going == {"ip_send", "ip_out", "ip_enqueue", "ipout", "arp_resolve", "arp_in", "udp_in", "icmp_in"}

\* Where a process waits for a message.
Waiting == {"arp", "udp", "icmp"}

\* What a call holds is told by where it is, a packet under ARP carries the addresses of
\* its sender, and a frame the address of its next hop.
CallOK(c) ==
    /\ c.bufs = BufsAt(c)
    /\ c.at = "getbuf" => c.next # "start"
    /\ c.at = "arp_in" => c.pkt.mac = c.pkt.src
    /\ c.at = "arp" => c.slot \in Entries /\ c.hop \notin Broadcasts
    /\ c.at = "udp" => c.slot \in USlots
    /\ c.at = "icmp" => c.slot \in ISlots
    /\ c.at = "ip_out" /\ ~c.stale =>
          c.mac = IF c.hop \in Broadcasts THEN "bcast" ELSE c.hop
    /\ c.stale => c.at \in Waiting \cup {"ip_out"}

CallInv ==
    /\ \A p \in Tasks : CallOK(call[p])
    /\ cpu \in Tasks => call[cpu].at \in Going

\* The processes between wait and the rest of getbuf.
Getting == {p \in Tasks : call[p].at = "getbuf"}

\* The pool and its semaphore.
PoolInv ==
    /\ netsem \in SemType(Tasks) /\ SemSound(netsem) /\ netsem.used
    /\ netsem.count = free - Cardinality(Getting)
    /\ \A p \in Tasks : Has(netsem.queue, p) => p \in Getting

Accounts == free + Held + Stored = NBUFS

\* The IP output queue: ipout alone waits, and finds a packet.
OutInv ==
    /\ iqsem \in SemType(Tasks) /\ iqsem.used
    /\ iqsem.count = Len(iqueue) - IF call["ipout"].at = "ipout" THEN 1 ELSE 0
    /\ iqsem.queue = IF iqsem.count < 0 THEN << "ipout" >> ELSE << >>

\* Who waits for an address owns a pending entry, or has been told that the entry is
\* resolved; if the entry was taken from it since, it has been told.
ArpWaits ==
    \A p \in Tasks : call[p].at = "arp" =>
        LET e == arpcache[call[p].slot] IN
        IF call[p].stale THEN p \in hasmsg
        ELSE /\ e.arpaddr = call[p].hop
             /\ IF p \in hasmsg THEN e.arstate = "RESOLVED"
                ELSE e.arstate = "PENDING" /\ e.arpid = p

ArpNamed ==
    \A e \in Entries : arpcache[e].arstate = "PENDING" =>
        /\ arpcache[e].arpid \in Tasks \ hasmsg
        /\ LET c == call[arpcache[e].arpid] IN
           c.at = "arp" /\ c.slot = e /\ ~c.stale /\ c.hop = arpcache[e].arpaddr

ArpUnique ==
    \A d, e \in Entries :
        arpcache[d].arstate # "FREE" /\ arpcache[e].arstate # "FREE"
           /\ arpcache[d].arpaddr = arpcache[e].arpaddr => d = e

ArpTrue ==
    \A e \in Entries : arpcache[e].arstate = "RESOLVED" =>
        arpcache[e].arhaddr = arpcache[e].arpaddr

CacheInv == ArpWaits /\ ArpNamed /\ ArpUnique /\ ArpTrue

\* Who waits at a UDP slot has not missed a packet, and a slot that is to wake
\* somebody names a process that waits there.
UdpWaits ==
    \A p \in Tasks : call[p].at = "udp" /\ ~call[p].stale =>
        LET e == udptab[call[p].slot] IN
        IF p \in hasmsg THEN e.udstate = "USED" /\ e.queue # << >>
        ELSE e.udstate = "RECV" /\ e.udpid = p /\ e.queue = << >>

UdpNamed ==
    \A s \in USlots : udptab[s].udstate = "RECV" =>
        /\ udptab[s].udpid \in Tasks \ hasmsg
        /\ LET c == call[udptab[s].udpid] IN c.at = "udp" /\ c.slot = s /\ ~c.stale

UdpFits ==
    \A s \in USlots :
        /\ udptab[s].udstate = "FREE" => udptab[s].queue = << >>
        /\ Len(udptab[s].queue) <= UDP_QSIZ
        /\ \A k \in 1..Len(udptab[s].queue) :
              /\ udptab[s].queue[k].dport = udptab[s].locport
              /\ udptab[s].remip \in {"any", udptab[s].queue[k].src}

IcmpWaits ==
    \A p \in Tasks : call[p].at = "icmp" /\ ~call[p].stale =>
        LET e == icmptab[call[p].slot] IN
        IF p \in hasmsg THEN e.icstate = "USED" /\ e.queue # << >>
        ELSE e.icstate = "RECV" /\ e.icpid = p /\ e.queue = << >>

IcmpNamed ==
    \A s \in ISlots : icmptab[s].icstate = "RECV" =>
        /\ icmptab[s].icpid \in Tasks \ hasmsg
        /\ LET c == call[icmptab[s].icpid] IN c.at = "icmp" /\ c.slot = s /\ ~c.stale

IcmpFits ==
    \A s \in ISlots :
        /\ icmptab[s].icstate = "FREE" => icmptab[s].queue = << >>
        /\ \A k \in 1..Len(icmptab[s].queue) :
              icmptab[s].queue[k].src = icmptab[s].icremip

EndpointInv ==
    /\ astray = "no" => UdpWaits /\ UdpNamed /\ IcmpWaits /\ IcmpNamed
    /\ UdpFits /\ IcmpFits

NInv ==
    /\ TypeOK /\ CallInv /\ PoolInv /\ Accounts /\ OutInv /\ CacheInv /\ EndpointInv

----------------------------------------------------------------------------
\* Constants and types.

\* The semaphores of SemOps are those the lemmas of QueueProofs are about.
LEMMA SameSem ==
  /\ \A x, p : wait(x, p) = Sem!wait(x, p) /\ Unwait(x, p) = Sem!Unwait(x, p)
  /\ \A x, p : Queued(x, p) <=> Sem!Queued(x, p)
  /\ \A x : signal(x) = Sem!signal(x)
  /\ \A x, n : signaln(x, n) = Sem!signaln(x, n) /\ semreset(x, n) = Sem!semreset(x, n)
  /\ \A n : semcreate(n) = Sem!semcreate(n)
  /\ NoSem = Sem!NoSem
<1>1. \A x, p : wait(x, p) = Sem!wait(x, p)
  BY DEF wait, Sem!wait
<1>2. \A x, p : Unwait(x, p) = Sem!Unwait(x, p)
  BY DEF Unwait, Sem!Unwait, RemoveAt, Sem!RemoveAt
<1>3. \A x, p : Queued(x, p) <=> Sem!Queued(x, p)
  BY DEF Queued, Sem!Queued, Range, Sem!Range
<1>4. \A x, n : signaln(x, n) = Sem!signaln(x, n)
  BY DEF signaln, Sem!signaln, Min, Sem!Min
<1>5. \A x : signal(x) = Sem!signal(x)
  BY <1>4 DEF signal, Sem!signal
<1>6. \A x, n : semreset(x, n) = Sem!semreset(x, n)
  BY DEF semreset, Sem!semreset
<1>7. (\A n : semcreate(n) = Sem!semcreate(n)) /\ NoSem = Sem!NoSem
  BY DEF semcreate, Sem!semcreate, NoSem, Sem!NoSem
<1> QED
  BY <1>1, <1>2, <1>3, <1>4, <1>5, <1>6, <1>7

\* What the assumptions on the constants give.
LEMMA Constants ==
  /\ IsFiniteSet(Tasks) /\ IsFiniteSet(USlots) /\ IsFiniteSet(ISlots)
  /\ USlots \subseteq Nat /\ ISlots \subseteq Nat /\ Entries \subseteq Nat
  /\ "any" \notin Tasks /\ "none" \notin Tasks /\ "netin" \in Tasks /\ "ipout" \in Tasks
  /\ UDP_SLOTS \in Nat /\ UDP_QSIZ \in Nat /\ ICMP_SLOTS \in Nat /\ ICMP_QSIZ \in Nat
  /\ IP_OQSIZ \in Nat /\ ARP_RETRY \in Nat \ {0}
<1>1. /\ IsFiniteSet(Users) /\ Users \cap {"netin", "ipout", "any", "none"} = {}
      /\ UDP_SLOTS \in Nat /\ UDP_QSIZ \in Nat /\ ICMP_SLOTS \in Nat /\ ICMP_QSIZ \in Nat
  BY NetBufAssumption
<1>2. IsFiniteSet(Users \cup {"netin"})
  BY <1>1, FS_AddElement
<1>3. IsFiniteSet((Users \cup {"netin"}) \cup {"ipout"})
  BY <1>2, FS_AddElement
<1>4. Tasks = (Users \cup {"netin"}) \cup {"ipout"}
  BY DEF Tasks
<1>5. IsFiniteSet(USlots) /\ IsFiniteSet(ISlots)
  BY <1>1, FS_Interval DEF USlots, ISlots
<1>6. USlots \subseteq Nat /\ ISlots \subseteq Nat /\ Entries \subseteq Nat
  BY <1>1, ArpAssumption DEF USlots, ISlots, Entries
<1>7. "any" \notin Tasks /\ "none" \notin Tasks /\ "netin" \in Tasks /\ "ipout" \in Tasks
  BY <1>1 DEF Tasks
<1> QED
  BY <1>1, <1>3, <1>4, <1>5, <1>6, <1>7, ArpAssumption, IcmpAssumption

\* The size of the pool is a number.
LEMMA NbufsNat == NBUFS \in Nat
<1>1. ASSUME NEW a \in Nat, NEW b \in Nat PROVE a * b \in Nat
  BY <1>1
<1>2. UDP_SLOTS * UDP_QSIZ \in Nat /\ ICMP_SLOTS * ICMP_QSIZ \in Nat
  BY <1>1, Constants
<1> QED
  BY <1>2 DEF NBUFS

\* The first of a set of slots is one of them.
LEMMA FirstIn ==
  ASSUME NEW T, T \subseteq Nat, T # {}
  PROVE  First(T) \in T /\ Least(T) \in T /\ First(T) = Least(T)
<1>1. \E x \in T : \A y \in T : x <= y
  BY LeastNat
<1> QED
  BY <1>1 DEF First, Least

\* The fields of a packet.
LEMMA PacketTyped ==
  /\ NoPkt \in Packets
  /\ \A f : f \in Packets =>
        /\ f.proto \in {"none", "ARP", "IP", "UDP", "ICMP", "IPv6"}
        /\ f.type \in {"none", "REQ", "RPLY", "REPLY"}
        /\ f.src \in Addresses /\ f.dst \in Addresses /\ f.mac \in Addresses
        /\ f.sport \in Nat /\ f.dport \in Nat /\ f.ident \in Nat
<1>1. "none" \in Addresses
  BY DEF Addresses
<1> QED
  BY <1>1 DEF NoPkt, Packets

\* The call of a process that makes none.
LEMMA IdleTyped ==
  /\ Idle \in CallType /\ CallOK(Idle)
  /\ Idle.at = "start" /\ Idle.next = "start" /\ Idle.bufs = 0 /\ ~Idle.stale /\ Idle.i = 0
  /\ Idle.slot = 0 /\ Idle.hop = "none" /\ Idle.mac = "none" /\ Idle.pkt = NoPkt
<1>1. "none" \in Addresses
  BY DEF Addresses
<1>2. 0 \in 0..(ARP_RETRY - 1)
  BY Constants
<1>3. Idle \in CallType
  BY <1>1, <1>2, PacketTyped DEF Idle, CallType, Places
<1> QED
  BY <1>3 DEF Idle, CallOK, BufsAt

\* The fields of a call.
LEMMA CallFields ==
  ASSUME NEW c \in CallType
  PROVE  /\ c.at \in Places /\ c.next \in {"start", "read", "ip_send", "ip_enqueue"}
         /\ c.bufs \in 0..2 /\ c.pkt \in Packets /\ c.hop \in Addresses /\ c.mac \in Addresses
         /\ c.slot \in Nat /\ c.i \in 0..(ARP_RETRY - 1) /\ c.stale \in BOOLEAN
BY DEF CallType

\* What is left of a call when some of its fields are assigned.
LEMMA AtSet ==
  ASSUME NEW c \in CallType, NEW at \in Places
  PROVE  LET d == [c EXCEPT !.at = at] IN
         /\ d \in CallType /\ d.at = at /\ d.next = c.next /\ d.bufs = c.bufs
         /\ d.pkt = c.pkt /\ d.hop = c.hop /\ d.mac = c.mac /\ d.slot = c.slot /\ d.i = c.i
         /\ d.stale = c.stale
BY DEF CallType

\* What the call waits for is gone.
LEMMA StaleSet ==
  ASSUME NEW c \in CallType
  PROVE  LET d == [c EXCEPT !.stale = TRUE] IN
         /\ d \in CallType /\ d.at = c.at /\ d.next = c.next /\ d.bufs = c.bufs
         /\ d.pkt = c.pkt /\ d.hop = c.hop /\ d.mac = c.mac /\ d.slot = c.slot /\ d.i = c.i
         /\ d.stale
BY DEF CallType

\* The next hop is known.
LEMMA HopSet ==
  ASSUME NEW c \in CallType, NEW hop \in Addresses
  PROVE  LET d == [c EXCEPT !.hop = hop] IN
         /\ d \in CallType /\ d.at = c.at /\ d.next = c.next /\ d.bufs = c.bufs
         /\ d.pkt = c.pkt /\ d.hop = hop /\ d.mac = c.mac /\ d.slot = c.slot /\ d.i = c.i
         /\ d.stale = c.stale
BY DEF CallType

\* The hardware address is known.
LEMMA MacSet ==
  ASSUME NEW c \in CallType, NEW mac \in Addresses
  PROVE  LET d == [c EXCEPT !.mac = mac] IN
         /\ d \in CallType /\ d.at = c.at /\ d.next = c.next /\ d.bufs = c.bufs
         /\ d.pkt = c.pkt /\ d.hop = c.hop /\ d.mac = mac /\ d.slot = c.slot /\ d.i = c.i
         /\ d.stale = c.stale
BY DEF CallType

\* Both are known at once, of a broadcast.
LEMMA HopMacSet ==
  ASSUME NEW c \in CallType, NEW hop \in Addresses, NEW mac \in Addresses
  PROVE  LET d == [c EXCEPT !.hop = hop, !.mac = mac] IN
         /\ d \in CallType /\ d.at = c.at /\ d.next = c.next /\ d.bufs = c.bufs
         /\ d.pkt = c.pkt /\ d.hop = hop /\ d.mac = mac /\ d.slot = c.slot /\ d.i = c.i
         /\ d.stale = c.stale
BY DEF CallType

\* The slot at which the call is to wait.
LEMMA SlotSet ==
  ASSUME NEW c \in CallType, NEW s \in Nat
  PROVE  LET d == [c EXCEPT !.slot = s] IN
         /\ d \in CallType /\ d.at = c.at /\ d.next = c.next /\ d.bufs = c.bufs
         /\ d.pkt = c.pkt /\ d.hop = c.hop /\ d.mac = c.mac /\ d.slot = s /\ d.i = c.i
         /\ d.stale = c.stale
BY DEF CallType

\* One try of arp_resolve more.
LEMMA TriedSet ==
  ASSUME NEW c \in CallType, c.i + 1 < ARP_RETRY
  PROVE  LET d == [c EXCEPT !.i = @ + 1] IN
         /\ d \in CallType /\ d.at = c.at /\ d.next = c.next /\ d.bufs = c.bufs
         /\ d.pkt = c.pkt /\ d.hop = c.hop /\ d.mac = c.mac /\ d.slot = c.slot
         /\ d.stale = c.stale
<1> DEFINE n == c.i + 1
<1>1. n \in 0..(ARP_RETRY - 1)
  BY CallFields, Constants
<1> HIDE DEF n
<1>2. [c EXCEPT !.i = n] \in CallType
  BY <1>1 DEF CallType
<1> QED
  BY <1>2 DEF CallType, n

\* The packet in the buffer.
LEMMA PktSet ==
  ASSUME NEW c \in CallType, NEW f \in Packets
  PROVE  LET d == [c EXCEPT !.pkt = f] IN
         /\ d \in CallType /\ d.at = c.at /\ d.next = c.next /\ d.bufs = c.bufs
         /\ d.pkt = f /\ d.hop = c.hop /\ d.mac = c.mac /\ d.slot = c.slot /\ d.i = c.i
         /\ d.stale = c.stale
BY DEF CallType

\* The packet, and where the call goes on with a buffer.
LEMMA NextSet ==
  ASSUME NEW c \in CallType, NEW f \in Packets,
         NEW n \in {"start", "read", "ip_send", "ip_enqueue"}
  PROVE  LET d == [c EXCEPT !.pkt = f, !.next = n] IN
         /\ d \in CallType /\ d.at = c.at /\ d.next = n /\ d.bufs = c.bufs
         /\ d.pkt = f /\ d.hop = c.hop /\ d.mac = c.mac /\ d.slot = c.slot /\ d.i = c.i
         /\ d.stale = c.stale
BY DEF CallType

\* The buffer has come.
LEMMA GotSet ==
  ASSUME NEW c \in CallType, c.bufs < 2
  PROVE  LET d == [c EXCEPT !.bufs = @ + 1, !.next = "start"] IN
         /\ d \in CallType /\ d.at = c.at /\ d.next = "start" /\ d.bufs = c.bufs + 1
         /\ d.pkt = c.pkt /\ d.hop = c.hop /\ d.mac = c.mac /\ d.slot = c.slot /\ d.i = c.i
         /\ d.stale = c.stale
<1> DEFINE n == c.bufs + 1
<1>1. n \in 0..2
  BY CallFields
<1> HIDE DEF n
<1>2. [c EXCEPT !.bufs = n, !.next = "start"] \in CallType
  BY <1>1 DEF CallType
<1> QED
  BY <1>1, <1>2 DEF CallType, n

\* The call of ipout with a packet from the output queue.
LEMMA FilledSet ==
  ASSUME NEW f \in Packets
  PROVE  LET d == [Idle EXCEPT !.bufs = 1, !.pkt = f] IN
         /\ d \in CallType /\ d.at = "start" /\ d.next = "start" /\ d.bufs = 1
         /\ d.pkt = f /\ d.hop = "none" /\ d.mac = "none" /\ d.slot = 0 /\ d.i = 0
         /\ ~d.stale
<1> DEFINE b == [Idle EXCEPT !.bufs = 1]
<1>1. /\ b \in CallType /\ b.at = "start" /\ b.next = "start" /\ b.bufs = 1
      /\ b.pkt = NoPkt /\ b.hop = "none" /\ b.mac = "none" /\ b.slot = 0 /\ b.i = 0
      /\ ~b.stale
  <2>1. Idle \in CallType
    BY IdleTyped
  <2> QED
    BY <2>1, IdleTyped DEF CallType
<1> HIDE DEF b
<1>2. [b EXCEPT !.pkt = f] = [Idle EXCEPT !.bufs = 1, !.pkt = f]
  BY DEF b
<1>3. LET d == [b EXCEPT !.pkt = f] IN
      /\ d \in CallType /\ d.at = b.at /\ d.next = b.next /\ d.bufs = b.bufs
      /\ d.pkt = f /\ d.hop = b.hop /\ d.mac = b.mac /\ d.slot = b.slot /\ d.i = b.i
      /\ d.stale = b.stale
  BY <1>1, PktSet
<1> QED
  BY <1>1, <1>2, <1>3

----------------------------------------------------------------------------
\* How a step changes the calls.

\* Process p goes on as c, and others at most lose what they wait for.
Moves(p, c) ==
    /\ call' = [q \in Tasks |-> call'[q]]
    /\ call'[p] = c
    /\ \A q \in Tasks \ {p} :
          \/ call'[q] = call[q]
          \/ call[q].at \in Waiting /\ call'[q] = [call[q] EXCEPT !.stale = TRUE]

\* Nobody loses anything.
MovesAlone(p, c) == call' = [call EXCEPT ![p] = c]

\* Who waits at slot s of a table loses it.
Robs(p, at, s) ==
    \A q \in Tasks \ {p} :
        call'[q] = IF call[q].at = at /\ call[q].slot = s
                   THEN [call[q] EXCEPT !.stale = TRUE] ELSE call[q]

\* A step of one process that takes nothing from others.
LEMMA AloneMoves ==
  ASSUME NEW p \in Tasks, NEW c, call \in [Tasks -> CallType], MovesAlone(p, c)
  PROVE  Moves(p, c) /\ \A q \in Tasks \ {p} : call'[q] = call[q]
BY DEF Moves, MovesAlone

\* A step of one process that gives a slot to another use.
LEMMA RobbedMoves ==
  ASSUME NEW p \in Tasks, NEW c, NEW at \in Waiting, NEW s, call \in [Tasks -> CallType],
         call' = [Robbed(at, s) EXCEPT ![p] = c]
  PROVE  Moves(p, c) /\ Robs(p, at, s)
<1> DEFINE r == Robbed(at, s)
<1>1. r = [q \in Tasks |-> IF call[q].at = at /\ call[q].slot = s
                           THEN [call[q] EXCEPT !.stale = TRUE] ELSE call[q]]
  BY DEF Robbed
<1>2. call' = [r EXCEPT ![p] = c]
  OBVIOUS
<1> HIDE DEF r
<1>3. call' = [q \in Tasks |-> call'[q]] /\ call'[p] = c
  BY <1>1, <1>2
<1>4. \A q \in Tasks \ {p} :
         call'[q] = IF call[q].at = at /\ call[q].slot = s
                    THEN [call[q] EXCEPT !.stale = TRUE] ELSE call[q]
  BY <1>1, <1>2
<1> QED
  BY <1>3, <1>4 DEF Moves, Robs

\* The others stay where they are.
LEMMA MovesTyped ==
  ASSUME NEW p \in Tasks, NEW c \in CallType, call \in [Tasks -> CallType], Moves(p, c)
  PROVE  /\ call' \in [Tasks -> CallType]
         /\ \A q \in Tasks \ {p} :
               /\ call'[q].at = call[q].at /\ call'[q].next = call[q].next
               /\ call'[q].bufs = call[q].bufs /\ call'[q].slot = call[q].slot
               /\ call'[q].hop = call[q].hop /\ call'[q].pkt = call[q].pkt
               /\ call'[q].mac = call[q].mac
               /\ call[q].stale => call'[q].stale
               /\ call'[q].stale => call[q].stale \/ call[q].at \in Waiting
<1>1. ASSUME NEW q \in Tasks \ {p}
      PROVE  /\ call'[q] \in CallType
             /\ call'[q].at = call[q].at /\ call'[q].next = call[q].next
             /\ call'[q].bufs = call[q].bufs /\ call'[q].slot = call[q].slot
             /\ call'[q].hop = call[q].hop /\ call'[q].pkt = call[q].pkt
             /\ call'[q].mac = call[q].mac
             /\ call[q].stale => call'[q].stale
             /\ call'[q].stale => call[q].stale \/ call[q].at \in Waiting
  <2>1. call[q] \in CallType
    OBVIOUS
  <2> DEFINE d == [call[q] EXCEPT !.stale = TRUE]
  <2>2. /\ d \in CallType /\ d.at = call[q].at /\ d.next = call[q].next
        /\ d.bufs = call[q].bufs /\ d.pkt = call[q].pkt /\ d.hop = call[q].hop
        /\ d.mac = call[q].mac /\ d.slot = call[q].slot /\ d.stale
    BY <2>1, StaleSet
  <2>3. call'[q] = call[q] \/ (call[q].at \in Waiting /\ call'[q] = d)
    BY DEF Moves
  <2> QED
    BY <2>1, <2>2, <2>3
<1>2. \A q \in Tasks : call'[q] \in CallType
  BY <1>1 DEF Moves
<1> QED
  BY <1>1, <1>2 DEF Moves

\* The places of the calls, and who has the CPU.
LEMMA MovesCall ==
  ASSUME NEW p \in Tasks, NEW c \in CallType, call \in [Tasks -> CallType], CallInv,
         Moves(p, c), CallOK(c), ipvalid' = ipvalid,
         cpu' = "any" \/ (cpu' = p /\ c.at \in Going)
  PROVE  CallInv' /\ cpu' \in Tasks \cup {"any"}
<1>1. ASSUME NEW q \in Tasks PROVE CallOK(call[q])'
  <2>1. CASE q = p
    BY <2>1 DEF Moves, CallOK, BufsAt, Broadcasts
  <2>2. CASE q # p
    <3>1. CallOK(call[q])
      BY DEF CallInv
    <3>2. /\ call'[q].at = call[q].at /\ call'[q].next = call[q].next
          /\ call'[q].bufs = call[q].bufs /\ call'[q].slot = call[q].slot
          /\ call'[q].hop = call[q].hop /\ call'[q].pkt = call[q].pkt
          /\ call'[q].mac = call[q].mac
          /\ call[q].stale => call'[q].stale
          /\ call'[q].stale => call[q].stale \/ call[q].at \in Waiting
      BY <2>2, MovesTyped
    <3> QED
      BY <3>1, <3>2 DEF CallOK, BufsAt, Broadcasts
  <2> QED
    BY <2>1, <2>2
<1>2. cpu' \in Tasks => call'[cpu'].at \in Going
  BY Constants DEF Moves
<1> QED
  BY <1>1, <1>2 DEF CallInv

\* The buffers that processes hold.
LEMMA MovesHeld ==
  ASSUME NEW p \in Tasks, NEW c \in CallType, call \in [Tasks -> CallType], Moves(p, c)
  PROVE  Held \in Nat /\ Held' \in Nat /\ Held' = Held - call[p].bufs + c.bufs
<1> DEFINE f == [q \in Tasks |-> call[q].bufs]
           g == [q \in Tasks |-> call'[q].bufs]
<1>1. call' \in [Tasks -> CallType] /\ \A q \in Tasks \ {p} : call'[q].bufs = call[q].bufs
  BY MovesTyped
<1>2. \A q \in Tasks : call[q].bufs \in 0..2 /\ call'[q].bufs \in 0..2
  BY <1>1, CallFields
<1>3. f \in [Tasks -> Int] /\ g \in [Tasks -> Int]
  BY <1>2
<1>4. \A q \in Tasks \ {p} : g[q] = f[q]
  BY <1>1
<1>5. \A q \in Tasks : f[q] >= 0 /\ g[q] >= 0
  BY <1>2
<1>6. f[p] = call[p].bufs /\ g[p] = c.bufs
  BY DEF Moves
<1>7. Held = SumFunction(f) /\ Held' = SumFunction(g)
  BY DEF Held
<1> HIDE DEF f, g
<1>8. SumFunction(f) \in Int /\ SumFunction(f) >= 0
  BY <1>3, <1>5, SumType, Constants
<1>9. SumFunction(g) \in Int /\ SumFunction(g) >= 0
  BY <1>3, <1>5, SumType, Constants
<1>10. SumFunction(g) = SumFunction(f) - f[p] + g[p]
  BY <1>3, <1>4, SumChange, Constants
<1> QED
  BY <1>6, <1>7, <1>8, <1>9, <1>10

\* The processes that wait for a buffer.
LEMMA MovesGetting ==
  ASSUME NEW p \in Tasks, NEW c \in CallType, call \in [Tasks -> CallType], Moves(p, c)
  PROVE  Getting' = IF c.at = "getbuf" THEN Getting \cup {p} ELSE Getting \ {p}
<1>1. \A q \in Tasks \ {p} : call'[q].at = call[q].at
  BY MovesTyped
<1>2. call'[p] = c
  BY DEF Moves
<1> QED
  BY <1>1, <1>2 DEF Getting

----------------------------------------------------------------------------
\* The pool.

\* The processes in getbuf can be counted.
LEMMA GettingFinite ==
  IsFiniteSet(Getting) /\ Cardinality(Getting) \in Nat
BY Constants, FS_Subset, FS_CardinalityType DEF Getting

\* A step that does not touch the pool.
LEMMA PoolKept ==
  ASSUME PoolInv, UNCHANGED bufVars, Getting' = Getting
  PROVE  PoolInv' /\ free' = free
BY DEF PoolInv, bufVars

\* n buffers come back.
LEMMA PoolFreed ==
  ASSUME PoolInv, free \in Int, NEW n \in Nat, freebuf(n), Getting' = Getting
  PROVE  PoolInv' /\ free' = free + n
<1> DEFINE y == signaln(netsem, n)
<1>1. netsem' = y /\ free' = free + n
  BY DEF freebuf, Freed
<1>2. /\ y \in SemType(Tasks) /\ SemSound(y) /\ y.used = netsem.used
      /\ y.count = netsem.count + n
      /\ \A q : Has(y.queue, q) => Has(netsem.queue, q)
  BY SignalnSem, SameSem, ZenonT(60) DEF PoolInv
<1>3. Cardinality(Getting) \in Nat
  BY GettingFinite
<1> HIDE DEF y
<1>4. netsem'.count = free' - Cardinality(Getting')
  BY <1>1, <1>2, <1>3 DEF PoolInv
<1>5. \A p \in Tasks : Has(netsem'.queue, p) => p \in Getting'
  BY <1>1, <1>2 DEF PoolInv
<1> QED
  BY <1>1, <1>2, <1>4, <1>5 DEF PoolInv

\* A process that waits for a buffer and is not queued has one in the pool.
LEMMA PoolGives ==
  ASSUME PoolInv, free \in Int, NEW p \in Getting, ~Queued(netsem, p)
  PROVE  free >= 1
<1>1. /\ IsFiniteSet(Getting \ {p}) /\ Cardinality(Getting \ {p}) = Cardinality(Getting) - 1
      /\ Cardinality(Getting) \in Nat
  BY GettingFinite, FS_RemoveElement
<1>2. Getting \subseteq Tasks
  BY DEF Getting
<1>3. Len(netsem.queue) <= Cardinality(Getting \ {p})
  <2>1. netsem.queue \in Seq(Tasks) /\ Distinct(netsem.queue)
    BY DEF PoolInv, SemType, SemSound
  <2>2. ~Has(netsem.queue, p)
    BY QueuedHas, SameSem DEF PoolInv
  <2>3. \A q \in Tasks : Has(netsem.queue, q) => q \in Getting \ {p}
    BY <2>2 DEF PoolInv
  <2> QED
    BY <1>1, <2>1, <2>3, ListInSet
<1>4. /\ netsem.count \in Int /\ Len(netsem.queue) \in Nat
      /\ Len(netsem.queue) = IF netsem.count < 0 THEN -netsem.count ELSE 0
  BY DEF PoolInv, SemType, SemSound
<1>5. netsem.count = free - Cardinality(Getting)
  BY DEF PoolInv
<1> QED
  BY <1>1, <1>3, <1>4, <1>5

\* What getbuf does with the CPU and the call when there is a buffer.
Gets(p, d, e) ==
    /\ e.at = d.next /\ e.bufs = d.bufs + 1 /\ e.next = "start"
    /\ cpu' = IF d.next = "read" THEN "any" ELSE p

\* Process p has a buffer and goes on.
LEMMA GrantedMoves ==
  ASSUME NEW p \in Tasks, NEW d \in CallType, d.bufs < 2, d.next # "start",
         call \in [Tasks -> CallType], Granted(p, d)
  PROVE  \E e \in CallType :
            /\ MovesAlone(p, e) /\ Gets(p, d, e) /\ free' = free - 1
            /\ e.pkt = d.pkt /\ e.hop = d.hop /\ e.mac = d.mac /\ e.stale = d.stale
<1> DEFINE b == [d EXCEPT !.bufs = @ + 1, !.next = "start"]
           e == [b EXCEPT !.at = d.next]
<1>1. d.next \in {"read", "ip_send", "ip_enqueue"} /\ d.next \in Places
  BY CallFields DEF Places
<1>2. /\ b \in CallType /\ b.next = "start" /\ b.bufs = d.bufs + 1
      /\ b.pkt = d.pkt /\ b.hop = d.hop /\ b.mac = d.mac /\ b.stale = d.stale
  BY GotSet
<1> HIDE DEF b
<1>3. /\ e \in CallType /\ e.at = d.next /\ e.next = "start" /\ e.bufs = d.bufs + 1
      /\ e.pkt = d.pkt /\ e.hop = d.hop /\ e.mac = d.mac /\ e.stale = d.stale
  BY <1>1, <1>2, AtSet
<1>4. /\ free' = free - 1
      /\ IF d.next = "read" THEN Block(p, b, "read") ELSE Goto(p, b, d.next)
  BY DEF Granted, b
<1>5. call' = [call EXCEPT ![p] = e] /\ cpu' = IF d.next = "read" THEN "any" ELSE p
  BY <1>4 DEF Block, Goto
<1> HIDE DEF e
<1> QED
  BY <1>3, <1>4, <1>5 DEF MovesAlone, Gets

\* getbuf gives a buffer or blocks; either way the pool stays sound.
LEMMA GetbufMoves ==
  ASSUME NEW p \in Tasks, NEW c \in CallType, NEW pk \in Packets,
         NEW next \in {"read", "ip_send", "ip_enqueue"}, c.bufs < 2,
         call \in [Tasks -> CallType], getbuf(p, c, pk, next),
         PoolInv, free \in Int, p \notin Getting
  PROVE  \E e \in CallType :
            /\ MovesAlone(p, e) /\ PoolInv'
            /\ e.pkt = pk /\ e.hop = c.hop /\ e.mac = c.mac /\ e.stale = c.stale
            /\ \/ /\ e.at = "getbuf" /\ e.next = next /\ e.bufs = c.bufs
                  /\ free' = free /\ cpu' = "any"
               \/ /\ e.at = next /\ e.next = "start" /\ e.bufs = c.bufs + 1
                  /\ free' = free - 1 /\ free >= 1
                  /\ cpu' = IF next = "read" THEN "any" ELSE p
<1> DEFINE d == [c EXCEPT !.pkt = pk, !.next = next]
<1>1. /\ d \in CallType /\ d.next = next /\ d.bufs = c.bufs
      /\ d.pkt = pk /\ d.hop = c.hop /\ d.mac = c.mac /\ d.stale = c.stale
  BY DEF CallType
<1> DEFINE y == wait(netsem, p)
<1>2. ~Has(netsem.queue, p)
  BY DEF PoolInv
<1>3. /\ y \in SemType(Tasks) /\ SemSound(y) /\ y.used = netsem.used
      /\ y.count = netsem.count - 1
      /\ \A q : Has(y.queue, q) <=> Has(netsem.queue, q) \/ (q = p /\ netsem.count <= 0)
  BY <1>2, WaitSem, SameSem DEF PoolInv
<1>4. /\ netsem' = y
      /\ IF Queued(netsem', p) THEN Block(p, d, "getbuf") /\ UNCHANGED free
         ELSE Granted(p, d)
  BY DEF getbuf
<1> HIDE DEF d, y
<1>5. Queued(netsem', p) <=> netsem.count <= 0
  BY <1>2, <1>3, <1>4, QueuedHas, SameSem
<1>6. /\ netsem.count = free - Cardinality(Getting) /\ netsem.count \in Int
      /\ Cardinality(Getting) \in Nat /\ netsem.used
      /\ \A q \in Tasks : Has(netsem.queue, q) => q \in Getting
  BY GettingFinite DEF PoolInv, SemType
<1>7. CASE netsem.count <= 0
  <2> DEFINE e == [d EXCEPT !.at = "getbuf"]
  <2>1. "getbuf" \in Places
    BY DEF Places
  <2>2. /\ e \in CallType /\ e.at = "getbuf" /\ e.next = d.next /\ e.bufs = d.bufs
        /\ e.pkt = d.pkt /\ e.hop = d.hop /\ e.mac = d.mac /\ e.stale = d.stale
    BY <1>1, <2>1, AtSet
  <2>3. call' = [call EXCEPT ![p] = e] /\ cpu' = "any" /\ free' = free
    BY <1>4, <1>5, <1>7 DEF Block
  <2> HIDE DEF e
  <2>4. MovesAlone(p, e)
    BY <2>3 DEF MovesAlone
  <2>5. Getting' = Getting \cup {p}
    BY <2>2, <2>4, AloneMoves, MovesGetting
  <2>6. Cardinality(Getting') = Cardinality(Getting) + 1
    BY <2>5, GettingFinite, FS_AddElement
  <2>7. netsem'.count = free' - Cardinality(Getting')
    BY <1>3, <1>4, <1>6, <2>3, <2>6
  <2>8. PoolInv'
    BY <1>3, <1>4, <1>6, <2>5, <2>7 DEF PoolInv
  <2> QED
    BY <1>1, <2>2, <2>3, <2>4, <2>8
<1>8. CASE netsem.count > 0
  <2>1. Granted(p, d)
    BY <1>4, <1>5, <1>6, <1>8
  <2>2. PICK e \in CallType :
            /\ MovesAlone(p, e) /\ Gets(p, d, e) /\ free' = free - 1
            /\ e.pkt = d.pkt /\ e.hop = d.hop /\ e.mac = d.mac /\ e.stale = d.stale
    BY <1>1, <2>1, GrantedMoves
  <2>3. e.at # "getbuf"
    BY <1>1, <2>2 DEF Gets
  <2>4. Getting' = Getting
    <3>1. Moves(p, e)
      BY <2>2, AloneMoves
    <3>2. Getting' = Getting \ {p}
      BY <2>3, <3>1, MovesGetting
    <3> QED
      BY <3>2
  <2>5. netsem'.count = free' - Cardinality(Getting')
    BY <1>3, <1>4, <1>6, <2>2, <2>4
  <2>6. \A q \in Tasks : Has(netsem'.queue, q) => q \in Getting'
    BY <1>3, <1>4, <1>6, <1>8, <2>4
  <2>7. PoolInv'
    BY <1>3, <1>4, <1>6, <2>5, <2>6 DEF PoolInv
  <2>8. free >= 1
    BY <1>6, <1>8
  <2> QED
    BY <1>1, <2>2, <2>7, <2>8 DEF Gets
<1> QED
  BY <1>6, <1>7, <1>8

----------------------------------------------------------------------------
\* What a step leaves alone.

\* The cache, in a step of a process that neither comes to wait for an address nor
\* has waited for one.
LEMMA CacheFrame ==
  ASSUME NEW p \in Tasks, NEW c \in CallType, call \in [Tasks -> CallType], Moves(p, c),
         CacheInv, call[p].at # "arp", c.at # "arp", arpcache' = arpcache,
         \A q \in Tasks \ {p} : call[q].at = "arp" => call'[q] = call[q],
         \A q \in Tasks : call[q].at = "arp" => (q \in hasmsg' <=> q \in hasmsg)
  PROVE  CacheInv'
<1>1. \A q \in Tasks : call'[q].at = "arp" => call'[q] = call[q] /\ call[q].at = "arp"
  <2>1. \A q \in Tasks \ {p} : call'[q].at = call[q].at
    BY MovesTyped
  <2> QED
    BY <2>1 DEF Moves
<1>2. ArpWaits'
  BY <1>1 DEF CacheInv, ArpWaits
<1>3. ArpNamed'
  <2>1. ASSUME NEW e \in Entries, arpcache[e].arstate = "PENDING"
        PROVE  LET q == arpcache[e].arpid IN
               q \in Tasks \ hasmsg /\ q # p /\ call[q].at = "arp"
               /\ call[q].slot = e /\ ~call[q].stale /\ call[q].hop = arpcache[e].arpaddr
    BY <2>1 DEF CacheInv, ArpNamed
  <2>2. ASSUME NEW e \in Entries, arpcache[e].arstate = "PENDING"
        PROVE  LET q == arpcache[e].arpid IN
               q \in Tasks \ hasmsg' /\ call'[q] = call[q]
    BY <2>1, <2>2
  <2> QED
    BY <2>1, <2>2 DEF ArpNamed
<1>4. ArpUnique' /\ ArpTrue'
  BY DEF CacheInv, ArpUnique, ArpTrue
<1> QED
  BY <1>2, <1>3, <1>4 DEF CacheInv

\* A step that leaves the UDP slots and their processes alone.
LEMMA UdpFrame ==
  ASSUME NEW p \in Tasks, NEW c \in CallType, call \in [Tasks -> CallType], Moves(p, c),
         call[p].at # "udp", c.at # "udp", udptab' = udptab,
         \A q \in Tasks \ {p} : call[q].at = "udp" => call'[q] = call[q],
         \A q \in Tasks : call[q].at = "udp" => (q \in hasmsg' <=> q \in hasmsg)
  PROVE  /\ UdpWaits /\ UdpNamed => UdpWaits' /\ UdpNamed'
         /\ UdpFits => UdpFits'
<1>1. \A q \in Tasks : call'[q].at = "udp" => call'[q] = call[q] /\ call[q].at = "udp"
  <2>1. \A q \in Tasks \ {p} : call'[q].at = call[q].at
    BY MovesTyped
  <2> QED
    BY <2>1 DEF Moves
<1>2. UdpWaits => UdpWaits'
  BY <1>1 DEF UdpWaits
<1>3. ASSUME UdpNamed PROVE UdpNamed'
  <2>1. ASSUME NEW s \in USlots, udptab[s].udstate = "RECV"
        PROVE  LET q == udptab[s].udpid IN
               q \in Tasks \ hasmsg /\ q # p /\ call[q].at = "udp"
               /\ call[q].slot = s /\ ~call[q].stale
    BY <1>3, <2>1 DEF UdpNamed
  <2>2. ASSUME NEW s \in USlots, udptab[s].udstate = "RECV"
        PROVE  LET q == udptab[s].udpid IN
               q \in Tasks \ hasmsg' /\ call'[q] = call[q]
    BY <2>1, <2>2
  <2> QED
    BY <2>1, <2>2 DEF UdpNamed
<1>4. UdpFits => UdpFits'
  BY DEF UdpFits
<1> QED
  BY <1>2, <1>3, <1>4

\* A step that leaves the ICMP slots and their processes alone.
LEMMA IcmpFrame ==
  ASSUME NEW p \in Tasks, NEW c \in CallType, call \in [Tasks -> CallType], Moves(p, c),
         call[p].at # "icmp", c.at # "icmp", icmptab' = icmptab,
         \A q \in Tasks \ {p} : call[q].at = "icmp" => call'[q] = call[q],
         \A q \in Tasks : call[q].at = "icmp" => (q \in hasmsg' <=> q \in hasmsg)
  PROVE  /\ IcmpWaits /\ IcmpNamed => IcmpWaits' /\ IcmpNamed'
         /\ IcmpFits => IcmpFits'
<1>1. \A q \in Tasks : call'[q].at = "icmp" => call'[q] = call[q] /\ call[q].at = "icmp"
  <2>1. \A q \in Tasks \ {p} : call'[q].at = call[q].at
    BY MovesTyped
  <2> QED
    BY <2>1 DEF Moves
<1>2. IcmpWaits => IcmpWaits'
  BY <1>1 DEF IcmpWaits
<1>3. ASSUME IcmpNamed PROVE IcmpNamed'
  <2>1. ASSUME NEW s \in ISlots, icmptab[s].icstate = "RECV"
        PROVE  LET q == icmptab[s].icpid IN
               q \in Tasks \ hasmsg /\ q # p /\ call[q].at = "icmp"
               /\ call[q].slot = s /\ ~call[q].stale
    BY <1>3, <2>1 DEF IcmpNamed
  <2>2. ASSUME NEW s \in ISlots, icmptab[s].icstate = "RECV"
        PROVE  LET q == icmptab[s].icpid IN
               q \in Tasks \ hasmsg' /\ call'[q] = call[q]
    BY <2>1, <2>2
  <2> QED
    BY <2>1, <2>2 DEF IcmpNamed
<1>4. IcmpFits => IcmpFits'
  BY DEF IcmpFits
<1> QED
  BY <1>2, <1>3, <1>4

\* A step that leaves the output queue and the wait of ipout alone.
LEMMA OutFrame ==
  ASSUME NEW p \in Tasks, NEW c \in CallType, call \in [Tasks -> CallType], Moves(p, c),
         OutInv, call[p].at # "ipout", c.at # "ipout", UNCHANGED <<iqueue, iqsem>>
  PROVE  OutInv'
<1>1. call'["ipout"].at = "ipout" <=> call["ipout"].at = "ipout"
  <2>1. CASE p = "ipout"
    BY <2>1 DEF Moves
  <2>2. CASE p # "ipout"
    BY <2>2, MovesTyped, Constants
  <2> QED
    BY <2>1, <2>2
<1> QED
  BY <1>1 DEF OutInv

----------------------------------------------------------------------------
\* How the packets in slots are counted.

\* The packets in the UDP slots are a number.
LEMMA UdpCount ==
  ASSUME udptab \in [USlots -> UdpEntry]
  PROVE  InUdp \in Nat /\ \A s \in USlots : Len(udptab[s].queue) \in Nat
<1> DEFINE f == [s \in USlots |-> Len(udptab[s].queue)]
<1>1. \A s \in USlots : udptab[s].queue \in Seq(Packets)
  BY DEF UdpEntry
<1>2. \A s \in USlots : Len(udptab[s].queue) \in Nat
  BY <1>1, LenProperties
<1>3. f \in [USlots -> Int] /\ \A s \in USlots : f[s] >= 0
  BY <1>2
<1> HIDE DEF f
<1>4. SumFunction(f) \in Int /\ SumFunction(f) >= 0
  BY <1>3, SumType, Constants
<1> QED
  BY <1>2, <1>4 DEF InUdp, f

\* How many they are when one queue changes.
LEMMA UdpChange ==
  ASSUME udptab \in [USlots -> UdpEntry], udptab' \in [USlots -> UdpEntry], NEW s \in USlots,
         \A t \in USlots \ {s} : udptab'[t].queue = udptab[t].queue
  PROVE  InUdp' = InUdp - Len(udptab[s].queue) + Len(udptab'[s].queue)
<1> DEFINE f == [t \in USlots |-> Len(udptab[t].queue)]
           g == [t \in USlots |-> Len(udptab'[t].queue)]
<1>1. \A t \in USlots : udptab[t].queue \in Seq(Packets) /\ udptab'[t].queue \in Seq(Packets)
  BY DEF UdpEntry
<1>2. \A t \in USlots : Len(udptab[t].queue) \in Nat /\ Len(udptab'[t].queue) \in Nat
  BY <1>1, LenProperties
<1>3. f \in [USlots -> Int] /\ g \in [USlots -> Int]
  BY <1>2
<1>4. \A t \in USlots \ {s} : g[t] = f[t]
  OBVIOUS
<1>5. f[s] = Len(udptab[s].queue) /\ g[s] = Len(udptab'[s].queue)
  OBVIOUS
<1> HIDE DEF f, g
<1>7. IsFiniteSet(USlots)
  BY Constants
<1>6. SumFunction(g) = SumFunction(f) - f[s] + g[s]
  BY <1>3, <1>4, <1>7, SumChange
<1> QED
  BY <1>5, <1>6 DEF InUdp, f, g

\* The packets in the ICMP slots are a number.
LEMMA IcmpCount ==
  ASSUME icmptab \in [ISlots -> IcmpEntry]
  PROVE  InIcmp \in Nat /\ \A s \in ISlots : Len(icmptab[s].queue) \in Nat
<1> DEFINE f == [s \in ISlots |-> Len(icmptab[s].queue)]
<1>1. \A s \in ISlots : icmptab[s].queue \in Seq(Packets)
  BY DEF IcmpEntry
<1>2. \A s \in ISlots : Len(icmptab[s].queue) \in Nat
  BY <1>1, LenProperties
<1>3. f \in [ISlots -> Int] /\ \A s \in ISlots : f[s] >= 0
  BY <1>2
<1> HIDE DEF f
<1>4. SumFunction(f) \in Int /\ SumFunction(f) >= 0
  BY <1>3, SumType, Constants
<1> QED
  BY <1>2, <1>4 DEF InIcmp, f

\* How many they are when one queue changes.
LEMMA IcmpChange ==
  ASSUME icmptab \in [ISlots -> IcmpEntry], icmptab' \in [ISlots -> IcmpEntry],
         NEW s \in ISlots,
         \A t \in ISlots \ {s} : icmptab'[t].queue = icmptab[t].queue
  PROVE  InIcmp' = InIcmp - Len(icmptab[s].queue) + Len(icmptab'[s].queue)
<1> DEFINE f == [t \in ISlots |-> Len(icmptab[t].queue)]
           g == [t \in ISlots |-> Len(icmptab'[t].queue)]
<1>1. \A t \in ISlots : icmptab[t].queue \in Seq(Packets) /\ icmptab'[t].queue \in Seq(Packets)
  BY DEF IcmpEntry
<1>2. \A t \in ISlots : Len(icmptab[t].queue) \in Nat /\ Len(icmptab'[t].queue) \in Nat
  BY <1>1, LenProperties
<1>3. f \in [ISlots -> Int] /\ g \in [ISlots -> Int]
  BY <1>2
<1>4. \A t \in ISlots \ {s} : g[t] = f[t]
  OBVIOUS
<1>5. f[s] = Len(icmptab[s].queue) /\ g[s] = Len(icmptab'[s].queue)
  OBVIOUS
<1> HIDE DEF f, g
<1>7. IsFiniteSet(ISlots)
  BY Constants
<1>6. SumFunction(g) = SumFunction(f) - f[s] + g[s]
  BY <1>3, <1>4, <1>7, SumChange
<1> QED
  BY <1>5, <1>6 DEF InIcmp, f, g

----------------------------------------------------------------------------
\* Steps that change nothing but one call, the pool and the output queue.

\* The buffers that leave one place come to another.
Balanced(p, c) == free' + c.bufs + Stored' = free + call[p].bufs + Stored

\* Buffers that move from one place to another stay in the accounts.
LEMMA AccountsKept ==
  ASSUME Accounts, NEW p, NEW c, Balanced(p, c), free \in Int, free' \in Int,
         Stored \in Int, Stored' \in Int, Held \in Int, NBUFS \in Int,
         call[p].bufs \in Int, c.bufs \in Int, Held' = Held - call[p].bufs + c.bufs
  PROVE  Accounts'
<1>1. NBUFS' = NBUFS
  BY DEF NBUFS
<1>2. PICK b \in Int, k \in Int, f \in Int, g \in Int, x \in Int, y \in Int, h \in Int :
         b = call[p].bufs /\ k = c.bufs /\ f = free /\ g = free' /\ x = Stored /\ y = Stored'
         /\ h = Held
  OBVIOUS
<1>3. g + k + y = f + b + x /\ f + h + x = NBUFS
  BY <1>2 DEF Balanced, Accounts
<1>4. g + (h - b + k) + y = NBUFS
  BY <1>3
<1>5. free' + Held' + Stored' = NBUFS
  BY <1>2, <1>4
<1> QED
  BY <1>1, <1>5 DEF Accounts

\* What is stored is a number.
LEMMA StoredNat ==
  ASSUME udptab \in [USlots -> UdpEntry], icmptab \in [ISlots -> IcmpEntry],
         iqueue \in Seq(Packets)
  PROVE  Stored \in Nat
<1>1. InUdp \in Nat /\ InIcmp \in Nat
  BY UdpCount, IcmpCount
<1>2. Len(iqueue) \in Nat
  BY LenProperties
<1> QED
  BY <1>1, <1>2 DEF Stored

\* What every step has to show.
LEMMA Assembled ==
  ASSUME NInv, NEW p \in Tasks, NEW c \in CallType, Moves(p, c), CallOK(c),
         cpu' = "any" \/ (cpu' = p /\ c.at \in Going), ipvalid' = ipvalid,
         hasmsg' \subseteq Tasks, astray' \in {"no", "stale", "overrun"},
         arpcache' \in [Entries -> ArpEntry], udptab' \in [USlots -> UdpEntry],
         icmptab' \in [ISlots -> IcmpEntry], iqueue' \in Seq(Packets),
         iqsem'.count <= IP_OQSIZ,
         PoolInv', free' \in Int, free' >= 0,
         Balanced(p, c), OutInv', CacheInv', EndpointInv'
  PROVE  NInv'
<1>1. call \in [Tasks -> CallType] /\ free \in Int /\ ipvalid \in BOOLEAN
  BY NbufsNat DEF NInv, TypeOK
<1>2. call' \in [Tasks -> CallType]
  BY <1>1, MovesTyped
<1>3. CallInv' /\ cpu' \in Tasks \cup {"any"}
  BY <1>1, MovesCall DEF NInv
<1>4. Stored \in Nat /\ Stored' \in Nat
  <2>1. Stored \in Nat
    BY StoredNat DEF NInv, TypeOK
  <2>2. (udptab \in [USlots -> UdpEntry] /\ icmptab \in [ISlots -> IcmpEntry]
         /\ iqueue \in Seq(Packets))' => (Stored \in Nat)'
    BY StoredNat, PTL
  <2> QED
    BY <2>1, <2>2
<1>5. Held \in Nat /\ Held' \in Nat /\ Held' = Held - call[p].bufs + c.bufs
  BY <1>1, MovesHeld
<1>6. call[p].bufs \in Nat /\ c.bufs \in Nat /\ NBUFS \in Nat
  BY <1>1, CallFields, NbufsNat
<1>7. Accounts'
  BY <1>1, <1>4, <1>5, <1>6, AccountsKept DEF NInv
<1>8. free' + Held' + Stored' = NBUFS
  BY <1>7 DEF Accounts, NBUFS
<1>9. free' \in 0..NBUFS
  BY <1>4, <1>5, <1>6, <1>8
<1>10. TypeOK'
  BY <1>1, <1>2, <1>3, <1>9 DEF TypeOK
<1> QED
  BY <1>3, <1>7, <1>10 DEF NInv

\* A process goes on, and no table changes.
LEMMA Walks ==
  ASSUME NInv, astray = "no", NEW p \in Tasks, NEW c \in CallType, MovesAlone(p, c), CallOK(c),
         cpu' = "any" \/ (cpu' = p /\ c.at \in Going),
         call[p].at \notin Waiting, c.at \notin Waiting,
         UNCHANGED <<ipvalid, hasmsg, arpcache, udptab, icmptab>>,
         astray' \in {"no", "stale", "overrun"},
         iqueue' \in Seq(Packets), iqsem'.count <= IP_OQSIZ, OutInv',
         PoolInv', free' \in Int, free' >= 0,
         free' + c.bufs + Len(iqueue') = free + call[p].bufs + Len(iqueue)
  PROVE  NInv'
<1>1. /\ call \in [Tasks -> CallType] /\ free \in Int /\ hasmsg \subseteq Tasks
      /\ arpcache \in [Entries -> ArpEntry] /\ udptab \in [USlots -> UdpEntry]
      /\ icmptab \in [ISlots -> IcmpEntry] /\ iqueue \in Seq(Packets)
  BY NbufsNat DEF NInv, TypeOK
<1>2. Moves(p, c) /\ \A q \in Tasks \ {p} : call'[q] = call[q]
  BY <1>1, AloneMoves
<1>3. CacheInv'
  BY <1>1, <1>2, CacheFrame DEF NInv, Waiting
<1>4. UdpWaits' /\ UdpNamed' /\ UdpFits'
  BY <1>1, <1>2, UdpFrame DEF NInv, EndpointInv, Waiting
<1>5. IcmpWaits' /\ IcmpNamed' /\ IcmpFits'
  BY <1>1, <1>2, IcmpFrame DEF NInv, EndpointInv, Waiting
<1>6. EndpointInv'
  BY <1>4, <1>5 DEF EndpointInv
<1>7. InUdp' = InUdp /\ InIcmp' = InIcmp
  BY DEF InUdp, InIcmp
<1>8. Balanced(p, c)
  <2>1. InUdp \in Nat /\ InIcmp \in Nat
    BY <1>1, UdpCount, IcmpCount
  <2>2. c.bufs \in Nat /\ call[p].bufs \in Nat /\ Len(iqueue) \in Nat /\ Len(iqueue') \in Nat
    BY <1>1, CallFields, LenProperties
  <2>3. PICK b \in Nat, k \in Nat, f \in Int, g \in Int, u \in Nat, i \in Nat, m \in Nat, n \in Nat :
           b = call[p].bufs /\ k = c.bufs /\ f = free /\ g = free' /\ u = InUdp /\ i = InIcmp
           /\ m = Len(iqueue) /\ n = Len(iqueue')
    BY <1>1, <2>1, <2>2
  <2>4. g + k + n = f + b + m
    BY <2>3
  <2>5. g + k + (u + i + n) = f + b + (u + i + m)
    BY <2>4
  <2> QED
    BY <1>7, <2>3, <2>5 DEF Balanced, Stored
<1> QED
  BY <1>1, <1>2, <1>3, <1>6, <1>8, Assembled

\* What is known when process p runs at a place.
LEMMA Running ==
  ASSUME NInv, NEW p \in Tasks, NEW at, Runs(p, at)
  PROVE  /\ astray = "no" /\ call[p].at = at
         /\ call \in [Tasks -> CallType] /\ call[p] \in CallType /\ CallOK(call[p])
         /\ free \in Nat /\ PoolInv
         /\ at \notin Going => cpu = "any" /\ ~Queued(netsem, p)
<1>1. call \in [Tasks -> CallType] /\ free \in Nat /\ PoolInv /\ cpu \in Tasks \cup {"any"}
  BY NbufsNat DEF NInv, TypeOK
<1>2. astray = "no" /\ call[p].at = at /\ IF cpu = "any" THEN ~Queued(netsem, p) ELSE cpu = p
  BY DEF Runs
<1>3. CallOK(call[p]) /\ (cpu \in Tasks => call[cpu].at \in Going)
  BY DEF NInv, CallInv
<1> QED
  BY <1>1, <1>2, <1>3, Constants

TablesKept == UNCHANGED <<ipvalid, hasmsg, astray, arpcache, udptab, icmptab, iqueue, iqsem>>

\* The same when the output queue is left alone as well.
LEMMA Strolls ==
  ASSUME NInv, astray = "no", NEW p \in Tasks, NEW c \in CallType, MovesAlone(p, c), CallOK(c),
         cpu' = "any" \/ (cpu' = p /\ c.at \in Going),
         call[p].at \notin Waiting \cup {"ipout"}, c.at \notin Waiting \cup {"ipout"},
         TablesKept, PoolInv', free' \in Int, free' >= 0,
         free' + c.bufs = free + call[p].bufs
  PROVE  NInv'
<1>1. /\ call \in [Tasks -> CallType] /\ free \in Int /\ iqueue \in Seq(Packets)
      /\ iqsem.count <= IP_OQSIZ
  BY NbufsNat DEF NInv, TypeOK
<1>2. /\ UNCHANGED <<ipvalid, hasmsg, arpcache, udptab, icmptab>>
      /\ UNCHANGED <<iqueue, iqsem>> /\ astray' = astray
  BY DEF TablesKept
<1>3. OutInv'
  BY <1>1, <1>2, AloneMoves, OutFrame DEF NInv
<1>4. free' + c.bufs + Len(iqueue') = free + call[p].bufs + Len(iqueue)
  BY <1>2
<1>5. astray' \in {"no", "stale", "overrun"} /\ iqueue' \in Seq(Packets)
      /\ iqsem'.count <= IP_OQSIZ
  BY <1>1, <1>2
<1> QED
  BY <1>2, <1>3, <1>4, <1>5, Walks

\* Process p keeps its buffers and goes on elsewhere.
LEMMA GoesOn ==
  ASSUME NInv, astray = "no", NEW p \in Tasks, NEW c \in CallType, NEW at \in Going \ {"ipout"},
         call[p].at \notin Waiting \cup {"ipout", "getbuf"},
         Goto(p, c, at), UNCHANGED bufVars, TablesKept,
         c.bufs = call[p].bufs, CallOK([c EXCEPT !.at = at])
  PROVE  NInv'
<1> DEFINE d == [c EXCEPT !.at = at]
<1>1. at \in Places /\ at \notin Waiting \cup {"ipout", "getbuf"}
  BY DEF Going, Places, Waiting
<1>2. d \in CallType /\ d.at = at /\ d.bufs = c.bufs
  BY <1>1, AtSet
<1>3. MovesAlone(p, d) /\ cpu' = p
  BY DEF Goto, MovesAlone
<1>4. CallOK(d)
  OBVIOUS
<1> HIDE DEF d
<1>5. call \in [Tasks -> CallType] /\ free \in Nat /\ PoolInv
  BY NbufsNat DEF NInv, TypeOK
<1>6. Getting' = Getting
  <2>1. Getting' = Getting \ {p}
    BY <1>1, <1>2, <1>3, <1>5, AloneMoves, MovesGetting
  <2> QED
    BY <2>1 DEF Getting
<1>7. PoolInv' /\ free' = free
  BY <1>5, <1>6, PoolKept
<1>8. free' + d.bufs = free + call[p].bufs
  BY <1>2, <1>7
<1> QED
  BY <1>1, <1>2, <1>3, <1>4, <1>5, <1>7, <1>8, Strolls

\* The call of p is over, and its buffers go back.
LEMMA GivesUp ==
  ASSUME NInv, astray = "no", NEW p \in Tasks,
         call[p].at \notin Waiting \cup {"ipout", "getbuf"},
         freebuf(call[p].bufs), Return(p), TablesKept
  PROVE  NInv'
<1>1. Idle \in CallType /\ CallOK(Idle) /\ Idle.at = "start" /\ Idle.bufs = 0
  BY IdleTyped
<1>2. MovesAlone(p, Idle) /\ cpu' = "any"
  BY DEF Return, MovesAlone
<1>3. call \in [Tasks -> CallType] /\ free \in Nat /\ PoolInv
  BY NbufsNat DEF NInv, TypeOK
<1>4. Getting' = Getting
  <2>1. Getting' = Getting \ {p}
    BY <1>1, <1>2, <1>3, AloneMoves, MovesGetting
  <2> QED
    BY <2>1 DEF Getting
<1>5. call[p].bufs \in Nat
  BY <1>3, CallFields
<1>6. PoolInv' /\ free' = free + call[p].bufs
  BY <1>3, <1>4, <1>5, PoolFreed
<1>7. free' + Idle.bufs = free + call[p].bufs /\ free' \in Int /\ free' >= 0
  BY <1>1, <1>3, <1>5, <1>6
<1>8. Idle.at \notin Waiting \cup {"ipout"} /\ call[p].at \notin Waiting \cup {"ipout"}
  BY <1>1 DEF Waiting
<1> QED
  BY <1>1, <1>2, <1>6, <1>7, <1>8, Strolls

\* Process p asks for a buffer.
LEMMA AsksBuffer ==
  ASSUME NInv, astray = "no", NEW p \in Tasks, NEW c \in CallType, NEW pk \in Packets,
         NEW next \in {"read", "ip_send", "ip_enqueue"},
         call[p].at \notin Waiting \cup {"ipout", "getbuf"},
         c.bufs = call[p].bufs, c.bufs = IF next = "ip_enqueue" THEN 1 ELSE 0, ~c.stale,
         getbuf(p, c, pk, next), TablesKept
  PROVE  NInv'
<1>1. call \in [Tasks -> CallType] /\ free \in Nat /\ PoolInv /\ c.bufs \in Nat
  BY NbufsNat, CallFields DEF NInv, TypeOK
<1>2. p \notin Getting /\ c.bufs < 2 /\ free \in Int
  BY <1>1 DEF Getting
<1>3. PICK e \in CallType :
            /\ MovesAlone(p, e) /\ PoolInv' /\ e.stale = c.stale
            /\ \/ /\ e.at = "getbuf" /\ e.next = next /\ e.bufs = c.bufs
                  /\ free' = free /\ cpu' = "any"
               \/ /\ e.at = next /\ e.next = "start" /\ e.bufs = c.bufs + 1
                  /\ free' = free - 1 /\ free >= 1
                  /\ cpu' = IF next = "read" THEN "any" ELSE p
  BY <1>1, <1>2, GetbufMoves
<1>4. e.at \in {"getbuf", "read", "ip_send", "ip_enqueue"}
  BY <1>3
<1>5. CallOK(e)
  BY <1>1, <1>3 DEF CallOK, BufsAt
<1>6. cpu' = "any" \/ (cpu' = p /\ e.at \in Going)
  BY <1>3 DEF Going
<1>7. free' + e.bufs = free + call[p].bufs /\ free' \in Int /\ free' >= 0
  BY <1>1, <1>3
<1>8. e.at \notin Waiting \cup {"ipout"} /\ call[p].at \notin Waiting \cup {"ipout"}
  BY <1>4 DEF Waiting
<1> QED
  BY <1>3, <1>5, <1>6, <1>7, <1>8, Strolls

----------------------------------------------------------------------------
\* IP and the processes netin and ipout.

\* Process p has one packet, which it passes on or gives up.
Passed(p) ==
    \E e \in CallType :
        /\ MovesAlone(p, e) /\ CallOK(e)
        /\ (cpu' = "any" \/ (cpu' = p /\ e.at \in Going))
        /\ e.at \notin Waiting \cup {"ipout", "getbuf"}
        /\ PoolInv' /\ free' \in Nat /\ free' + e.bufs = free + 1

\* The packet goes on in another function of the stack.
LEMMA PassedOn ==
  ASSUME NInv, NEW p \in Tasks \ Getting, NEW c \in CallType,
         NEW at \in {"udp_in", "icmp_in", "arp_resolve", "arp_in", "ip_out"},
         Goto(p, c, at), UNCHANGED bufVars, c.bufs = 1, CallOK([c EXCEPT !.at = at])
  PROVE  Passed(p)
<1> DEFINE d == [c EXCEPT !.at = at]
<1>1. at \in Places /\ at \notin Waiting \cup {"ipout", "getbuf"} /\ at \in Going
  BY DEF Going, Places, Waiting
<1>2. d \in CallType /\ d.at = at /\ d.bufs = 1
  BY <1>1, AtSet
<1>3. MovesAlone(p, d) /\ cpu' = p
  BY DEF Goto, MovesAlone
<1>4. CallOK(d)
  OBVIOUS
<1> HIDE DEF d
<1>5. call \in [Tasks -> CallType] /\ free \in Nat /\ PoolInv
  BY NbufsNat DEF NInv, TypeOK
<1>6. Getting' = Getting
  <2>1. Getting' = Getting \ {p}
    BY <1>1, <1>2, <1>3, <1>5, AloneMoves, MovesGetting
  <2> QED
    BY <2>1
<1>7. PoolInv' /\ free' = free
  BY <1>5, <1>6, PoolKept
<1> QED
  BY <1>1, <1>2, <1>3, <1>4, <1>5, <1>7 DEF Passed

\* Its buffer goes back to the pool.
LEMMA PassedBack ==
  ASSUME NInv, NEW p \in Tasks \ Getting, freebuf(1), Return(p)
  PROVE  Passed(p)
<1>1. /\ Idle \in CallType /\ CallOK(Idle) /\ Idle.bufs = 0
      /\ Idle.at \notin Waiting \cup {"ipout", "getbuf"}
  BY IdleTyped DEF Waiting
<1>2. MovesAlone(p, Idle) /\ cpu' = "any"
  BY DEF Return, MovesAlone
<1>3. call \in [Tasks -> CallType] /\ free \in Nat /\ PoolInv
  BY NbufsNat DEF NInv, TypeOK
<1>4. Getting' = Getting
  <2>1. Getting' = Getting \ {p}
    BY <1>1, <1>2, <1>3, AloneMoves, MovesGetting
  <2> QED
    BY <2>1
<1>5. PoolInv' /\ free' = free + 1
  BY <1>3, <1>4, PoolFreed
<1>6. free' \in Nat /\ free' + Idle.bufs = free + 1
  BY <1>1, <1>3, <1>5
<1> QED
  BY <1>1, <1>2, <1>5, <1>6 DEF Passed

\* ip_local passes the packet on.
LEMMA LocalPassed ==
  ASSUME NInv, NEW p \in Tasks \ Getting, NEW c \in CallType, c.bufs = 1, ~c.stale,
         ip_local(p, c)
  PROVE  Passed(p)
<1>1. ASSUME NEW at \in {"udp_in", "icmp_in"} PROVE CallOK([c EXCEPT !.at = at])
  <2> DEFINE d == [c EXCEPT !.at = at]
  <2>1. at \in Places
    BY DEF Places
  <2>2. d.at = at /\ d.bufs = 1 /\ ~d.stale
    BY <2>1, AtSet
  <2> HIDE DEF d
  <2>3. CallOK(d)
    BY <2>2 DEF CallOK, BufsAt
  <2> QED
    BY <2>3 DEF d
<1>2. \/ Goto(p, c, "udp_in") /\ UNCHANGED bufVars
      \/ Goto(p, c, "icmp_in") /\ UNCHANGED bufVars
      \/ freebuf(1) /\ Return(p)
  BY DEF ip_local
<1> QED
  BY <1>1, <1>2, PassedOn, PassedBack

\* So does Route, to the next hop.
LEMMA RoutePassed ==
  ASSUME NInv, NEW p \in Tasks \ Getting, NEW c \in CallType, c.bufs = 1, ~c.stale,
         NEW d \in Addresses, Route(p, c, d)
  PROVE  Passed(p)
<1>1. NextHop(d) \in Addresses
  BY DEF NextHop, Addresses
<1> DEFINE b == [c EXCEPT !.hop = NextHop(d)]
           e == [b EXCEPT !.at = "arp_resolve"]
<1>2. b \in CallType /\ b.bufs = 1 /\ ~b.stale
  BY <1>1, HopSet
<1>3. \/ freebuf(1) /\ Return(p)
      \/ Goto(p, b, "arp_resolve") /\ UNCHANGED bufVars
  BY DEF Route
<1> HIDE DEF b
<1>4. "arp_resolve" \in Places
  BY DEF Places
<1>5. e.at = "arp_resolve" /\ e.bufs = 1 /\ ~e.stale
  BY <1>2, <1>4, AtSet
<1> HIDE DEF e
<1>6. CallOK(e)
  BY <1>5 DEF CallOK, BufsAt
<1> QED
  BY <1>2, <1>3, <1>6, PassedOn, PassedBack DEF e

\* A process that held one packet has passed it on.
LEMMA PassedKeeps ==
  ASSUME NInv, astray = "no", NEW p \in Tasks, call[p].bufs = 1,
         call[p].at \notin Waiting \cup {"ipout", "getbuf"}, Passed(p), TablesKept
  PROVE  NInv'
<1>1. PICK e \in CallType :
        /\ MovesAlone(p, e) /\ CallOK(e)
        /\ (cpu' = "any" \/ (cpu' = p /\ e.at \in Going))
        /\ e.at \notin Waiting \cup {"ipout", "getbuf"}
        /\ PoolInv' /\ free' \in Nat /\ free' + e.bufs = free + 1
  BY DEF Passed
<1>2. free' + e.bufs = free + call[p].bufs /\ free' \in Int /\ free' >= 0
  BY <1>1
<1> QED
  BY <1>1, <1>2, Strolls

\* ip_send keeps the invariant.
LEMMA IpSend ==
  ASSUME NInv, NEW p \in Tasks, ip_send(p)
  PROVE  NInv'
<1> DEFINE c == call[p]
           d == call[p].pkt.dst
<1>1. /\ astray = "no" /\ c.at = "ip_send" /\ c \in CallType /\ CallOK(c)
  BY Running DEF ip_send
<1>2. c.bufs = 1 /\ ~c.stale /\ p \notin Getting /\ c.at \notin Waiting \cup {"ipout", "getbuf"}
  BY <1>1 DEF CallOK, BufsAt, Getting, Waiting
<1>3. d \in Addresses
  BY <1>1, CallFields, PacketTyped
<1>4. TablesKept
  BY DEF ip_send, TablesKept, arpVars, udpVars, icmpVars
<1>5. \/ ip_local(p, c)
      \/ /\ d \in Broadcasts
         /\ Goto(p, [c EXCEPT !.hop = d, !.mac = "bcast"], "ip_out") /\ UNCHANGED bufVars
      \/ Route(p, c, d)
  BY DEF ip_send
<1> HIDE DEF c, d
<1>6. CASE /\ d \in Broadcasts
           /\ Goto(p, [c EXCEPT !.hop = d, !.mac = "bcast"], "ip_out") /\ UNCHANGED bufVars
  <2> DEFINE b == [c EXCEPT !.hop = d, !.mac = "bcast"]
             e == [b EXCEPT !.at = "ip_out"]
  <2>1. "bcast" \in Addresses /\ "ip_out" \in Places
    BY DEF Addresses, Places
  <2>2. b \in CallType /\ b.bufs = 1 /\ b.hop = d /\ b.mac = "bcast" /\ ~b.stale
    BY <1>1, <1>2, <1>3, <2>1 DEF CallType
  <2>3. Goto(p, b, "ip_out")
    BY <1>6
  <2> HIDE DEF b
  <2>4. e.at = "ip_out" /\ e.bufs = 1 /\ ~e.stale /\ e.hop = d /\ e.mac = "bcast"
    BY <2>1, <2>2, AtSet
  <2> HIDE DEF e
  <2>5. CallOK(e)
    BY <1>6, <2>4 DEF CallOK, BufsAt
  <2>6. Passed(p)
    BY <1>2, <1>6, <2>2, <2>3, <2>5, PassedOn DEF e
  <2> QED
    BY <1>1, <1>2, <1>4, <2>6, PassedKeeps DEF c
<1>7. CASE ip_local(p, c)
  BY <1>1, <1>2, <1>4, <1>7, LocalPassed, PassedKeeps DEF c
<1>8. CASE Route(p, c, d)
  BY <1>1, <1>2, <1>3, <1>4, <1>8, RoutePassed, PassedKeeps DEF c
<1> QED
  BY <1>5, <1>6, <1>7, <1>8

\* ip_out keeps it.
LEMMA IpOut ==
  ASSUME NInv, NEW p \in Tasks, ip_out(p)
  PROVE  NInv'
<1>1. /\ astray = "no" /\ call[p].at = "ip_out"
  BY Running DEF ip_out
<1>2. TablesKept
  BY DEF ip_out, TablesKept, arpVars, udpVars, icmpVars
<1>3. freebuf(call[p].bufs) /\ Return(p)
  BY DEF ip_out, Drop
<1> QED
  BY <1>1, <1>2, <1>3, GivesUp DEF Waiting

\* netin asks for a buffer.
LEMMA NetinGetbuf ==
  ASSUME NInv, netinGetbuf
  PROVE  NInv'
<1>0. "netin" \in Tasks
  BY Constants
<1>1. astray = "no" /\ call["netin"].at = "start" /\ CallOK(call["netin"])
  BY <1>0, Running DEF netinGetbuf
<1>2. TablesKept
  BY DEF netinGetbuf, TablesKept, arpVars, udpVars, icmpVars
<1>3. Idle \in CallType /\ Idle.bufs = 0 /\ ~Idle.stale /\ NoPkt \in Packets
  BY IdleTyped, PacketTyped
<1>4. call["netin"].bufs = 0
  BY <1>1 DEF CallOK, BufsAt
<1>5. getbuf("netin", Idle, NoPkt, "read")
  BY DEF netinGetbuf
<1>6. call["netin"].at \notin Waiting \cup {"ipout", "getbuf"}
  BY <1>1 DEF Waiting
<1> QED
  BY <1>0, <1>1, <1>2, <1>3, <1>4, <1>5, <1>6, AsksBuffer

\* netin reads a frame and demultiplexes it.
LEMMA NetinRead ==
  ASSUME NInv, NEW f \in Frames, netin(f)
  PROVE  NInv'
<1> DEFINE p == "netin"
           c == [call["netin"] EXCEPT !.pkt = f]
<1>0. p \in Tasks /\ f \in Packets
  BY Constants, NetAssumption
<1>1. /\ astray = "no" /\ call[p].at = "read" /\ call[p] \in CallType /\ CallOK(call[p])
  BY <1>0, Running DEF netin
<1>2. call[p].bufs = 1 /\ ~call[p].stale /\ p \notin Getting /\ call[p].at \notin Waiting \cup {"ipout", "getbuf"}
  BY <1>1 DEF CallOK, BufsAt, Getting, Waiting
<1>3. TablesKept
  BY DEF netin, TablesKept, arpVars, udpVars, icmpVars
<1>4. c \in CallType /\ c.bufs = 1 /\ ~c.stale /\ c.pkt = f
  BY <1>0, <1>1, <1>2, PktSet
<1>5. \/ f.proto = "ARP" /\ Goto(p, c, "arp_in") /\ UNCHANGED bufVars
      \/ ip_local(p, c)
      \/ freebuf(1) /\ Return(p)
  BY <1>2, <1>4 DEF netin, ip_in, Drop
<1> HIDE DEF c
<1>6. CASE f.proto = "ARP" /\ Goto(p, c, "arp_in") /\ UNCHANGED bufVars
  <2> DEFINE e == [c EXCEPT !.at = "arp_in"]
  <2>1. "arp_in" \in Places
    BY DEF Places
  <2>2. e.at = "arp_in" /\ e.bufs = 1 /\ ~e.stale /\ e.pkt = f
    BY <1>4, <2>1, AtSet
  <2>3. f.mac = f.src
    BY <1>6, NetAssumption
  <2> HIDE DEF e
  <2>4. CallOK(e)
    BY <2>2, <2>3 DEF CallOK, BufsAt
  <2> QED
    BY <1>0, <1>1, <1>2, <1>3, <1>4, <1>6, <2>4, PassedOn, PassedKeeps DEF e
<1>7. CASE ip_local(p, c)
  BY <1>0, <1>1, <1>2, <1>3, <1>4, <1>7, LocalPassed, PassedKeeps
<1>8. CASE freebuf(1) /\ Return(p)
  BY <1>0, <1>1, <1>2, <1>3, <1>8, PassedBack, PassedKeeps
<1> QED
  BY <1>5, <1>6, <1>7, <1>8

\* A process that has waited for a buffer goes on with it.
LEMMA GetbufResumed ==
  ASSUME NInv, NEW p \in Tasks, getbufResumed(p), UNCHANGED <<arpVars, udpVars, icmpVars>>
  PROVE  NInv'
<1> DEFINE c == call[p]
<1>1. /\ astray = "no" /\ c.at = "getbuf" /\ call \in [Tasks -> CallType]
      /\ c \in CallType /\ CallOK(c) /\ free \in Nat /\ PoolInv /\ ~Queued(netsem, p)
  BY Running DEF getbufResumed, Going
<1>2. /\ c.next \in {"read", "ip_send", "ip_enqueue"}
      /\ c.bufs = IF c.next = "ip_enqueue" THEN 1 ELSE 0
      /\ ~c.stale
  BY <1>1, CallFields DEF CallOK, BufsAt, Waiting
<1>3. TablesKept /\ netsem' = netsem /\ Granted(p, c)
  BY DEF getbufResumed, TablesKept, arpVars, udpVars, icmpVars
<1>4. p \in Getting
  BY <1>1 DEF Getting
<1> HIDE DEF c
<1>5. free >= 1
  BY <1>1, <1>4, PoolGives
<1>6. c.bufs < 2 /\ c.next # "start"
  BY <1>2
<1>7. PICK e \in CallType : MovesAlone(p, e) /\ Gets(p, c, e) /\ free' = free - 1 /\ e.stale = c.stale
  BY <1>1, <1>3, <1>6, GrantedMoves
<1>8. /\ e.at = c.next /\ e.bufs = c.bufs + 1 /\ e.next = "start"
      /\ cpu' = "any" \/ (cpu' = p /\ e.at \in Going)
  BY <1>2, <1>7 DEF Gets, Going
<1>9. e.at \in {"read", "ip_send", "ip_enqueue"}
  BY <1>2, <1>8
<1>10. CallOK(e)
  BY <1>2, <1>7, <1>8, <1>9 DEF CallOK, BufsAt
<1>11. Moves(p, e)
  BY <1>1, <1>7, AloneMoves
<1>12. Getting' = Getting \ {p}
  BY <1>1, <1>9, <1>11, MovesGetting
<1>13. /\ Cardinality(Getting') = Cardinality(Getting) - 1 /\ Cardinality(Getting) \in Nat
  BY <1>4, <1>12, GettingFinite, FS_RemoveElement
<1>14. ~Has(netsem.queue, p) /\ netsem.count \in Int
  BY <1>1, QueuedHas, SameSem DEF PoolInv, SemType
<1>15. netsem'.count = free' - Cardinality(Getting')
  BY <1>1, <1>3, <1>7, <1>13, <1>14 DEF PoolInv
<1>16. \A q \in Tasks : Has(netsem'.queue, q) => q \in Getting'
  BY <1>1, <1>3, <1>12, <1>14 DEF PoolInv
<1>17. PoolInv'
  BY <1>1, <1>3, <1>15, <1>16 DEF PoolInv
<1>18. free' \in Int /\ free' >= 0 /\ free' + e.bufs = free + call[p].bufs
  BY <1>1, <1>2, <1>5, <1>7, <1>8 DEF c
<1>19. /\ e.at \notin Waiting \cup {"ipout"} /\ call[p].at \notin Waiting \cup {"ipout"}
  BY <1>1, <1>9 DEF Waiting, c
<1> QED
  BY <1>1, <1>3, <1>7, <1>8, <1>10, <1>17, <1>18, <1>19, Strolls

\* The semaphore of the output queue is a sound one.
LEMMA OutSound ==
  ASSUME OutInv, call \in [Tasks -> CallType], iqueue \in Seq(Packets)
  PROVE  /\ iqsem \in SemType(Tasks) /\ SemSound(iqsem) /\ iqsem.used /\ iqsem.count \in Int
         /\ Len(iqueue) \in Nat
         /\ \A q : Has(iqsem.queue, q) => q = "ipout" /\ iqsem.count < 0
         /\ iqsem.count < 0 => iqsem.count = -1 /\ Queued(iqsem, "ipout")
<1>1. iqsem \in SemType(Tasks) /\ iqsem.used /\ iqsem.count \in Int /\ Len(iqueue) \in Nat
  BY LenProperties DEF OutInv, SemType
<1>2. iqsem.count < 0 => iqsem.count = -1
  BY <1>1 DEF OutInv
<1>3. CASE iqsem.count < 0
  <2>1. iqsem.queue = << "ipout" >> /\ iqsem.count = -1
    BY <1>2, <1>3 DEF OutInv
  <2>2. Has(iqsem.queue, "ipout") /\ \A q : Has(iqsem.queue, q) => q = "ipout"
    BY <2>1 DEF Has
  <2>3. SemSound(iqsem)
    <3>1. Len(<< "ipout" >>) = 1
      OBVIOUS
    <3>2. Len(iqsem.queue) = 1 /\ Distinct(iqsem.queue)
      BY <2>1, <3>1 DEF Distinct
    <3>3. PICK n \in Int : n = iqsem.count /\ n + 1 = 0
      BY <1>1, <2>1
    <3>4. Len(iqsem.queue) = -n /\ n < 0
      BY <3>2, <3>3
    <3> QED
      BY <1>1, <3>2, <3>3, <3>4 DEF SemSound
  <2> QED
    BY <1>1, <1>3, <2>1, <2>2, <2>3, QueuedHas, SameSem
<1>4. CASE ~(iqsem.count < 0)
  <2>1. iqsem.queue = << >>
    BY <1>4 DEF OutInv
  <2> QED
    BY <1>1, <1>4, <2>1 DEF SemSound, Distinct, Has
<1> QED
  BY <1>3, <1>4

\* ipout waits for a packet, or finds one.
LEMMA IpoutWait ==
  ASSUME NInv, ipoutWait
  PROVE  NInv'
<1> DEFINE p == "ipout"
           e == [Idle EXCEPT !.at = "ipout"]
           y == wait(iqsem, p)
<1>0. p \in Tasks
  BY Constants
<1>1. /\ astray = "no" /\ call[p].at = "start" /\ call \in [Tasks -> CallType]
      /\ CallOK(call[p]) /\ free \in Nat /\ PoolInv
  BY <1>0, Running DEF ipoutWait
<1>2. /\ UNCHANGED <<ipvalid, hasmsg, arpcache, udptab, icmptab>> /\ astray' = astray
      /\ UNCHANGED bufVars /\ iqueue' = iqueue /\ iqsem' = y
      /\ IF Queued(iqsem', p) THEN Block(p, Idle, "ipout") ELSE Goto(p, Idle, "ipout")
  BY DEF ipoutWait, arpVars, udpVars
<1>3. OutInv /\ iqueue \in Seq(Packets) /\ iqsem.count <= IP_OQSIZ /\ IP_OQSIZ \in Nat
  BY Constants DEF NInv, TypeOK
<1>4. /\ iqsem \in SemType(Tasks) /\ SemSound(iqsem) /\ iqsem.used /\ iqsem.count \in Int
      /\ Len(iqueue) \in Nat
  BY <1>1, <1>3, OutSound
<1>5. iqsem.count = Len(iqueue) /\ iqsem.queue = << >> /\ ~Has(iqsem.queue, p)
  BY <1>1, <1>3, <1>4 DEF OutInv, Has
<1>6. /\ y \in SemType(Tasks) /\ y.used = iqsem.used /\ y.count = iqsem.count - 1
  BY <1>0, <1>4, <1>5, WaitSem, SameSem
<1>7. y.queue = IF iqsem.count - 1 < 0 THEN << "ipout" >> ELSE << >>
  <2>1. y.queue = IF iqsem.count - 1 < 0 THEN Append(iqsem.queue, p) ELSE iqsem.queue
    BY <1>4 DEF wait, SemType
  <2>2. Append(<< >>, p) = << "ipout" >>
    OBVIOUS
  <2> QED
    BY <1>5, <2>1, <2>2
<1>8. /\ e \in CallType /\ e.at = "ipout" /\ e.bufs = 0 /\ e.next = "start" /\ ~e.stale
  <2>1. "ipout" \in Places
    BY DEF Places
  <2>2. Idle \in CallType /\ Idle.bufs = 0 /\ Idle.next = "start" /\ ~Idle.stale
    BY IdleTyped
  <2> QED
    BY ONLY <2>1, <2>2, AtSet
<1>9. MovesAlone(p, e) /\ (cpu' = "any" \/ cpu' = p)
  BY <1>2 DEF Block, Goto, MovesAlone
<1> HIDE DEF e, y
<1>10. CallOK(e) /\ e.at \in Going /\ e.at \notin Waiting /\ call[p].at \notin Waiting
  BY <1>1, <1>8 DEF CallOK, BufsAt, Going, Waiting
<1>11. Moves(p, e)
  BY <1>0, <1>1, <1>9, AloneMoves
<1>12. call'["ipout"].at = "ipout"
  BY <1>8, <1>11 DEF Moves
<1>13. OutInv'
  BY <1>2, <1>4, <1>5, <1>6, <1>7, <1>12 DEF OutInv
<1>14. Getting' = Getting
  <2>1. Getting' = Getting \ {p}
    BY <1>0, <1>1, <1>8, <1>11, MovesGetting
  <2> QED
    BY <1>1, <2>1 DEF Getting
<1>15. PoolInv' /\ free' = free
  BY <1>1, <1>2, <1>14, PoolKept
<1>16. call[p].bufs = 0
  BY <1>1 DEF CallOK, BufsAt
<1>17. /\ iqueue' \in Seq(Packets) /\ iqsem'.count <= IP_OQSIZ
       /\ astray' \in {"no", "stale", "overrun"}
  BY <1>1, <1>2, <1>3, <1>4, <1>6
<1>18. free' + e.bufs + Len(iqueue') = free + call[p].bufs + Len(iqueue)
  BY <1>2, <1>8, <1>15, <1>16
<1> QED
  BY <1>0, <1>1, <1>2, <1>8, <1>9, <1>10, <1>13, <1>15, <1>17, <1>18, Walks

\* ipout takes a packet from the output queue.
LEMMA IpoutSend ==
  ASSUME NInv, ipout
  PROVE  NInv'
<1> DEFINE p == "ipout"
           pk == iqueue[1]
           c == [Idle EXCEPT !.bufs = 1, !.pkt = pk]
<1>0. p \in Tasks
  BY Constants
<1>1. /\ astray = "no" /\ call[p].at = "ipout" /\ call \in [Tasks -> CallType]
      /\ CallOK(call[p]) /\ free \in Nat /\ PoolInv /\ ~Queued(iqsem, p)
  BY <1>0, Running DEF ipout
<1>2. /\ UNCHANGED <<ipvalid, hasmsg, arpcache, udptab, icmptab>> /\ astray' = astray
      /\ iqueue' = Tail(iqueue) /\ iqsem' = iqsem
  BY DEF ipout, arpVars, udpVars
<1>3. OutInv /\ iqueue \in Seq(Packets) /\ iqsem.count <= IP_OQSIZ
  BY DEF NInv, TypeOK
<1>4. iqsem.count \in Int /\ Len(iqueue) \in Nat /\ iqsem.count >= 0
  BY <1>1, <1>3, OutSound
<1>5. iqsem.count = Len(iqueue) - 1 /\ iqsem.queue = << >>
  BY <1>1, <1>3, <1>4 DEF OutInv
<1>6. /\ iqueue # << >> /\ pk \in Packets /\ Tail(iqueue) \in Seq(Packets)
      /\ Len(Tail(iqueue)) = Len(iqueue) - 1
  BY <1>3, <1>4, <1>5, LenProperties, HeadTailProperties
<1>7. pk.dst \in Addresses
  BY <1>6, PacketTyped
<1>8. \/ freebuf(1) /\ Return(p)
      \/ ip_local(p, c)
      \/ Route(p, c, pk.dst)
  BY DEF ipout
<1>9. c \in CallType /\ c.bufs = 1 /\ ~c.stale
  BY <1>6, FilledSet
<1>10. p \notin Getting
  BY <1>1 DEF Getting
<1> HIDE DEF c, pk
<1>11. Passed(p)
  BY <1>0, <1>7, <1>8, <1>9, <1>10, PassedBack, LocalPassed, RoutePassed
<1>12. PICK e \in CallType :
        /\ MovesAlone(p, e) /\ CallOK(e)
        /\ (cpu' = "any" \/ (cpu' = p /\ e.at \in Going))
        /\ e.at \notin Waiting \cup {"ipout", "getbuf"}
        /\ PoolInv' /\ free' \in Nat /\ free' + e.bufs = free + 1
  BY <1>11 DEF Passed
<1>13. Moves(p, e)
  BY <1>0, <1>1, <1>12, AloneMoves
<1>14. call'["ipout"].at # "ipout"
  BY <1>12, <1>13 DEF Moves
<1>15. OutInv'
  BY <1>2, <1>3, <1>4, <1>5, <1>6, <1>14 DEF OutInv
<1>16. call[p].bufs = 0 /\ call[p].at \notin Waiting
  BY <1>1 DEF CallOK, BufsAt, Waiting
<1>17. free' + e.bufs + Len(iqueue') = free + call[p].bufs + Len(iqueue)
  <2>1. e.bufs \in Nat /\ free' \in Nat
    BY <1>12, CallFields
  <2>2. PICK b \in Nat, f \in Nat, g \in Nat, n \in Nat :
           b = e.bufs /\ f = free /\ g = free' /\ n = Len(iqueue)
    BY <1>1, <1>4, <2>1
  <2>3. g + b + (n - 1) = f + 0 + n
    BY <1>12, <2>2
  <2> QED
    BY <1>2, <1>6, <1>16, <2>2, <2>3
<1>18. free' \in Int /\ free' >= 0 /\ e.at \notin Waiting
       /\ astray' \in {"no", "stale", "overrun"}
       /\ iqueue' \in Seq(Packets) /\ iqsem'.count <= IP_OQSIZ
  BY <1>1, <1>2, <1>3, <1>6, <1>12
<1> QED
  BY <1>0, <1>1, <1>2, <1>12, <1>15, <1>16, <1>17, <1>18, Walks

----------------------------------------------------------------------------
\* ARP.

ArpStepKeeps == UNCHANGED <<ipvalid, astray, udptab, icmptab, iqueue, iqsem>>

\* A step of ARP, which leaves alone what waits for a packet.
LEMMA Looks ==
  ASSUME NInv, astray = "no", NEW p \in Tasks, NEW c \in CallType, Moves(p, c), CallOK(c),
         cpu' = "any" \/ (cpu' = p /\ c.at \in Going),
         call[p].at \notin {"udp", "icmp", "ipout"}, c.at \notin {"udp", "icmp", "ipout"},
         \A q \in Tasks \ {p} : call[q].at # "arp" => call'[q] = call[q],
         hasmsg' \subseteq Tasks,
         \A q \in Tasks : call[q].at \in {"udp", "icmp"} => (q \in hasmsg' <=> q \in hasmsg),
         ArpStepKeeps, arpcache' \in [Entries -> ArpEntry], CacheInv',
         PoolInv', free' \in Int, free' >= 0, free' + c.bufs = free + call[p].bufs
  PROVE  NInv'
<1>1. /\ call \in [Tasks -> CallType] /\ free \in Int
      /\ udptab \in [USlots -> UdpEntry]
      /\ icmptab \in [ISlots -> IcmpEntry] /\ iqueue \in Seq(Packets)
      /\ iqsem.count <= IP_OQSIZ
  BY NbufsNat DEF NInv, TypeOK
<1>2. /\ ipvalid' = ipvalid /\ astray' = astray /\ udptab' = udptab /\ icmptab' = icmptab
      /\ iqueue' = iqueue /\ iqsem' = iqsem
  BY DEF ArpStepKeeps
<1>3. /\ \A q \in Tasks \ {p} : call[q].at = "udp" => call'[q] = call[q]
      /\ \A q \in Tasks : call[q].at = "udp" => (q \in hasmsg' <=> q \in hasmsg)
      /\ \A q \in Tasks \ {p} : call[q].at = "icmp" => call'[q] = call[q]
      /\ \A q \in Tasks : call[q].at = "icmp" => (q \in hasmsg' <=> q \in hasmsg)
  OBVIOUS
<1>4. UdpWaits' /\ UdpNamed' /\ UdpFits'
  BY <1>1, <1>2, <1>3, UdpFrame DEF NInv, EndpointInv
<1>5. IcmpWaits' /\ IcmpNamed' /\ IcmpFits'
  BY <1>1, <1>2, <1>3, IcmpFrame DEF NInv, EndpointInv
<1>6. EndpointInv'
  BY <1>4, <1>5 DEF EndpointInv
<1>7. OutInv'
  BY <1>1, <1>2, OutFrame DEF NInv
<1>8. Stored' = Stored
  BY <1>2 DEF Stored, InUdp, InIcmp
<1>9. Balanced(p, c)
  <2>1. Stored \in Nat
    BY <1>1, StoredNat
  <2>2. PICK b \in Int, k \in Int, f \in Int, g \in Int, u \in Int :
           b = call[p].bufs /\ k = c.bufs /\ f = free /\ g = free' /\ u = Stored
    BY <1>1, <2>1, CallFields, SMTT(60)
  <2>3. g + k + u = f + b + u
    BY <2>2
  <2> QED
    BY <1>8, <2>2, <2>3 DEF Balanced
<1>10. /\ astray' \in {"no", "stale", "overrun"} /\ iqueue' \in Seq(Packets)
       /\ udptab' \in [USlots -> UdpEntry] /\ icmptab' \in [ISlots -> IcmpEntry]
       /\ iqsem'.count <= IP_OQSIZ
  BY <1>1, <1>2
<1> QED
  BY <1>2, <1>6, <1>7, <1>9, <1>10, Assembled

\* The slot that arp_alloc takes is in use by nobody who is still waiting.
LEMMA SlotTaken ==
  ASSUME NInv, Allocatable # {}
  PROVE  /\ First(Allocatable) \in Entries
         /\ arpcache[First(Allocatable)].arstate \in {"FREE", "RESOLVED"}
<1>1. Allocatable \subseteq Entries /\ Allocatable \subseteq Nat
  BY Constants DEF Allocatable, In
<1>2. First(Allocatable) \in Allocatable
  BY <1>1, FirstIn
<1> QED
  BY <1>1, <1>2 DEF Allocatable, In

\* An entry is given to another address: who waited for the old one knows it already.
LEMMA CacheTaken ==
  ASSUME NInv, NEW p \in Tasks, NEW c \in CallType, NEW s \in Entries, NEW x \in ArpEntry,
         Moves(p, c), call[p].at # "arp",
         arpcache[s].arstate # "PENDING",
         Robs(p, "arp", s),
         arpcache' = [arpcache EXCEPT ![s] = x],
         \A e \in Entries : arpcache[e].arstate # "FREE" => arpcache[e].arpaddr # x.arpaddr,
         \/ /\ x.arstate = "RESOLVED" /\ x.arhaddr = x.arpaddr
            /\ c.at # "arp" /\ hasmsg' = hasmsg
         \/ /\ x.arstate = "PENDING" /\ x.arpid = p /\ hasmsg' = hasmsg \ {p}
            /\ c.at = "arp" /\ c.slot = s /\ c.hop = x.arpaddr /\ ~c.stale
  PROVE  CacheInv'
<1>1. /\ call \in [Tasks -> CallType] /\ arpcache \in [Entries -> ArpEntry] /\ CacheInv
      /\ call'[p] = c
      /\ \A q \in Tasks \ {p} :
            call'[q] = IF call[q].at = "arp" /\ call[q].slot = s
                       THEN [call[q] EXCEPT !.stale = TRUE] ELSE call[q]
  BY DEF NInv, TypeOK, Moves, Robs
<1>2. /\ arpcache'[s] = x
      /\ \A e \in Entries \ {s} : arpcache'[e] = arpcache[e]
  BY <1>1
<1>3. ArpWaits'
  <2>1. ASSUME NEW q \in Tasks, call'[q].at = "arp"
        PROVE  LET e == arpcache'[call'[q].slot] IN
               IF call'[q].stale THEN q \in hasmsg'
               ELSE /\ e.arpaddr = call'[q].hop
                    /\ IF q \in hasmsg' THEN e.arstate = "RESOLVED"
                       ELSE e.arstate = "PENDING" /\ e.arpid = q
    <3>1. CASE q = p
      BY <1>1, <1>2, <2>1, <3>1
    <3>2. CASE q # p
      <4>1. /\ call[q] \in CallType /\ call'[q].at = call[q].at /\ call'[q].slot = call[q].slot
            /\ call'[q].hop = call[q].hop
        BY <1>1, <3>2, MovesTyped
      <4>2. call[q].at = "arp" /\ CallOK(call[q])
        BY <2>1, <4>1 DEF NInv, CallInv
      <4>3. LET e == arpcache[call[q].slot] IN
            IF call[q].stale THEN q \in hasmsg
            ELSE /\ e.arpaddr = call[q].hop
                 /\ IF q \in hasmsg THEN e.arstate = "RESOLVED"
                    ELSE e.arstate = "PENDING" /\ e.arpid = q
        BY <1>1, <4>2 DEF CacheInv, ArpWaits
      <4>4. q \in hasmsg' <=> q \in hasmsg
        BY <3>2
      <4>5. call[q].slot \in Entries
        BY <4>2 DEF CallOK
      <4>6. CASE call[q].slot = s
        <5>1. q \in hasmsg
          BY <4>3, <4>6
        <5>2. call'[q].stale
          BY <1>1, <3>2, <4>1, <4>2, <4>6, StaleSet
        <5> QED
          BY <4>4, <5>1, <5>2
      <4>7. CASE call[q].slot # s
        BY <1>1, <1>2, <3>2, <4>1, <4>3, <4>4, <4>5, <4>7
      <4> QED
        BY <4>6, <4>7
    <3> QED
      BY <3>1, <3>2
  <2> QED
    BY <2>1 DEF ArpWaits
<1>4. ArpNamed'
  <2>1. ASSUME NEW e \in Entries, arpcache'[e].arstate = "PENDING"
        PROVE  LET q == arpcache'[e].arpid IN
               /\ q \in Tasks \ hasmsg'
               /\ call'[q].at = "arp" /\ call'[q].slot = e /\ ~call'[q].stale
               /\ call'[q].hop = arpcache'[e].arpaddr
    <3>1. CASE e = s
      BY <1>1, <1>2, <2>1, <3>1
    <3>2. CASE e # s
      <4>1. arpcache'[e] = arpcache[e]
        BY <1>2, <3>2
      <4>2. LET q == arpcache[e].arpid IN
            /\ q \in Tasks \ hasmsg
            /\ call[q].at = "arp" /\ call[q].slot = e /\ ~call[q].stale
            /\ call[q].hop = arpcache[e].arpaddr
        BY <1>1, <2>1, <4>1 DEF CacheInv, ArpNamed
      <4>3. call'[arpcache[e].arpid] = call[arpcache[e].arpid]
        BY <1>1, <3>2, <4>2
      <4> QED
        BY <4>1, <4>2, <4>3
    <3> QED
      BY <3>1, <3>2
  <2> QED
    BY <2>1 DEF ArpNamed
<1>5. ArpUnique'
  BY <1>1, <1>2 DEF CacheInv, ArpUnique
<1>6. ArpTrue'
  BY <1>1, <1>2 DEF CacheInv, ArpTrue
<1> QED
  BY <1>3, <1>4, <1>5, <1>6 DEF CacheInv

\* The entry that a search finds is in use for the address.
LEMMA FoundEntry ==
  ASSUME NEW a, Found(a) # {}
  PROVE  /\ First(Found(a)) \in Entries
         /\ arpcache[First(Found(a))].arstate # "FREE"
         /\ arpcache[First(Found(a))].arpaddr = a
<1>1. Found(a) \subseteq Entries /\ Found(a) \subseteq Nat
  BY Constants DEF Found
<1>2. First(Found(a)) \in Found(a)
  BY <1>1, FirstIn
<1> QED
  BY <1>2 DEF Found

\* The process has the hardware address and sends.
LEMMA SendsTo ==
  ASSUME NInv, astray = "no", NEW p \in Tasks, NEW m \in Addresses,
         call[p].at = "arp_resolve", Goto(p, [call[p] EXCEPT !.mac = m], "ip_out"),
         m = IF call[p].hop \in Broadcasts THEN "bcast" ELSE call[p].hop,
         UNCHANGED bufVars, TablesKept
  PROVE  NInv'
<1> DEFINE b == [call[p] EXCEPT !.mac = m]
           e == [b EXCEPT !.at = "ip_out"]
<1>1. call[p] \in CallType /\ CallOK(call[p])
  BY DEF NInv, TypeOK, CallInv
<1>2. call[p].bufs = 1 /\ ~call[p].stale
  BY <1>1 DEF CallOK, BufsAt, Waiting
<1>3. b \in CallType /\ b.bufs = 1 /\ ~b.stale /\ b.hop = call[p].hop /\ b.mac = m
  BY <1>1, <1>2, MacSet
<1>4. Goto(p, b, "ip_out")
  OBVIOUS
<1> HIDE DEF b
<1>5. /\ e.at = "ip_out" /\ e.bufs = 1 /\ ~e.stale /\ e.hop = call[p].hop /\ e.mac = m
  BY <1>3, AtSet DEF Places
<1> HIDE DEF e
<1>6. CallOK(e)
  BY <1>5 DEF CallOK, BufsAt
<1>7. /\ call[p].at \notin Waiting \cup {"ipout", "getbuf"}
      /\ "ip_out" \in Going \ {"ipout"}
  BY DEF Waiting, Going
<1> QED
  BY <1>2, <1>3, <1>4, <1>6, <1>7, GoesOn DEF e

\* arp_resolve up to recvtime.
LEMMA ArpResolve ==
  ASSUME NInv, NEW p \in Tasks, arp_resolve(p), UNCHANGED <<udpVars, icmpVars>>
  PROVE  NInv'
<1> DEFINE c == call[p]
           f == First(Found(call[p].hop))
           s == First(Allocatable)
           x == [ArpFree EXCEPT !.arstate = "PENDING", !.arpaddr = call[p].hop, !.arpid = p]
           d == [call[p] EXCEPT !.at = "arp", !.slot = s]
<1>1. /\ astray = "no" /\ c.at = "arp_resolve" /\ call \in [Tasks -> CallType]
      /\ c \in CallType /\ CallOK(c) /\ free \in Nat /\ PoolInv
  BY Running DEF arp_resolve
<1>2. c.bufs = 1 /\ ~c.stale /\ c.hop \in Addresses
  BY <1>1, CallFields DEF CallOK, BufsAt, Waiting
<1>3. /\ ipvalid' = ipvalid /\ astray' = astray /\ udptab' = udptab /\ icmptab' = icmptab
      /\ iqueue' = iqueue /\ iqsem' = iqsem
  BY DEF arp_resolve, udpVars, icmpVars
<1>4. /\ arpcache \in [Entries -> ArpEntry] /\ hasmsg \subseteq Tasks /\ CacheInv
  BY DEF NInv, TypeOK
<1>5. \/ /\ c.hop \in Broadcasts
         /\ Goto(p, [c EXCEPT !.mac = "bcast"], "ip_out")
         /\ UNCHANGED <<arpcache, hasmsg, bufVars>>
      \/ /\ c.hop \notin Broadcasts /\ Found(c.hop) # {} /\ arpcache[f].arstate = "RESOLVED"
         /\ Goto(p, [c EXCEPT !.mac = arpcache[f].arhaddr], "ip_out")
         /\ UNCHANGED <<arpcache, hasmsg, bufVars>>
      \/ Drop(p) /\ UNCHANGED <<arpcache, hasmsg>>
      \/ /\ c.hop \notin Broadcasts /\ Found(c.hop) = {} /\ Allocatable # {}
         /\ arpcache' = [arpcache EXCEPT ![s] = x]
         /\ hasmsg' = hasmsg \ {p}
         /\ call' = [Robbed("arp", s) EXCEPT ![p] = d]
         /\ cpu' = "any"
         /\ UNCHANGED bufVars
  BY DEF arp_resolve
<1>6. CASE /\ c.hop \in Broadcasts
           /\ Goto(p, [c EXCEPT !.mac = "bcast"], "ip_out")
           /\ UNCHANGED <<arpcache, hasmsg, bufVars>>
  <2>1. TablesKept /\ UNCHANGED bufVars
    BY <1>3, <1>6 DEF TablesKept
  <2>2. "bcast" \in Addresses
    BY DEF Addresses
  <2> QED
    BY <1>1, <1>6, <2>1, <2>2, SendsTo
<1>7. CASE /\ c.hop \notin Broadcasts /\ Found(c.hop) # {} /\ arpcache[f].arstate = "RESOLVED"
           /\ Goto(p, [c EXCEPT !.mac = arpcache[f].arhaddr], "ip_out")
           /\ UNCHANGED <<arpcache, hasmsg, bufVars>>
  <2>1. TablesKept /\ UNCHANGED bufVars
    BY <1>3, <1>7 DEF TablesKept
  <2>2. f \in Entries /\ arpcache[f].arpaddr = c.hop
    BY <1>7, FoundEntry
  <2>3. arpcache[f].arhaddr = c.hop
    BY <1>4, <1>7, <2>2 DEF CacheInv, ArpTrue
  <2> QED
    BY <1>1, <1>2, <1>7, <2>1, <2>3, SendsTo
<1>8. CASE Drop(p) /\ UNCHANGED <<arpcache, hasmsg>>
  <2>1. TablesKept
    BY <1>3, <1>8 DEF TablesKept
  <2>2. freebuf(call[p].bufs) /\ Return(p)
    BY <1>8 DEF Drop
  <2> QED
    BY <1>1, <2>1, <2>2, GivesUp DEF Waiting
<1>9. CASE /\ c.hop \notin Broadcasts /\ Found(c.hop) = {} /\ Allocatable # {}
           /\ arpcache' = [arpcache EXCEPT ![s] = x]
           /\ hasmsg' = hasmsg \ {p}
           /\ call' = [Robbed("arp", s) EXCEPT ![p] = d]
           /\ cpu' = "any"
           /\ UNCHANGED bufVars
  <2>1. s \in Entries /\ arpcache[s].arstate \in {"FREE", "RESOLVED"} /\ s \in Nat
    BY <1>9, SlotTaken, Constants
  <2>2. /\ d \in CallType /\ d.at = "arp" /\ d.slot = s /\ d.hop = c.hop /\ d.bufs = 1
        /\ ~d.stale /\ d.next = c.next
    BY <1>1, <1>2, <2>1 DEF CallType, Places
  <2>3. /\ x \in ArpEntry /\ x.arstate = "PENDING" /\ x.arpaddr = c.hop /\ x.arpid = p
    <3>1. "zero" \in Addresses
      BY DEF Addresses
    <3> QED
      BY <1>2, <3>1 DEF ArpFree, ArpEntry
  <2> HIDE DEF s, d, x
  <2>4. "arp" \in Waiting
    BY DEF Waiting
  <2>5. Moves(p, d) /\ Robs(p, "arp", s)
    BY <1>1, <1>9, <2>4, RobbedMoves
  <2>6. \A e \in Entries : arpcache[e].arstate # "FREE" => arpcache[e].arpaddr # x.arpaddr
    BY <1>9, <2>3 DEF Found
  <2>7. CacheInv'
    BY <1>1, <1>2, <1>9, <2>1, <2>2, <2>3, <2>5, <2>6, CacheTaken, ZenonT(60)
  <2>8. arpcache' \in [Entries -> ArpEntry] /\ hasmsg' \subseteq Tasks
    BY <1>4, <1>9, <2>3
  <2>9. CallOK(d)
    BY <1>9, <2>1, <2>2 DEF CallOK, BufsAt, Waiting
  <2>10. Getting' = Getting
    <3>1. Getting' = Getting \ {p}
      BY <1>1, <2>2, <2>5, MovesGetting
    <3> QED
      BY <1>1, <3>1 DEF Getting
  <2>11. PoolInv' /\ free' = free
    BY <1>1, <1>9, <2>10, PoolKept
  <2>12. free' + d.bufs = free + call[p].bufs /\ free' \in Int /\ free' >= 0
    BY <1>1, <1>2, <2>2, <2>11
  <2>13. ArpStepKeeps
    BY <1>3 DEF ArpStepKeeps
  <2>14. \A q \in Tasks : call[q].at \in {"udp", "icmp"} => (q \in hasmsg' <=> q \in hasmsg)
    BY <1>1, <1>9
  <2>15. \A q \in Tasks \ {p} : call[q].at # "arp" => call'[q] = call[q]
    BY <2>5 DEF Robs
  <2> QED
    BY <1>1, <1>9, <2>2, <2>5, <2>7, <2>8, <2>9, <2>11, <2>12, <2>13, <2>14, <2>15, Looks
<1> QED
  BY <1>5, <1>6, <1>7, <1>8, <1>9

\* The cache, when the process that waits asks once more.
LEMMA CacheAsked ==
  ASSUME NInv, NEW p \in Tasks, NEW c \in CallType, MovesAlone(p, c),
         c.at = call[p].at, c.slot = call[p].slot, c.hop = call[p].hop,
         c.stale = call[p].stale, arpcache' = arpcache, hasmsg' = hasmsg
  PROVE  CacheInv'
<1>1. /\ call \in [Tasks -> CallType] /\ CacheInv
  BY DEF NInv, TypeOK
<1>2. \A q \in Tasks : /\ call'[q].at = call[q].at /\ call'[q].slot = call[q].slot
                       /\ call'[q].hop = call[q].hop /\ call'[q].stale = call[q].stale
  BY <1>1, AloneMoves DEF Moves
<1>3. ArpWaits'
  BY <1>1, <1>2 DEF CacheInv, ArpWaits
<1>4. ArpNamed'
  BY <1>1, <1>2 DEF CacheInv, ArpNamed
<1>5. ArpUnique' /\ ArpTrue'
  BY <1>1 DEF CacheInv, ArpUnique, ArpTrue
<1> QED
  BY <1>3, <1>4, <1>5 DEF CacheInv

\* The cache, when the process that waits gives up: its entry is free.
LEMMA CacheGivenUp ==
  ASSUME NInv, NEW p \in Tasks, NEW c \in CallType, MovesAlone(p, c),
         call[p].at = "arp", c.at # "arp", p \notin hasmsg,
         arpcache' = GivenUp(call[p].slot), hasmsg' = hasmsg
  PROVE  CacheInv' /\ arpcache' \in [Entries -> ArpEntry]
<1> DEFINE s == call[p].slot
<1>1. /\ call \in [Tasks -> CallType] /\ CacheInv /\ arpcache \in [Entries -> ArpEntry]
      /\ CallOK(call[p])
  BY DEF NInv, TypeOK, CallInv
<1>2. s \in Entries /\ arpcache[s].arstate = "PENDING" /\ arpcache[s].arpid = p
  BY <1>1 DEF CacheInv, ArpWaits, CallOK
<1>3. /\ arpcache' \in [Entries -> ArpEntry] /\ arpcache'[s].arstate = "FREE"
      /\ \A e \in Entries \ {s} : arpcache'[e] = arpcache[e]
  BY <1>1, <1>2 DEF GivenUp, ArpEntry
<1>4. call'[p] = c /\ \A q \in Tasks \ {p} : call'[q] = call[q]
  BY <1>1, AloneMoves DEF Moves
<1>5. ArpWaits'
  <2>1. ASSUME NEW q \in Tasks, call'[q].at = "arp"
        PROVE  LET e == arpcache'[call'[q].slot] IN
               IF call'[q].stale THEN q \in hasmsg'
               ELSE /\ e.arpaddr = call'[q].hop
                    /\ IF q \in hasmsg' THEN e.arstate = "RESOLVED"
                       ELSE e.arstate = "PENDING" /\ e.arpid = q
    <3>1. q # p /\ call'[q] = call[q] /\ call[q].at = "arp"
      BY <1>4, <2>1
    <3>2. call[q].slot \in Entries
      BY <3>1 DEF NInv, CallInv, CallOK
    <3>3. LET e == arpcache[call[q].slot] IN
          IF call[q].stale THEN q \in hasmsg
          ELSE /\ e.arpaddr = call[q].hop
               /\ IF q \in hasmsg THEN e.arstate = "RESOLVED"
                  ELSE e.arstate = "PENDING" /\ e.arpid = q
      BY <1>1, <3>1 DEF CacheInv, ArpWaits
    <3>4. call[q].stale \/ call[q].slot # s
      BY <1>2, <3>1, <3>3
    <3> QED
      BY <1>3, <3>1, <3>2, <3>3, <3>4
  <2> QED
    BY <2>1 DEF ArpWaits
<1>6. ArpNamed'
  <2>1. ASSUME NEW e \in Entries, arpcache'[e].arstate = "PENDING"
        PROVE  LET q == arpcache'[e].arpid IN
               /\ q \in Tasks \ hasmsg'
               /\ call'[q].at = "arp" /\ call'[q].slot = e /\ ~call'[q].stale
               /\ call'[q].hop = arpcache'[e].arpaddr
    <3>1. e # s /\ arpcache'[e] = arpcache[e]
      BY <1>3, <2>1
    <3>2. LET q == arpcache[e].arpid IN
          /\ q \in Tasks \ hasmsg
          /\ call[q].at = "arp" /\ call[q].slot = e /\ ~call[q].stale
          /\ call[q].hop = arpcache[e].arpaddr
      BY <1>1, <2>1, <3>1 DEF CacheInv, ArpNamed
    <3>3. call'[arpcache[e].arpid] = call[arpcache[e].arpid]
      BY <1>4, <3>1, <3>2
    <3> QED
      BY <3>1, <3>2, <3>3
  <2> QED
    BY <2>1 DEF ArpNamed
<1>7. ArpUnique' /\ ArpTrue'
  BY <1>1, <1>3 DEF CacheInv, ArpUnique, ArpTrue
<1> QED
  BY <1>3, <1>5, <1>6, <1>7 DEF CacheInv

\* The cache, when the process that has been told goes on.
LEMMA CacheAnswered ==
  ASSUME NInv, NEW p \in Tasks, NEW c \in CallType, MovesAlone(p, c),
         c.at # "arp", p \in hasmsg, arpcache' = arpcache, hasmsg' = hasmsg \ {p}
  PROVE  CacheInv'
<1>1. /\ call \in [Tasks -> CallType] /\ CacheInv /\ arpcache \in [Entries -> ArpEntry]
  BY DEF NInv, TypeOK
<1>2. call'[p] = c /\ \A q \in Tasks \ {p} : call'[q] = call[q]
  BY <1>1, AloneMoves DEF Moves
<1>3. ArpWaits'
  BY <1>1, <1>2 DEF CacheInv, ArpWaits
<1>4. ArpNamed'
  <2>1. ASSUME NEW e \in Entries, arpcache'[e].arstate = "PENDING"
        PROVE  LET q == arpcache'[e].arpid IN
               /\ q \in Tasks \ hasmsg'
               /\ call'[q].at = "arp" /\ call'[q].slot = e /\ ~call'[q].stale
               /\ call'[q].hop = arpcache'[e].arpaddr
    <3>2. LET q == arpcache[e].arpid IN
          /\ q \in Tasks \ hasmsg
          /\ call[q].at = "arp" /\ call[q].slot = e /\ ~call[q].stale
          /\ call[q].hop = arpcache[e].arpaddr
      BY <1>1, <2>1 DEF CacheInv, ArpNamed
    <3>3. call'[arpcache[e].arpid] = call[arpcache[e].arpid]
      BY <1>2, <3>2
    <3> QED
      BY <3>2, <3>3
  <2> QED
    BY <2>1 DEF ArpNamed
<1>5. ArpUnique' /\ ArpTrue'
  BY <1>1 DEF CacheInv, ArpUnique, ArpTrue
<1> QED
  BY <1>3, <1>4, <1>5 DEF CacheInv

\* The cache, when an entry learns its address and who waits for it is told.
LEMMA CacheLearned ==
  ASSUME NInv, NEW p \in Tasks, NEW c \in CallType, MovesAlone(p, c),
         call[p].at # "arp", c.at # "arp", NEW e \in Entries, NEW pk \in Packets,
         arpcache[e].arstate # "FREE", pk.mac = arpcache[e].arpaddr,
         arpcache' = Learned(e, pk),
         hasmsg' = IF arpcache[e].arstate = "PENDING" THEN hasmsg \cup {arpcache[e].arpid}
                   ELSE hasmsg
  PROVE  CacheInv' /\ arpcache' \in [Entries -> ArpEntry]
<1>1. /\ call \in [Tasks -> CallType] /\ CacheInv /\ arpcache \in [Entries -> ArpEntry]
      /\ pk.mac \in Addresses /\ hasmsg \subseteq Tasks
  BY PacketTyped DEF NInv, TypeOK
<1>2. /\ arpcache' \in [Entries -> ArpEntry] /\ arpcache'[e].arstate = "RESOLVED"
      /\ arpcache'[e].arhaddr = pk.mac /\ arpcache'[e].arpaddr = arpcache[e].arpaddr
      /\ \A d \in Entries \ {e} : arpcache'[d] = arpcache[d]
  BY <1>1 DEF Learned, ArpEntry
<1>3. call'[p] = c /\ \A q \in Tasks \ {p} : call'[q] = call[q]
  BY <1>1, AloneMoves DEF Moves
<1>4. arpcache[e].arstate = "PENDING" =>
         LET q == arpcache[e].arpid IN
         q \in Tasks \ hasmsg /\ call[q].at = "arp" /\ call[q].slot = e
  BY <1>1 DEF CacheInv, ArpNamed
<1>5. arpcache[e].arstate \in {"PENDING", "RESOLVED"}
  BY <1>1 DEF ArpEntry
<1>6. ArpWaits'
  <2>1. ASSUME NEW q \in Tasks, call'[q].at = "arp"
        PROVE  LET x == arpcache'[call'[q].slot] IN
               IF call'[q].stale THEN q \in hasmsg'
               ELSE /\ x.arpaddr = call'[q].hop
                    /\ IF q \in hasmsg' THEN x.arstate = "RESOLVED"
                       ELSE x.arstate = "PENDING" /\ x.arpid = q
    <3>1. q # p /\ call'[q] = call[q] /\ call[q].at = "arp"
      BY <1>3, <2>1
    <3>2. call[q].slot \in Entries
      BY <3>1 DEF NInv, CallInv, CallOK
    <3>3. LET x == arpcache[call[q].slot] IN
          IF call[q].stale THEN q \in hasmsg
          ELSE /\ x.arpaddr = call[q].hop
               /\ IF q \in hasmsg THEN x.arstate = "RESOLVED"
                  ELSE x.arstate = "PENDING" /\ x.arpid = q
      BY <1>1, <3>1 DEF CacheInv, ArpWaits
    <3>4. CASE call[q].slot = e
      BY <1>2, <1>5, <3>1, <3>3, <3>4
    <3>5. CASE call[q].slot # e
      <4>1. q \in hasmsg' <=> q \in hasmsg
        BY <1>4, <3>5
      <4> QED
        BY <1>2, <3>1, <3>2, <3>3, <3>5, <4>1
    <3> QED
      BY <3>4, <3>5
  <2> QED
    BY <2>1 DEF ArpWaits
<1>7. ArpNamed'
  <2>1. ASSUME NEW d \in Entries, arpcache'[d].arstate = "PENDING"
        PROVE  LET q == arpcache'[d].arpid IN
               /\ q \in Tasks \ hasmsg'
               /\ call'[q].at = "arp" /\ call'[q].slot = d /\ ~call'[q].stale
               /\ call'[q].hop = arpcache'[d].arpaddr
    <3>1. d # e /\ arpcache'[d] = arpcache[d]
      BY <1>2, <2>1
    <3>2. LET q == arpcache[d].arpid IN
          /\ q \in Tasks \ hasmsg
          /\ call[q].at = "arp" /\ call[q].slot = d /\ ~call[q].stale
          /\ call[q].hop = arpcache[d].arpaddr
      BY <1>1, <2>1, <3>1 DEF CacheInv, ArpNamed
    <3>3. /\ call'[arpcache[d].arpid] = call[arpcache[d].arpid]
          /\ arpcache[d].arpid \notin hasmsg'
      BY <1>3, <1>4, <3>1, <3>2
    <3> QED
      BY <3>1, <3>2, <3>3
  <2> QED
    BY <2>1 DEF ArpNamed
<1>8. ArpUnique'
  BY <1>1, <1>2 DEF CacheInv, ArpUnique
<1>9. ArpTrue'
  BY <1>1, <1>2 DEF CacheInv, ArpTrue
<1> QED
  BY <1>2, <1>6, <1>7, <1>8, <1>9 DEF CacheInv

\* arp_resolve after recvtime: an answer, another try, or the end.
LEMMA ArpResumed ==
  ASSUME NInv, NEW p \in Tasks, arp_resolveResumed(p), UNCHANGED <<udpVars, icmpVars>>
  PROVE  NInv'
<1> DEFINE c == call[p]
           b == [call[p] EXCEPT !.i = @ + 1]
           m == [call[p] EXCEPT !.mac = arpcache[call[p].slot].arhaddr]
<1>1. /\ astray = "no" /\ c.at = "arp" /\ call \in [Tasks -> CallType]
      /\ c \in CallType /\ CallOK(c) /\ free \in Nat /\ PoolInv
  BY Running DEF arp_resolveResumed
<1>2. c.bufs = 1 /\ c.hop \in Addresses /\ c.slot \in Entries /\ c.hop \notin Broadcasts
      /\ c.bufs \in Nat
  BY <1>1, CallFields DEF CallOK, BufsAt
<1>3. /\ ipvalid' = ipvalid /\ astray' = astray /\ udptab' = udptab /\ icmptab' = icmptab
      /\ iqueue' = iqueue /\ iqsem' = iqsem /\ hasmsg' = hasmsg \ {p}
  BY DEF arp_resolveResumed, udpVars, icmpVars, Received
<1>4. /\ arpcache \in [Entries -> ArpEntry] /\ hasmsg \subseteq Tasks /\ CacheInv
  BY DEF NInv, TypeOK
<1>5. \/ /\ p \notin hasmsg /\ c.i + 1 < ARP_RETRY
         /\ Block(p, b, "arp") /\ UNCHANGED <<arpcache, bufVars>>
      \/ /\ p \notin hasmsg /\ arpcache' = GivenUp(c.slot) /\ Drop(p)
      \/ /\ p \in hasmsg /\ Goto(p, m, "ip_out") /\ UNCHANGED <<arpcache, bufVars>>
  BY DEF arp_resolveResumed, Timeout
<1>6. /\ hasmsg' \subseteq Tasks /\ ArpStepKeeps
      /\ \A q \in Tasks : call[q].at \in {"udp", "icmp"} => (q \in hasmsg' <=> q \in hasmsg)
  BY <1>1, <1>3, <1>4 DEF ArpStepKeeps
<1>7. call[p].at \notin {"udp", "icmp", "ipout"} /\ call[p].at # "getbuf"
  BY <1>1
<1>8. CASE /\ p \notin hasmsg /\ c.i + 1 < ARP_RETRY
           /\ Block(p, b, "arp") /\ UNCHANGED <<arpcache, bufVars>>
  <2> DEFINE e == [b EXCEPT !.at = "arp"]
  <2>1. /\ b \in CallType /\ b.next = c.next /\ b.bufs = c.bufs
        /\ b.hop = c.hop /\ b.slot = c.slot /\ b.stale = c.stale
    BY <1>1, <1>8, TriedSet
  <2>2. "arp" \in Places
    BY DEF Places
  <2>3. call' = [call EXCEPT ![p] = e] /\ cpu' = "any"
    BY <1>8 DEF Block
  <2> HIDE DEF b
  <2>4. /\ e \in CallType /\ e.at = "arp" /\ e.next = c.next /\ e.bufs = c.bufs
        /\ e.hop = c.hop /\ e.slot = c.slot /\ e.stale = c.stale
    BY <2>1, <2>2, AtSet
  <2> HIDE DEF e
  <2>5. MovesAlone(p, e)
    BY <2>3 DEF MovesAlone
  <2>6. Moves(p, e) /\ \A q \in Tasks \ {p} : call'[q] = call[q]
    BY <1>1, <2>5, AloneMoves
  <2>7. CallOK(e)
    BY <1>1, <1>2, <2>4 DEF CallOK, BufsAt, Waiting
  <2>8. Getting' = Getting
    <3>1. Getting' = Getting \ {p}
      BY <1>1, <2>4, <2>6, MovesGetting
    <3> QED
      BY <1>1, <3>1 DEF Getting
  <2>9. PoolInv' /\ free' = free
    BY <1>1, <1>8, <2>8, PoolKept
  <2>10. CacheInv'
    <3>1. hasmsg' = hasmsg /\ arpcache' = arpcache
      BY <1>3, <1>8
    <3> QED
      BY <1>1, <2>4, <2>5, <3>1, CacheAsked
  <2>11. free' + e.bufs = free + call[p].bufs /\ free' \in Int /\ free' >= 0
    BY <1>1, <2>4, <2>9
  <2>12. arpcache' \in [Entries -> ArpEntry] /\ e.at \notin {"udp", "icmp", "ipout"}
    BY <1>4, <1>8, <2>4
  <2> QED
    BY <1>1, <1>6, <1>7, <2>3, <2>4, <2>6, <2>7, <2>9, <2>10, <2>11, <2>12, Looks
<1>9. CASE p \notin hasmsg /\ arpcache' = GivenUp(c.slot) /\ Drop(p)
  <2>1. /\ Idle \in CallType /\ CallOK(Idle) /\ Idle.at = "start" /\ Idle.bufs = 0
    BY IdleTyped
  <2>2. MovesAlone(p, Idle) /\ cpu' = "any" /\ freebuf(c.bufs)
    BY <1>9 DEF Drop, Return, MovesAlone
  <2>3. Moves(p, Idle) /\ \A q \in Tasks \ {p} : call'[q] = call[q]
    BY <1>1, <2>2, AloneMoves
  <2>4. Getting' = Getting
    <3>1. Getting' = Getting \ {p}
      BY <1>1, <2>1, <2>3, MovesGetting
    <3> QED
      BY <1>1, <3>1 DEF Getting
  <2>5. PoolInv' /\ free' = free + c.bufs
    BY <1>1, <1>2, <2>2, <2>4, PoolFreed
  <2>6. CacheInv' /\ arpcache' \in [Entries -> ArpEntry]
    <3>1. hasmsg' = hasmsg
      BY <1>3, <1>9
    <3> QED
      BY <1>1, <1>9, <2>1, <2>2, <3>1, CacheGivenUp
  <2>7. free' + Idle.bufs = free + call[p].bufs /\ free' \in Int /\ free' >= 0
    BY <1>1, <1>2, <2>1, <2>5
  <2>8. Idle.at \notin {"udp", "icmp", "ipout"}
    BY <2>1
  <2> QED
    BY <1>1, <1>6, <1>7, <2>1, <2>2, <2>3, <2>5, <2>6, <2>7, <2>8, Looks
<1>10. CASE p \in hasmsg /\ Goto(p, m, "ip_out") /\ UNCHANGED <<arpcache, bufVars>>
  <2> DEFINE e == [m EXCEPT !.at = "ip_out"]
             h == arpcache[call[p].slot].arhaddr
  <2>0. h \in Addresses
    BY <1>2, <1>4 DEF ArpEntry
  <2>1. /\ m \in CallType /\ m.next = c.next /\ m.bufs = c.bufs
        /\ m.hop = c.hop /\ m.mac = h /\ m.stale = c.stale
    BY <1>1, <2>0, MacSet
  <2>2. "ip_out" \in Places
    BY DEF Places
  <2>3. call' = [call EXCEPT ![p] = e] /\ cpu' = p
    BY <1>10 DEF Goto
  <2> HIDE DEF m
  <2>4. /\ e \in CallType /\ e.at = "ip_out" /\ e.next = c.next /\ e.bufs = c.bufs
        /\ e.hop = c.hop /\ e.mac = h /\ e.stale = c.stale
    BY <2>1, <2>2, AtSet
  <2> HIDE DEF e
  <2>5. MovesAlone(p, e)
    BY <2>3 DEF MovesAlone
  <2>6. Moves(p, e) /\ \A q \in Tasks \ {p} : call'[q] = call[q]
    BY <1>1, <2>5, AloneMoves
  <2>7. ~c.stale => h = c.hop
    BY <1>1, <1>2, <1>4, <1>10 DEF CacheInv, ArpWaits, ArpTrue
  <2> HIDE DEF h
  <2>8. CallOK(e)
    BY <1>2, <2>4, <2>7 DEF CallOK, BufsAt, Waiting
  <2>9. Getting' = Getting
    <3>1. Getting' = Getting \ {p}
      BY <1>1, <2>4, <2>6, MovesGetting
    <3> QED
      BY <1>1, <3>1 DEF Getting
  <2>10. PoolInv' /\ free' = free
    BY <1>1, <1>10, <2>9, PoolKept
  <2>11. CacheInv'
    <3>1. hasmsg' = hasmsg \ {p} /\ arpcache' = arpcache
      BY <1>3, <1>10
    <3> QED
      BY <1>10, <2>4, <2>5, <3>1, CacheAnswered
  <2>12. free' + e.bufs = free + call[p].bufs /\ free' \in Int /\ free' >= 0
    BY <1>1, <2>4, <2>10
  <2>13. /\ arpcache' \in [Entries -> ArpEntry] /\ e.at \notin {"udp", "icmp", "ipout"}
         /\ e.at \in Going
    BY <1>4, <1>10, <2>4 DEF Going
  <2> QED
    BY <1>1, <1>6, <1>7, <2>3, <2>4, <2>6, <2>8, <2>10, <2>11, <2>12, <2>13, Looks
<1> QED
  BY <1>5, <1>8, <1>9, <1>10

\* arp_in learns an address and wakes who waits for it.
LEMMA ArpIn ==
  ASSUME NInv, NEW p \in Tasks, arp_in(p), UNCHANGED <<udpVars, icmpVars>>
  PROVE  NInv'
<1> DEFINE pk == call[p].pkt
           e == First(Found(call[p].pkt.src))
           s == First(Allocatable)
           x == [ArpFree EXCEPT !.arstate = "RESOLVED", !.arpaddr = call[p].pkt.src,
                                !.arhaddr = call[p].pkt.mac]
<1>1. /\ astray = "no" /\ call[p].at = "arp_in" /\ call \in [Tasks -> CallType]
      /\ call[p] \in CallType /\ CallOK(call[p]) /\ free \in Nat /\ PoolInv
  BY Running DEF arp_in
<1>2. call[p].bufs = 1 /\ pk \in Packets /\ pk.mac = pk.src
      /\ pk.src \in Addresses
  BY <1>1, CallFields, PacketTyped DEF CallOK, BufsAt
<1>3. /\ ipvalid' = ipvalid /\ astray' = astray /\ udptab' = udptab /\ icmptab' = icmptab
      /\ iqueue' = iqueue /\ iqsem' = iqsem /\ freebuf(1)
  BY <1>2 DEF arp_in, udpVars, icmpVars
<1>4. /\ arpcache \in [Entries -> ArpEntry] /\ hasmsg \subseteq Tasks /\ CacheInv
  BY DEF NInv, TypeOK
<1>5. \/ /\ Found(pk.src) # {} /\ arpcache' = Learned(e, pk)
         /\ hasmsg' = IF arpcache[e].arstate = "PENDING" THEN hasmsg \cup {arpcache[e].arpid}
                      ELSE hasmsg
         /\ Return(p)
      \/ /\ Found(pk.src) = {} /\ Allocatable # {}
         /\ arpcache' = [arpcache EXCEPT ![s] = x]
         /\ call' = [Robbed("arp", s) EXCEPT ![p] = Idle]
         /\ cpu' = "any" /\ hasmsg' = hasmsg
      \/ Return(p) /\ UNCHANGED <<arpcache, hasmsg>>
  BY DEF arp_in, send
<1>6. /\ Idle \in CallType /\ CallOK(Idle) /\ Idle.at = "start" /\ Idle.bufs = 0
      /\ Idle.at \notin {"udp", "icmp", "ipout"} /\ call[p].at \notin {"udp", "icmp", "ipout"}
  BY <1>1, IdleTyped
<1>7. ArpStepKeeps
  BY <1>3 DEF ArpStepKeeps
<1>8. ASSUME Moves(p, Idle)
      PROVE  /\ PoolInv' /\ free' \in Int /\ free' >= 0
             /\ free' + Idle.bufs = free + call[p].bufs
  <2>1. Getting' = Getting
    <3>1. Getting' = Getting \ {p}
      BY <1>1, <1>6, <1>8, MovesGetting
    <3> QED
      BY <1>1, <3>1 DEF Getting
  <2>2. PoolInv' /\ free' = free + 1
    BY <1>1, <1>3, <2>1, PoolFreed
  <2> QED
    BY <1>1, <1>2, <1>6, <2>2
<1> HIDE DEF pk, e, s, x
<1>9. CASE /\ Found(pk.src) # {} /\ arpcache' = Learned(e, pk)
           /\ hasmsg' = IF arpcache[e].arstate = "PENDING" THEN hasmsg \cup {arpcache[e].arpid}
                        ELSE hasmsg
           /\ Return(p)
  <2>1. e \in Entries /\ arpcache[e].arstate # "FREE" /\ arpcache[e].arpaddr = pk.src
    BY <1>9, FoundEntry DEF e, pk
  <2>2. MovesAlone(p, Idle) /\ cpu' = "any"
    BY <1>9 DEF Return, MovesAlone
  <2>3. Moves(p, Idle) /\ \A q \in Tasks \ {p} : call'[q] = call[q]
    BY <1>1, <2>2, AloneMoves
  <2>4. CacheInv' /\ arpcache' \in [Entries -> ArpEntry]
    BY <1>1, <1>2, <1>6, <1>9, <2>1, <2>2, CacheLearned
  <2>5. arpcache[e].arstate = "PENDING" =>
           arpcache[e].arpid \in Tasks /\ call[arpcache[e].arpid].at = "arp"
    BY <1>4, <2>1 DEF CacheInv, ArpNamed
  <2>6. hasmsg' \subseteq Tasks
    BY <1>4, <1>9, <2>5
  <2>7. \A q \in Tasks : call[q].at \in {"udp", "icmp"} => (q \in hasmsg' <=> q \in hasmsg)
    BY <1>9, <2>5
  <2> QED
    BY <1>1, <1>6, <1>7, <1>8, <2>2, <2>3, <2>4, <2>6, <2>7, Looks
<1>10. CASE /\ Found(pk.src) = {} /\ Allocatable # {}
            /\ arpcache' = [arpcache EXCEPT ![s] = x]
            /\ call' = [Robbed("arp", s) EXCEPT ![p] = Idle]
            /\ cpu' = "any" /\ hasmsg' = hasmsg
  <2>1. s \in Entries /\ arpcache[s].arstate # "PENDING"
    BY <1>10, SlotTaken DEF s
  <2>2. /\ x \in ArpEntry /\ x.arstate = "RESOLVED" /\ x.arpaddr = pk.src /\ x.arhaddr = pk.src
    BY <1>2 DEF x, ArpFree, ArpEntry, pk
  <2>3. "arp" \in Waiting
    BY DEF Waiting
  <2>4. Moves(p, Idle) /\ Robs(p, "arp", s)
    BY <1>1, <1>10, <2>3, RobbedMoves
  <2>5. \A d \in Entries : arpcache[d].arstate # "FREE" => arpcache[d].arpaddr # x.arpaddr
    BY <1>10, <2>2 DEF Found
  <2>6. CacheInv'
    BY <1>1, <1>6, <1>10, <2>1, <2>2, <2>4, <2>5, CacheTaken
  <2>7. arpcache' \in [Entries -> ArpEntry] /\ hasmsg' \subseteq Tasks
    BY <1>4, <1>10, <2>2
  <2>8. \A q \in Tasks \ {p} : call[q].at # "arp" => call'[q] = call[q]
    BY <2>4 DEF Robs
  <2>9. \A q \in Tasks : call[q].at \in {"udp", "icmp"} => (q \in hasmsg' <=> q \in hasmsg)
    BY <1>10
  <2> QED
    BY <1>1, <1>6, <1>7, <1>8, <1>10, <2>4, <2>6, <2>7, <2>8, <2>9, Looks
<1>11. CASE Return(p) /\ UNCHANGED <<arpcache, hasmsg>>
  <2>1. TablesKept /\ freebuf(call[p].bufs)
    BY <1>2, <1>3, <1>11 DEF TablesKept
  <2> QED
    BY <1>1, <1>11, <2>1, GivesUp DEF Waiting
<1> QED
  BY <1>5, <1>9, <1>10, <1>11

----------------------------------------------------------------------------
\* UDP.

\* The pool after a step that asks for no buffer.
LEMMA PoolAfter ==
  ASSUME NInv, NEW p \in Tasks, NEW c \in CallType, Moves(p, c),
         call[p].at # "getbuf", c.at # "getbuf"
  PROVE  /\ UNCHANGED bufVars => PoolInv' /\ free' = free
         /\ \A n \in Nat : freebuf(n) => PoolInv' /\ free' = free + n
<1>1. call \in [Tasks -> CallType] /\ free \in Int /\ PoolInv
  BY NbufsNat DEF NInv, TypeOK
<1>2. Getting' = Getting
  <2>1. Getting' = Getting \ {p}
    BY <1>1, MovesGetting
  <2> QED
    BY <2>1 DEF Getting
<1>3. UNCHANGED bufVars => PoolInv' /\ free' = free
  BY <1>1, <1>2, PoolKept
<1>4. \A n \in Nat : freebuf(n) => PoolInv' /\ free' = free + n
  BY <1>1, <1>2, PoolFreed
<1> QED
  BY <1>3, <1>4

\* The packets in a slot match it and fit in it.
UdpSound(x) ==
    /\ x.udstate = "FREE" => x.queue = << >>
    /\ Len(x.queue) <= UDP_QSIZ
    /\ \A k \in 1..Len(x.queue) : /\ x.queue[k].dport = x.locport
                                  /\ x.remip \in {"any", x.queue[k].src}

\* What slot x has for process q, which waits there.
UdpServes(x, q) ==
    IF q \in hasmsg' THEN x.udstate = "USED" /\ x.queue # << >>
    ELSE x.udstate = "RECV" /\ x.udpid = q /\ x.queue = << >>

\* The type of a UDP slot, and what it holds.
LEMMA UdpSlots ==
  ASSUME NInv, NEW s \in USlots
  PROVE  /\ udptab \in [USlots -> UdpEntry] /\ udptab[s] \in UdpEntry /\ UdpSound(udptab[s])
         /\ udptab[s].queue \in Seq(Packets) /\ Len(udptab[s].queue) \in Nat
<1>1. udptab \in [USlots -> UdpEntry] /\ UdpFits
  BY DEF NInv, TypeOK, EndpointInv
<1>2. udptab[s].queue \in Seq(Packets)
  BY <1>1 DEF UdpEntry
<1> QED
  BY <1>1, <1>2, LenProperties DEF UdpFits, UdpSound

\* A slot changes, and processes that do not wait there go on waiting.
LEMMA UdpSlotChanged ==
  ASSUME NInv, astray = "no", NEW p \in Tasks, NEW c \in CallType, NEW s \in USlots,
         NEW x \in UdpEntry, Moves(p, c), udptab' = [udptab EXCEPT ![s] = x],
         call[p].at = "udp" => call[p].slot = s,
         \A q \in Tasks \ {p} : call[q].at # "udp" \/ call[q].slot # s =>
             call'[q] = call[q] /\ (q \in hasmsg' <=> q \in hasmsg),
         \A q \in Tasks \ {p} : call[q].at = "udp" /\ call[q].slot = s /\ ~call'[q].stale =>
             UdpServes(x, q),
         c.at = "udp" => c.slot = s /\ ~c.stale /\ p \notin hasmsg' /\ UdpServes(x, p),
         x.udstate = "RECV" => c.at = "udp" /\ x.udpid = p
  PROVE  UdpWaits' /\ UdpNamed'
<1>1. /\ call \in [Tasks -> CallType] /\ udptab \in [USlots -> UdpEntry]
      /\ UdpWaits /\ UdpNamed
  BY DEF NInv, TypeOK, EndpointInv
<1>2. /\ udptab'[s] = x /\ \A t \in USlots \ {s} : udptab'[t] = udptab[t]
  BY <1>1
<1>3. call'[p] = c
  BY DEF Moves
<1>4. UdpWaits'
  <2>1. ASSUME NEW q \in Tasks, call'[q].at = "udp", ~call'[q].stale
        PROVE  LET e == udptab'[call'[q].slot] IN
               IF q \in hasmsg' THEN e.udstate = "USED" /\ e.queue # << >>
               ELSE e.udstate = "RECV" /\ e.udpid = q /\ e.queue = << >>
    <3>1. CASE q = p
      BY <1>2, <1>3, <2>1, <3>1 DEF UdpServes
    <3>2. CASE q # p
      <4>1. call'[q].at = call[q].at /\ call'[q].slot = call[q].slot
        BY <1>1, <3>2, MovesTyped
      <4>2. CASE call[q].slot = s
        BY <1>2, <2>1, <3>2, <4>1, <4>2 DEF UdpServes
      <4>3. CASE call[q].slot # s
        <5>1. call'[q] = call[q] /\ (q \in hasmsg' <=> q \in hasmsg)
          BY <3>2, <4>3
        <5>2. call[q].slot \in USlots
          BY <2>1, <4>1 DEF NInv, CallInv, CallOK
        <5> QED
          BY <1>1, <1>2, <2>1, <4>3, <5>1, <5>2 DEF UdpWaits
      <4> QED
        BY <4>2, <4>3
    <3> QED
      BY <3>1, <3>2
  <2> QED
    BY <2>1 DEF UdpWaits
<1>5. UdpNamed'
  <2>1. ASSUME NEW t \in USlots, udptab'[t].udstate = "RECV"
        PROVE  LET q == udptab'[t].udpid IN
               /\ q \in Tasks \ hasmsg'
               /\ call'[q].at = "udp" /\ call'[q].slot = t /\ ~call'[q].stale
    <3>1. CASE t = s
      BY <1>2, <1>3, <2>1, <3>1
    <3>2. CASE t # s
      <4>1. udptab'[t] = udptab[t]
        BY <1>2, <3>2
      <4>2. LET q == udptab[t].udpid IN
            /\ q \in Tasks \ hasmsg
            /\ call[q].at = "udp" /\ call[q].slot = t /\ ~call[q].stale
        BY <1>1, <2>1, <4>1 DEF UdpNamed
      <4>3. LET q == udptab[t].udpid IN
            q # p /\ call'[q] = call[q] /\ (q \in hasmsg' <=> q \in hasmsg)
        BY <3>2, <4>2
      <4> QED
        BY <4>1, <4>2, <4>3
    <3> QED
      BY <3>1, <3>2
  <2> QED
    BY <2>1 DEF UdpNamed
<1> QED
  BY <1>4, <1>5

UdpStepKeeps == UNCHANGED <<ipvalid, arpcache, icmptab, iqueue, iqsem>>

\* What a step on one slot has to show.
LEMMA UdpStep ==
  ASSUME NInv, astray = "no", NEW p \in Tasks, NEW c \in CallType, NEW s \in USlots,
         NEW x \in UdpEntry, Moves(p, c), CallOK(c), cpu' = "any",
         call[p].at \notin {"arp", "icmp", "ipout"}, c.at \notin {"arp", "icmp", "ipout"},
         \A q \in Tasks \ {p} : call[q].at # "udp" \/ call[q].slot # s =>
             call'[q] = call[q] /\ (q \in hasmsg' <=> q \in hasmsg),
         hasmsg' \subseteq Tasks, UdpStepKeeps, astray' \in {"no", "stale", "overrun"},
         udptab' = [udptab EXCEPT ![s] = x], UdpSound(x),
         astray' = "no" => UdpWaits' /\ UdpNamed',
         PoolInv', free' \in Int, free' >= 0,
         free' + c.bufs + Len(x.queue) = free + call[p].bufs + Len(udptab[s].queue)
  PROVE  NInv'
<1>1. /\ call \in [Tasks -> CallType] /\ free \in Int
      /\ udptab \in [USlots -> UdpEntry] /\ arpcache \in [Entries -> ArpEntry]
      /\ icmptab \in [ISlots -> IcmpEntry] /\ iqueue \in Seq(Packets)
      /\ iqsem.count <= IP_OQSIZ
  BY NbufsNat DEF NInv, TypeOK
<1>2. /\ ipvalid' = ipvalid /\ arpcache' = arpcache /\ icmptab' = icmptab
      /\ iqueue' = iqueue /\ iqsem' = iqsem
  BY DEF UdpStepKeeps
<1>3. /\ \A q \in Tasks \ {p} : call[q].at = "arp" => call'[q] = call[q]
      /\ \A q \in Tasks : call[q].at = "arp" => (q \in hasmsg' <=> q \in hasmsg)
      /\ \A q \in Tasks \ {p} : call[q].at = "icmp" => call'[q] = call[q]
      /\ \A q \in Tasks : call[q].at = "icmp" => (q \in hasmsg' <=> q \in hasmsg)
  OBVIOUS
<1>4. CacheInv'
  BY <1>1, <1>2, <1>3, CacheFrame DEF NInv
<1>5. IcmpWaits' /\ IcmpNamed' /\ IcmpFits'
  BY <1>1, <1>2, <1>3, IcmpFrame DEF NInv, EndpointInv
<1>6. /\ udptab'[s] = x /\ \A t \in USlots \ {s} : udptab'[t] = udptab[t]
      /\ udptab' \in [USlots -> UdpEntry]
  BY <1>1
<1>7. UdpFits'
  <2>1. UdpFits
    BY DEF NInv, EndpointInv
  <2>2. ASSUME NEW t \in USlots PROVE UdpSound(udptab'[t])
    <3>1. CASE t = s
      BY <1>6, <3>1
    <3>2. CASE t # s
      BY <1>6, <2>1, <3>2 DEF UdpFits, UdpSound
    <3> QED
      BY <3>1, <3>2
  <2> QED
    BY <2>2 DEF UdpFits, UdpSound
<1>8. EndpointInv'
  BY <1>5, <1>7 DEF EndpointInv
<1>9. OutInv'
  BY <1>1, <1>2, OutFrame DEF NInv
<1>10. Balanced(p, c)
  <2>1. InUdp' = InUdp - Len(udptab[s].queue) + Len(x.queue)
    BY <1>1, <1>6, UdpChange
  <2>2. InUdp \in Nat /\ InIcmp \in Nat /\ Len(iqueue) \in Nat /\ Len(udptab[s].queue) \in Nat
    BY <1>1, UdpCount, IcmpCount, LenProperties
  <2>3. x.queue \in Seq(Packets)
    BY DEF UdpEntry
  <2>4. Len(x.queue) \in Nat
    BY <2>3, LenProperties
  <2>5. InIcmp' = InIcmp
    BY <1>2 DEF InIcmp
  <2>6. PICK b \in Int, k \in Int, f \in Int, g \in Int :
           b = call[p].bufs /\ k = c.bufs /\ f = free /\ g = free'
    <3>1. call[p].bufs \in Int /\ c.bufs \in Int
      BY <1>1, CallFields
    <3> QED
      BY <1>1, <3>1
  <2>a. PICK u \in Int, v \in Int, i \in Int :
           u = InUdp /\ i = InIcmp /\ v = Len(iqueue)
    BY <2>2
  <2>b. PICK m \in Int, n \in Int :
           m = Len(udptab[s].queue) /\ n = Len(x.queue)
    BY <2>2, <2>4
  <2>7. g + k + n = f + b + m
    BY <2>6, <2>b
  <2>8. g + k + ((u - m + n) + i + v) = f + b + (u + i + v)
    BY <2>7
  <2>9. Stored = u + i + v /\ Stored' = (u - m + n) + i + v
    BY <1>2, <2>1, <2>5, <2>a, <2>b DEF Stored
  <2> QED
    BY <2>6, <2>8, <2>9 DEF Balanced
<1>11. /\ iqueue' \in Seq(Packets) /\ arpcache' \in [Entries -> ArpEntry]
       /\ icmptab' \in [ISlots -> IcmpEntry] /\ iqsem'.count <= IP_OQSIZ
  BY <1>1, <1>2
<1> QED
  BY <1>2, <1>4, <1>6, <1>8, <1>9, <1>10, <1>11, Assembled

\* Who waits at a slot, as far as nothing has gone astray.
LEMMA UdpWaiting ==
  ASSUME NInv, astray = "no", NEW q \in Tasks, call[q].at = "udp", ~call[q].stale
  PROVE  /\ call[q].slot \in USlots
         /\ LET e == udptab[call[q].slot] IN
            IF q \in hasmsg THEN e.udstate = "USED" /\ e.queue # << >>
            ELSE e.udstate = "RECV" /\ e.udpid = q /\ e.queue = << >>
BY DEF NInv, EndpointInv, UdpWaits, CallInv, CallOK

\* A queue with one packet more.
LEMMA OneMore ==
  ASSUME NEW q \in Seq(Packets), NEW v \in Packets
  PROVE  LET u == Append(q, v) IN
         /\ u \in Seq(Packets) /\ Len(u) = Len(q) + 1 /\ u # << >>
         /\ \A k \in 1..Len(u) : u[k] = IF k <= Len(q) THEN q[k] ELSE v
OBVIOUS

\* A queue with one packet less.
LEMMA OneLess ==
  ASSUME NEW q \in Seq(Packets), q # << >>
  PROVE  LET u == Tail(q) IN
         /\ u \in Seq(Packets) /\ Len(u) = Len(q) - 1 /\ Len(q) \in Nat /\ Len(q) >= 1
         /\ u = << >> <=> Len(q) = 1
         /\ \A k \in 1..Len(u) : k + 1 \in 1..Len(q) /\ u[k] = q[k + 1]
<1> DEFINE u == Tail(q)
           n == Len(q)
<1>1. n \in Nat /\ n >= 1
  BY LenProperties, EmptySeq
<1>2. u \in Seq(Packets) /\ Len(u) = n - 1 /\ \A k \in 1..Len(u) : u[k] = q[k + 1]
  BY HeadTailProperties
<1> HIDE DEF u, n
<1>3. u = << >> <=> Len(u) = 0
  BY <1>2, EmptySeq
<1> QED
  BY <1>1, <1>2, <1>3 DEF u, n

\* udp_in stores a datagram and wakes the receiver.
LEMMA UdpIn ==
  ASSUME NInv, NEW p \in Tasks, udp_in(p), UNCHANGED <<arpVars, icmpVars>>
  PROVE  NInv'
<1> DEFINE pk == call[p].pkt
           fit == {s \in USlots : Matches(udptab[s], pk) /\ Len(udptab[s].queue) < UDP_QSIZ}
           s == Least(fit)
           w == Woken(udptab[s])
           x == [udptab[s] EXCEPT !.queue = Append(@, pk),
                                  !.udstate = IF w THEN "USED" ELSE @]
<1>1. /\ astray = "no" /\ call[p].at = "udp_in" /\ call \in [Tasks -> CallType]
      /\ call[p] \in CallType /\ CallOK(call[p]) /\ free \in Nat
  BY Running DEF udp_in
<1>2. call[p].bufs = 1 /\ pk \in Packets
  BY <1>1, CallFields DEF CallOK, BufsAt
<1>3. /\ ipvalid' = ipvalid /\ astray' = astray /\ arpcache' = arpcache /\ icmptab' = icmptab
      /\ iqueue' = iqueue /\ iqsem' = iqsem
  BY DEF udp_in, arpVars, icmpVars
<1>4. \/ Drop(p) /\ UNCHANGED <<udptab, hasmsg>>
      \/ /\ fit # {}
         /\ udptab' = [udptab EXCEPT
                ![s].queue = Append(@, pk), ![s].udstate = IF w THEN "USED" ELSE @]
         /\ hasmsg' = IF w THEN hasmsg \cup {udptab[s].udpid} ELSE hasmsg
         /\ Return(p)
         /\ UNCHANGED bufVars
  BY DEF udp_in, send
<1>5. CASE Drop(p) /\ UNCHANGED <<udptab, hasmsg>>
  <2>1. TablesKept
    BY <1>3, <1>5 DEF TablesKept
  <2>2. freebuf(call[p].bufs) /\ Return(p)
    BY <1>5 DEF Drop
  <2> QED
    BY <1>1, <2>1, <2>2, GivesUp DEF Waiting
<1>6. CASE /\ fit # {}
           /\ udptab' = [udptab EXCEPT
                ![s].queue = Append(@, pk), ![s].udstate = IF w THEN "USED" ELSE @]
           /\ hasmsg' = IF w THEN hasmsg \cup {udptab[s].udpid} ELSE hasmsg
           /\ Return(p)
           /\ UNCHANGED bufVars
  <2>1. s \in USlots /\ Matches(udptab[s], pk) /\ Len(udptab[s].queue) < UDP_QSIZ
    <3>1. fit \subseteq Nat
      BY Constants
    <3>2. s \in fit
      BY <1>6, <3>1, FirstIn
    <3> QED
      BY <3>2
  <2>2. /\ udptab \in [USlots -> UdpEntry] /\ udptab[s] \in UdpEntry /\ UdpSound(udptab[s])
        /\ udptab[s].queue \in Seq(Packets) /\ Len(udptab[s].queue) \in Nat
    BY <2>1, UdpSlots
  <2>3. udptab' = [udptab EXCEPT ![s] = x]
    BY <1>6, <2>1, <2>2 DEF UdpEntry
  <2> DEFINE u == Append(udptab[s].queue, pk)
  <2>4. /\ u \in Seq(Packets) /\ Len(u) = Len(udptab[s].queue) + 1 /\ u # << >>
        /\ \A k \in 1..Len(u) : u[k] = IF k <= Len(udptab[s].queue) THEN udptab[s].queue[k] ELSE pk
    BY <1>2, <2>2, OneMore
  <2>5. /\ x \in UdpEntry /\ x.queue = u /\ x.udpid = udptab[s].udpid
        /\ x.udstate = IF w THEN "USED" ELSE udptab[s].udstate
        /\ x.remip = udptab[s].remip /\ x.locport = udptab[s].locport
    BY <2>2, <2>4 DEF UdpEntry
  <2>6. w <=> udptab[s].udstate = "RECV"
    BY DEF Woken
  <2>7. /\ udptab[s].udstate # "FREE" /\ pk.dport = udptab[s].locport
        /\ udptab[s].remip \in {"any", pk.src}
    BY <2>1 DEF Matches
  <2> HIDE DEF pk, fit, s, w, x, u
  <2>8. UdpSound(x)
    <3>1. Len(x.queue) <= UDP_QSIZ
      BY <2>1, <2>2, <2>4, <2>5, Constants
    <3>2. x.udstate # "FREE"
      BY <2>5, <2>7
    <3>3. ASSUME NEW k \in 1..Len(x.queue)
          PROVE x.queue[k].dport = x.locport /\ x.remip \in {"any", x.queue[k].src}
      <4>1. CASE k <= Len(udptab[s].queue)
        BY <2>2, <2>4, <2>5, <4>1 DEF UdpSound
      <4>2. CASE ~(k <= Len(udptab[s].queue))
        BY <2>4, <2>5, <2>7, <4>2
      <4> QED
        BY <4>1, <4>2
    <3> QED
      BY <3>1, <3>2, <3>3 DEF UdpSound
  <2>9. MovesAlone(p, Idle) /\ cpu' = "any"
    BY <1>6 DEF Return, MovesAlone
  <2>10. Moves(p, Idle) /\ \A q \in Tasks \ {p} : call'[q] = call[q]
    BY <1>1, <2>9, AloneMoves
  <2>11. /\ Idle \in CallType /\ CallOK(Idle) /\ Idle.at = "start" /\ Idle.bufs = 0
    BY IdleTyped
  <2>12. w => LET q == udptab[s].udpid IN
              q \in Tasks \ hasmsg /\ call[q].at = "udp" /\ call[q].slot = s
    BY <1>1, <2>1, <2>6 DEF NInv, EndpointInv, UdpNamed
  <2>13. \A q \in Tasks \ {p} : call[q].at # "udp" \/ call[q].slot # s =>
             call'[q] = call[q] /\ (q \in hasmsg' <=> q \in hasmsg)
    BY <1>6, <2>10, <2>12
  <2>14. hasmsg' \subseteq Tasks
    BY <1>6, <2>12 DEF NInv, TypeOK
  <2>15. UdpWaits' /\ UdpNamed'
    <3>1. ASSUME NEW q \in Tasks \ {p}, call[q].at = "udp" /\ call[q].slot = s /\ ~call'[q].stale
          PROVE  UdpServes(x, q)
      <4>1. ~call[q].stale
        BY <2>10, <3>1
      <4>2. IF q \in hasmsg THEN udptab[s].udstate = "USED"
            ELSE udptab[s].udstate = "RECV" /\ udptab[s].udpid = q
        BY <1>1, <3>1, <4>1, UdpWaiting
      <4> QED
        BY <1>6, <2>4, <2>5, <2>6, <4>2 DEF UdpServes
    <3>2. x.udstate # "RECV"
      BY <2>5, <2>6
    <3> QED
      BY <1>1, <2>1, <2>3, <2>5, <2>10, <2>11, <2>13, <3>1, <3>2, UdpSlotChanged
  <2>16. PoolInv' /\ free' = free
    BY <1>1, <1>6, <2>10, <2>11, PoolAfter
  <2>17. /\ free' + Idle.bufs + Len(x.queue) = free + call[p].bufs + Len(udptab[s].queue)
         /\ free' \in Int /\ free' >= 0
    <3>1. PICK m \in Nat : m = Len(udptab[s].queue) /\ Len(x.queue) = m + 1
      BY <2>2, <2>4, <2>5
    <3>2. PICK f \in Nat : f = free /\ f = free'
      BY <1>1, <2>16
    <3>3. f + 0 + (m + 1) = f + 1 + m
      OBVIOUS
    <3>4. free' + Idle.bufs + Len(x.queue) = free + call[p].bufs + Len(udptab[s].queue)
      BY <1>2, <2>11, <3>1, <3>2, <3>3
    <3> QED
      BY <3>2, <3>4
  <2>18. /\ UdpStepKeeps /\ astray' \in {"no", "stale", "overrun"}
         /\ call[p].at \notin {"arp", "icmp", "ipout"} /\ Idle.at \notin {"arp", "icmp", "ipout"}
    BY <1>1, <1>3, <2>11 DEF UdpStepKeeps
  <2> QED
    BY <1>1, <2>1, <2>3, <2>5, <2>8, <2>9, <2>10, <2>11, <2>13, <2>14, <2>15, <2>16, <2>17,
       <2>18, UdpStep
<1> QED
  BY <1>4, <1>5, <1>6

\* A call that leaves the processes where they are.
LEMMA StaysMoves ==
  ASSUME NEW p \in Tasks, call \in [Tasks -> CallType], call' = call
  PROVE  MovesAlone(p, call[p])
BY DEF MovesAlone

\* udp_register takes a free slot.
LEMMA UdpRegister ==
  ASSUME NInv, NEW p \in Tasks, NEW r \in Remotes, NEW l \in Ports,
         udp_register(p, r, 0, l), UNCHANGED <<arpVars, icmpVars>>
  PROVE  NInv'
<1> DEFINE unused == {s \in USlots : udptab[s].udstate = "FREE"}
           s == Least(unused)
           x == [udstate |-> "USED", remip |-> r, remport |-> 0, locport |-> l,
                 udpid |-> "none", queue |-> << >>]
           c == call[p]
<1>1. /\ astray = "no" /\ call[p].at = "start" /\ call \in [Tasks -> CallType]
      /\ c \in CallType /\ CallOK(c) /\ free \in Nat /\ cpu = "any"
  BY Running DEF udp_register, Going
<1>2. /\ ipvalid' = ipvalid /\ astray' = astray /\ arpcache' = arpcache /\ icmptab' = icmptab
      /\ iqueue' = iqueue /\ iqsem' = iqsem /\ hasmsg' = hasmsg /\ call' = call /\ cpu' = cpu
      /\ UNCHANGED bufVars /\ unused # {} /\ udptab' = [udptab EXCEPT ![s] = x]
  BY DEF udp_register, arpVars, icmpVars
<1>3. s \in USlots /\ udptab[s].udstate = "FREE"
  <2>1. unused \subseteq Nat
    BY Constants
  <2>2. s \in unused
    BY <1>2, <2>1, FirstIn
  <2> QED
    BY <2>2
<1>4. /\ x \in UdpEntry /\ x.queue = << >> /\ x.udstate = "USED"
  <2>1. r \in Addresses /\ l \in Nat
    BY UdpAssumption DEF Addresses
  <2> QED
    BY <2>1 DEF UdpEntry
<1>5. UdpSound(x)
  BY <1>4, Constants DEF UdpSound
<1>6. udptab[s].queue = << >>
  BY <1>3, UdpSlots DEF UdpSound
<1> HIDE DEF unused, s, x, c
<1>7. Moves(p, c) /\ \A q \in Tasks \ {p} : call'[q] = call[q]
  BY <1>1, <1>2, StaysMoves, AloneMoves DEF c
<1>8. UdpWaits' /\ UdpNamed'
  <2>1. ASSUME NEW q \in Tasks \ {p}, call[q].at = "udp" /\ call[q].slot = s /\ ~call'[q].stale
        PROVE  UdpServes(x, q)
    <3>1. ~call[q].stale
      BY <1>7, <2>1
    <3>2. udptab[s].udstate \in {"USED", "RECV"}
      BY <1>1, <2>1, <3>1, UdpWaiting
    <3> QED
      BY <1>3, <3>2
  <2>2. call[p].at # "udp" /\ c.at # "udp" /\ x.udstate # "RECV"
    BY <1>1, <1>4 DEF c
  <2>3. \A q \in Tasks \ {p} : call'[q] = call[q] /\ (q \in hasmsg' <=> q \in hasmsg)
    BY <1>2, <1>7
  <2>4. udptab' = [udptab EXCEPT ![s] = x]
    BY <1>2
  <2> QED
    BY <1>1, <1>3, <1>4, <1>7, <2>1, <2>2, <2>3, <2>4, UdpSlotChanged,
       ZenonT(60)
<1>9. PoolInv' /\ free' = free
  BY <1>1, <1>2, <1>7, PoolAfter DEF c
<1>10. /\ free' + c.bufs + Len(x.queue) = free + call[p].bufs + Len(udptab[s].queue)
       /\ free' \in Int /\ free' >= 0
  BY <1>1, <1>4, <1>6, <1>9 DEF c
<1>11. /\ UdpStepKeeps /\ astray' \in {"no", "stale", "overrun"} /\ hasmsg' \subseteq Tasks
       /\ call[p].at \notin {"arp", "icmp", "ipout"}
  BY <1>1, <1>2 DEF UdpStepKeeps, NInv, TypeOK
<1> QED
  BY <1>1, <1>2, <1>3, <1>4, <1>5, <1>7, <1>8, <1>9, <1>10, <1>11, UdpStep DEF c

\* A packet is taken from a slot.
LEMMA UdpDequeue ==
  ASSUME NInv, astray = "no", NEW p \in Tasks, NEW s \in USlots, udp_dequeue(p, s),
         udptab[s].queue # << >>, udptab[s].udstate = "USED",
         call[p].at \in {"start", "udp"}, call[p].at = "udp" => call[p].slot = s,
         hasmsg' = hasmsg \/ hasmsg' = hasmsg \ {p},
         UdpStepKeeps, astray' = astray
  PROVE  NInv'
<1> DEFINE x == [udptab[s] EXCEPT !.udstate = "USED", !.queue = Tail(@)]
           n == Len(udptab[s].queue)
<1>1. /\ call \in [Tasks -> CallType] /\ call[p] \in CallType /\ CallOK(call[p])
      /\ free \in Nat /\ hasmsg \subseteq Tasks
  BY NbufsNat DEF NInv, TypeOK, CallInv
<1>2. call[p].bufs = 0 /\ call[p].at # "getbuf"
  BY <1>1 DEF CallOK, BufsAt
<1>3. /\ udptab \in [USlots -> UdpEntry] /\ udptab[s] \in UdpEntry /\ UdpSound(udptab[s])
      /\ udptab[s].queue \in Seq(Packets) /\ n \in Nat
  BY UdpSlots
<1>4. LET u == Tail(udptab[s].queue) IN
      /\ u \in Seq(Packets) /\ Len(u) = n - 1 /\ n >= 1 /\ (u = << >> <=> n = 1)
      /\ \A k \in 1..Len(u) : k + 1 \in 1..n /\ u[k] = udptab[s].queue[k + 1]
  BY <1>3, OneLess
<1>5. /\ x \in UdpEntry /\ x.queue = Tail(udptab[s].queue) /\ x.udpid = udptab[s].udpid
      /\ x.udstate = "USED" /\ x.remip = udptab[s].remip /\ x.locport = udptab[s].locport
  BY <1>3, <1>4 DEF UdpEntry
<1>6. /\ udptab' = [udptab EXCEPT ![s] = x]
      /\ call' = [(IF n = 1 THEN Robbed("udp", s) ELSE call) EXCEPT ![p] = Idle]
      /\ cpu' = "any" /\ freebuf(1)
  BY <1>3 DEF udp_dequeue, UdpEntry
<1> HIDE DEF x, n
<1>7. UdpSound(x)
  <2>1. Len(x.queue) <= UDP_QSIZ
    <3>1. n <= UDP_QSIZ
      BY <1>3 DEF UdpSound, n
    <3> QED
      BY <1>3, <1>4, <1>5, <3>1, Constants
  <2>2. ASSUME NEW k \in 1..Len(x.queue)
        PROVE x.queue[k].dport = x.locport /\ x.remip \in {"any", x.queue[k].src}
    <3>1. k + 1 \in 1..Len(udptab[s].queue) /\ x.queue[k] = udptab[s].queue[k + 1]
      BY <1>4, <1>5 DEF n
    <3> QED
      BY <1>3, <1>5, <3>1 DEF UdpSound
  <2> QED
    BY <1>5, <2>1, <2>2 DEF UdpSound
<1>8. /\ Moves(p, Idle)
      /\ \A q \in Tasks \ {p} : call[q].at # "udp" \/ call[q].slot # s => call'[q] = call[q]
      /\ \A q \in Tasks \ {p} : call[q].at = "udp" /\ call[q].slot = s /\ ~call'[q].stale =>
             ~call[q].stale /\ n # 1
  <2>1. CASE n = 1
    <3>1. call' = [Robbed("udp", s) EXCEPT ![p] = Idle] /\ "udp" \in Waiting
      BY <1>6, <2>1 DEF Waiting
    <3>2. Moves(p, Idle) /\ Robs(p, "udp", s)
      BY <1>1, <3>1, RobbedMoves
    <3>3. ASSUME NEW q \in Tasks \ {p}, call[q].at = "udp", call[q].slot = s
          PROVE call'[q].stale
      <4>1. call[q] \in CallType
        BY <1>1
      <4>2. call'[q] = [call[q] EXCEPT !.stale = TRUE]
        BY <3>2, <3>3 DEF Robs
      <4> QED
        BY <4>1, <4>2, StaleSet
    <3> QED
      BY <3>2, <3>3 DEF Robs
  <2>2. CASE n # 1
    <3>1. MovesAlone(p, Idle)
      BY <1>6, <2>2 DEF MovesAlone
    <3>2. Moves(p, Idle) /\ \A q \in Tasks \ {p} : call'[q] = call[q]
      BY <1>1, <3>1, AloneMoves
    <3> QED
      BY <2>2, <3>2
  <2> QED
    BY <2>1, <2>2
<1>9. /\ Idle \in CallType /\ CallOK(Idle) /\ Idle.at = "start" /\ Idle.bufs = 0
  BY IdleTyped
<1>10. UdpWaits' /\ UdpNamed'
  <2>1. ASSUME NEW q \in Tasks \ {p}, call[q].at = "udp" /\ call[q].slot = s /\ ~call'[q].stale
        PROVE  UdpServes(x, q)
    <3>1. ~call[q].stale /\ n # 1
      BY <1>8, <2>1
    <3>2. q \in hasmsg
      BY <2>1, <3>1, UdpWaiting
    <3>3. x.queue # << >>
      BY <1>4, <1>5, <3>1
    <3> QED
      BY <1>5, <3>2, <3>3 DEF UdpServes
  <2>2. \A q \in Tasks \ {p} : call[q].at # "udp" \/ call[q].slot # s =>
             call'[q] = call[q] /\ (q \in hasmsg' <=> q \in hasmsg)
    BY <1>8
  <2>3. x.udstate # "RECV" /\ Idle.at # "udp"
    BY <1>5, <1>9
  <2> QED
    BY <1>5, <1>6, <1>8, <1>9, <2>1, <2>2, <2>3, UdpSlotChanged
<1>11. PoolInv' /\ free' = free + 1
  BY <1>2, <1>6, <1>8, <1>9, PoolAfter
<1>12. /\ free' + Idle.bufs + Len(x.queue) = free + call[p].bufs + Len(udptab[s].queue)
       /\ free' \in Int /\ free' >= 0
  <2>1. PICK m \in Nat : m = Len(udptab[s].queue) /\ Len(x.queue) = m - 1
    BY <1>3, <1>4, <1>5 DEF n
  <2>2. PICK f \in Nat : f = free /\ f + 1 = free'
    BY <1>1, <1>11
  <2>3. (f + 1) + 0 + (m - 1) = f + 0 + m
    OBVIOUS
  <2>4. free' + Idle.bufs + Len(x.queue) = free + call[p].bufs + Len(udptab[s].queue)
    BY <1>2, <1>9, <2>1, <2>2, <2>3
  <2> QED
    BY <2>2, <2>4
<1>13. /\ astray' \in {"no", "stale", "overrun"} /\ hasmsg' \subseteq Tasks
       /\ call[p].at \notin {"arp", "icmp", "ipout"} /\ Idle.at \notin {"arp", "icmp", "ipout"}
  BY <1>1, <1>9
<1>14. \A q \in Tasks \ {p} : call[q].at # "udp" \/ call[q].slot # s =>
          call'[q] = call[q] /\ (q \in hasmsg' <=> q \in hasmsg)
  BY <1>8
<1> QED
  BY <1>5, <1>6, <1>7, <1>8, <1>9, <1>10, <1>11, <1>12, <1>13, <1>14, UdpStep

\* udp_recv takes a packet or waits for one.
LEMMA UdpRecv ==
  ASSUME NInv, NEW p \in Tasks, NEW s \in USlots, udp_recv(p, s),
         UNCHANGED <<arpVars, icmpVars>>
  PROVE  NInv'
<1> DEFINE x == [udptab[s] EXCEPT !.udstate = "RECV", !.udpid = p]
           b == [Idle EXCEPT !.slot = s]
           e == [b EXCEPT !.at = "udp"]
<1>1. /\ astray = "no" /\ call[p].at = "start" /\ call \in [Tasks -> CallType]
      /\ call[p] \in CallType /\ CallOK(call[p]) /\ free \in Nat
  BY Running DEF udp_recv
<1>2. /\ UdpStepKeeps /\ astray' = astray /\ udptab[s].udstate = "USED"
  BY DEF udp_recv, arpVars, icmpVars, UdpStepKeeps
<1>3. \/ /\ udptab[s].queue = << >>
         /\ udptab' = [udptab EXCEPT ![s].udstate = "RECV", ![s].udpid = p]
         /\ hasmsg' = hasmsg \ {p}
         /\ Block(p, b, "udp")
         /\ UNCHANGED bufVars
      \/ udptab[s].queue # << >> /\ udp_dequeue(p, s) /\ hasmsg' = hasmsg
  BY DEF udp_recv
<1>4. CASE udptab[s].queue # << >> /\ udp_dequeue(p, s) /\ hasmsg' = hasmsg
  BY <1>1, <1>2, <1>4, UdpDequeue
<1>5. CASE /\ udptab[s].queue = << >>
           /\ udptab' = [udptab EXCEPT ![s].udstate = "RECV", ![s].udpid = p]
           /\ hasmsg' = hasmsg \ {p}
           /\ Block(p, b, "udp")
           /\ UNCHANGED bufVars
  <2>1. /\ udptab \in [USlots -> UdpEntry] /\ udptab[s] \in UdpEntry /\ UdpSound(udptab[s])
    BY UdpSlots
  <2>2. /\ udptab' = [udptab EXCEPT ![s] = x]
        /\ x \in UdpEntry /\ x.queue = << >> /\ x.udpid = p /\ x.udstate = "RECV"
    BY <1>5, <2>1 DEF UdpEntry
  <2>3. UdpSound(x)
    BY <2>2, Constants DEF UdpSound
  <2>4. b \in CallType /\ b.bufs = 0 /\ b.slot = s /\ ~b.stale
    BY IdleTyped, SlotSet, Constants
  <2>5. call' = [call EXCEPT ![p] = e] /\ cpu' = "any"
    BY <1>5 DEF Block
  <2> HIDE DEF b
  <2>6. /\ e \in CallType /\ e.at = "udp" /\ e.bufs = 0 /\ e.slot = s /\ ~e.stale
    BY <2>4, AtSet, ZenonT(60) DEF Places
  <2> HIDE DEF e, x
  <2>7. MovesAlone(p, e)
    BY <2>5 DEF MovesAlone
  <2>8. Moves(p, e) /\ \A q \in Tasks \ {p} : call'[q] = call[q]
    BY <1>1, <2>7, AloneMoves
  <2>9. CallOK(e)
    BY <2>6 DEF CallOK, BufsAt
  <2>10. \A q \in Tasks \ {p} : call[q].at # "udp" \/ call[q].slot # s =>
             call'[q] = call[q] /\ (q \in hasmsg' <=> q \in hasmsg)
    BY <1>5, <2>8
  <2>11. UdpWaits' /\ UdpNamed'
    <3>1. ASSUME NEW q \in Tasks \ {p}, call[q].at = "udp" /\ call[q].slot = s /\ ~call'[q].stale
          PROVE  UdpServes(x, q)
      <4>1. ~call[q].stale
        BY <2>8, <3>1
      <4>2. udptab[s].queue # << >> \/ udptab[s].udstate = "RECV"
        BY <1>1, <3>1, <4>1, UdpWaiting
      <4> QED
        BY <1>2, <1>5, <4>2
    <3>2. p \notin hasmsg' /\ UdpServes(x, p)
      BY <1>5, <2>2 DEF UdpServes
    <3> QED
      BY <1>1, <2>2, <2>6, <2>8, <2>10, <3>1, <3>2, UdpSlotChanged
  <2>12. PoolInv' /\ free' = free
    BY <1>1, <1>5, <2>6, <2>8, PoolAfter
  <2>13. call[p].bufs = 0
    BY <1>1 DEF CallOK, BufsAt
  <2>14. /\ free' + e.bufs + Len(x.queue) = free + call[p].bufs + Len(udptab[s].queue)
         /\ free' \in Int /\ free' >= 0
    BY <1>1, <1>5, <2>2, <2>6, <2>12, <2>13
  <2>15. /\ astray' \in {"no", "stale", "overrun"} /\ hasmsg' \subseteq Tasks
         /\ call[p].at \notin {"arp", "icmp", "ipout"} /\ e.at \notin {"arp", "icmp", "ipout"}
    BY <1>1, <1>2, <1>5, <2>6 DEF NInv, TypeOK
  <2> QED
    BY <1>1, <1>2, <2>2, <2>3, <2>5, <2>6, <2>8, <2>9, <2>10, <2>11, <2>12, <2>14, <2>15, UdpStep
<1> QED
  BY <1>3, <1>4, <1>5

\* A process leaves the slot at which it has waited; it may be another's by now.
LEMMA UdpLeaves ==
  ASSUME NInv, astray = "no", NEW p \in Tasks, call[p].at = "udp",
         udptab' = [udptab EXCEPT ![call[p].slot].udstate = "USED"],
         hasmsg' = hasmsg \ {p}, Return(p), UNCHANGED bufVars, UdpStepKeeps,
         \/ astray' = "stale"
         \/ astray' = "no" /\ p \notin hasmsg /\ ~call[p].stale
  PROVE  NInv'
<1> DEFINE s == call[p].slot
           x == [udptab[s] EXCEPT !.udstate = "USED"]
<1>1. /\ call \in [Tasks -> CallType] /\ call[p] \in CallType /\ CallOK(call[p])
      /\ free \in Nat /\ hasmsg \subseteq Tasks
  BY NbufsNat DEF NInv, TypeOK, CallInv
<1>2. s \in USlots /\ call[p].bufs = 0
  BY <1>1 DEF CallOK, BufsAt
<1>3. /\ udptab \in [USlots -> UdpEntry] /\ udptab[s] \in UdpEntry /\ UdpSound(udptab[s])
      /\ udptab[s].queue \in Seq(Packets) /\ Len(udptab[s].queue) \in Nat
  BY <1>2, UdpSlots
<1>4. /\ udptab' = [udptab EXCEPT ![s] = x]
      /\ x \in UdpEntry /\ x.queue = udptab[s].queue /\ x.udpid = udptab[s].udpid
      /\ x.udstate = "USED" /\ x.remip = udptab[s].remip /\ x.locport = udptab[s].locport
  BY <1>2, <1>3 DEF UdpEntry
<1> HIDE DEF x
<1>5. UdpSound(x)
  BY <1>3, <1>4 DEF UdpSound
<1>6. MovesAlone(p, Idle) /\ cpu' = "any"
  BY DEF Return, MovesAlone
<1>7. Moves(p, Idle) /\ \A q \in Tasks \ {p} : call'[q] = call[q]
  BY <1>1, <1>6, AloneMoves
<1>8. /\ Idle \in CallType /\ CallOK(Idle) /\ Idle.at = "start" /\ Idle.bufs = 0
  BY IdleTyped
<1>9. \A q \in Tasks \ {p} : call[q].at # "udp" \/ call[q].slot # s =>
         call'[q] = call[q] /\ (q \in hasmsg' <=> q \in hasmsg)
  BY <1>7
<1>10. astray' = "no" => UdpWaits' /\ UdpNamed'
  <2> SUFFICES ASSUME astray' = "no" PROVE UdpWaits' /\ UdpNamed'
    OBVIOUS
  <2>1. udptab[s].udstate = "RECV" /\ udptab[s].udpid = p
    BY UdpWaiting
  <2>2. ASSUME NEW q \in Tasks \ {p}, call[q].at = "udp" /\ call[q].slot = s /\ ~call'[q].stale
        PROVE  UdpServes(x, q)
    <3>1. ~call[q].stale
      BY <1>7, <2>2
    <3>2. udptab[s].udstate = "USED" \/ udptab[s].udpid = q
      BY <2>2, <3>1, UdpWaiting
    <3> QED
      BY <2>1, <3>2
  <2> QED
    BY <1>2, <1>4, <1>7, <1>8, <1>9, <2>2, UdpSlotChanged
<1>11. PoolInv' /\ free' = free
  BY <1>7, <1>8, PoolAfter
<1>12. /\ free' + Idle.bufs + Len(x.queue) = free + call[p].bufs + Len(udptab[s].queue)
       /\ free' \in Int /\ free' >= 0
  BY <1>1, <1>2, <1>4, <1>8, <1>11
<1>13. /\ astray' \in {"no", "stale", "overrun"} /\ hasmsg' \subseteq Tasks
       /\ call[p].at \notin {"arp", "icmp", "ipout"} /\ Idle.at \notin {"arp", "icmp", "ipout"}
  BY <1>1, <1>8
<1> QED
  BY <1>2, <1>4, <1>5, <1>6, <1>7, <1>8, <1>9, <1>10, <1>11, <1>12, <1>13, UdpStep

\* udp_recv after recvtime, with its slot as it was.
LEMMA UdpResumed ==
  ASSUME NInv, NEW p \in Tasks, udp_recvResumed(p), UNCHANGED <<arpVars, icmpVars>>
  PROVE  NInv'
<1> DEFINE s == call[p].slot
<1>1. astray = "no" /\ call[p].at = "udp" /\ CallOK(call[p])
  BY Running DEF udp_recvResumed
<1>2. /\ UdpStepKeeps /\ astray' = astray /\ ~call[p].stale /\ hasmsg' = hasmsg \ {p}
  BY DEF udp_recvResumed, arpVars, icmpVars, UdpStepKeeps, Received
<1>3. s \in USlots
  BY <1>1 DEF CallOK
<1>4. \/ /\ p \notin hasmsg /\ udptab' = [udptab EXCEPT ![s].udstate = "USED"]
         /\ Return(p) /\ UNCHANGED bufVars
      \/ p \in hasmsg /\ udp_dequeue(p, s)
  BY DEF udp_recvResumed, Timeout
<1>5. CASE /\ p \notin hasmsg /\ udptab' = [udptab EXCEPT ![s].udstate = "USED"]
           /\ Return(p) /\ UNCHANGED bufVars
  BY <1>1, <1>2, <1>5, UdpLeaves
<1>6. CASE p \in hasmsg /\ udp_dequeue(p, s)
  <2>1. udptab[s].udstate = "USED" /\ udptab[s].queue # << >>
    BY <1>1, <1>2, <1>6, UdpWaiting
  <2> QED
    BY <1>1, <1>2, <1>3, <1>6, <2>1, UdpDequeue
<1> QED
  BY <1>4, <1>5, <1>6

\* udp_recv after recvtime, when the slot or the packet is gone.
LEMMA UdpStale ==
  ASSUME NInv, NEW p \in Tasks, udp_recvStale(p), UNCHANGED <<arpVars, icmpVars>>
  PROVE  NInv'
<1>1. astray = "no" /\ call[p].at = "udp"
  BY Running DEF udp_recvStale
<1>2. /\ UdpStepKeeps /\ astray' = "stale" /\ hasmsg' = hasmsg \ {p} /\ Return(p)
      /\ UNCHANGED bufVars /\ udptab' = [udptab EXCEPT ![call[p].slot].udstate = "USED"]
  BY DEF udp_recvStale, arpVars, icmpVars, UdpStepKeeps, Received
<1> QED
  BY <1>1, <1>2, UdpLeaves

\* A datagram that a user makes.
LEMMA Datagram ==
  ASSUME NEW a \in Addresses, NEW m \in Nat, NEW n \in Nat
  PROVE  [NoPkt EXCEPT !.proto = "UDP", !.src = "me", !.dst = a, !.sport = m, !.dport = n]
            \in Packets
BY PacketTyped, ZenonT(60) DEF Packets, Addresses

\* A user asks for a buffer for packet pk.
LEMMA UserSends ==
  ASSUME NInv, NEW p \in Tasks, Runs(p, "start"), NEW pk \in Packets,
         getbuf(p, Idle, pk, "ip_send"), TablesKept
  PROVE  NInv'
<1>1. astray = "no" /\ call[p].at = "start" /\ CallOK(call[p])
  BY Running
<1>2. call[p].bufs = 0 /\ call[p].at \notin Waiting \cup {"ipout", "getbuf"}
  BY <1>1 DEF CallOK, BufsAt, Waiting
<1>3. Idle \in CallType /\ Idle.bufs = 0 /\ ~Idle.stale
  BY IdleTyped
<1> QED
  BY <1>1, <1>2, <1>3, AsksBuffer

\* udp_send asks for a buffer.
LEMMA UdpSend ==
  ASSUME NInv, NEW p \in Tasks, NEW s \in USlots, udp_send(p, s),
         UNCHANGED <<arpVars, icmpVars>>
  PROVE  NInv'
<1> DEFINE a == udptab[s].remip
           m == udptab[s].locport
           n == udptab[s].remport
           pk == [NoPkt EXCEPT !.proto = "UDP", !.src = "me", !.dst = a, !.sport = m, !.dport = n]
<1>1. a \in Addresses /\ m \in Nat /\ n \in Nat
  BY UdpSlots DEF UdpEntry
<1>2. pk \in Packets
  BY <1>1, Datagram
<1>3. Runs(p, "start") /\ getbuf(p, Idle, pk, "ip_send")
  BY DEF udp_send
<1>4. TablesKept
  BY DEF udp_send, TablesKept, arpVars, icmpVars
<1> QED
  BY <1>2, <1>3, <1>4, UserSends

\* So does udp_sendto.
LEMMA UdpSendto ==
  ASSUME NInv, NEW p \in Tasks, NEW s \in USlots, NEW a \in Dests, NEW n \in Ports,
         udp_sendto(p, s, a, n), UNCHANGED <<arpVars, icmpVars>>
  PROVE  NInv'
<1> DEFINE m == udptab[s].locport
           pk == [NoPkt EXCEPT !.proto = "UDP", !.src = "me", !.dst = a, !.sport = m, !.dport = n]
<1>0. m \in Nat
  BY UdpSlots DEF UdpEntry
<1>1. a \in Addresses /\ n \in Nat
  BY UdpAssumption DEF Addresses
<1>2. pk \in Packets
  BY <1>0, <1>1, Datagram
<1>3. Runs(p, "start") /\ getbuf(p, Idle, pk, "ip_send")
  BY DEF udp_sendto
<1>4. TablesKept
  BY DEF udp_sendto, TablesKept, arpVars, icmpVars
<1> QED
  BY <1>2, <1>3, <1>4, UserSends

\* udp_release gives back the packets of a slot.
LEMMA UdpRelease ==
  ASSUME NInv, NEW p \in Tasks, NEW s \in USlots, udp_release(p, s),
         UNCHANGED <<arpVars, icmpVars>>
  PROVE  NInv'
<1> DEFINE x == UdpFree
           c == call[p]
           n == Len(udptab[s].queue)
<1>1. /\ astray = "no" /\ call[p].at = "start" /\ call \in [Tasks -> CallType]
      /\ c \in CallType /\ CallOK(c) /\ free \in Nat /\ cpu = "any"
  BY Running DEF udp_release, Going
<1>2. /\ UdpStepKeeps /\ astray' = astray /\ hasmsg' = hasmsg /\ cpu' = cpu
      /\ call' = Robbed("udp", s) /\ udptab' = [udptab EXCEPT ![s] = x]
      /\ freebuf(n)
  BY DEF udp_release, arpVars, icmpVars, UdpStepKeeps, Returned
<1>3. n \in Nat
  BY UdpSlots
<1>4. /\ x \in UdpEntry /\ x.queue = << >> /\ x.udstate = "FREE" /\ Len(x.queue) = 0
  BY DEF UdpEntry, UdpFree, Addresses
<1>5. UdpSound(x)
  BY <1>4, Constants DEF UdpSound
<1> HIDE DEF x, n
<1>6. call' = [Robbed("udp", s) EXCEPT ![p] = c] /\ "udp" \in Waiting
  BY <1>1, <1>2 DEF Robbed, Waiting
<1> HIDE DEF c
<1>7. Moves(p, c) /\ Robs(p, "udp", s)
  BY <1>1, <1>6, RobbedMoves
<1>8. \A q \in Tasks \ {p} : call[q].at # "udp" \/ call[q].slot # s =>
         call'[q] = call[q] /\ (q \in hasmsg' <=> q \in hasmsg)
  BY <1>2, <1>7 DEF Robs
<1>9. UdpWaits' /\ UdpNamed'
  <2>1. ASSUME NEW q \in Tasks \ {p}, call[q].at = "udp" /\ call[q].slot = s /\ ~call'[q].stale
        PROVE  UdpServes(x, q)
    <3>1. call[q] \in CallType
      BY <1>1
    <3>2. call'[q] = [call[q] EXCEPT !.stale = TRUE]
      BY <1>7, <2>1 DEF Robs
    <3> QED
      BY <2>1, <3>1, <3>2, StaleSet
  <2>2. c.at # "udp" /\ x.udstate # "RECV"
    BY <1>1, <1>4 DEF c
  <2> QED
    BY <1>1, <1>2, <1>4, <1>7, <1>8, <2>1, <2>2, UdpSlotChanged
<1>10. PoolInv' /\ free' = free + n
  BY <1>1, <1>2, <1>3, <1>7, PoolAfter DEF c
<1>11. /\ free' + c.bufs + Len(x.queue) = free + call[p].bufs + Len(udptab[s].queue)
       /\ free' \in Int /\ free' >= 0
  <2>1. PICK m \in Nat, b \in Nat : m = Len(udptab[s].queue) /\ b = c.bufs /\ b = call[p].bufs
    BY <1>1, <1>3, CallFields DEF n, c
  <2>2. PICK f \in Nat : f = free /\ f + m = free'
    BY <1>1, <1>10, <2>1 DEF n
  <2>3. (f + m) + b + 0 = f + b + m
    OBVIOUS
  <2>4. free' + c.bufs + Len(x.queue) = free + call[p].bufs + Len(udptab[s].queue)
    BY <1>4, <2>1, <2>2, <2>3
  <2> QED
    BY <2>2, <2>4
<1>12. /\ astray' \in {"no", "stale", "overrun"} /\ hasmsg' \subseteq Tasks
       /\ call[p].at \notin {"arp", "icmp", "ipout"} /\ c.at \notin {"arp", "icmp", "ipout"}
  BY <1>1, <1>2 DEF c, NInv, TypeOK
<1> QED
  BY <1>1, <1>2, <1>4, <1>5, <1>7, <1>8, <1>9, <1>10, <1>11, <1>12, UdpStep

----------------------------------------------------------------------------
\* ICMP, whose slots have no look at their length.

\* The replies in a slot come from its host.
IcmpSound(x) ==
    /\ x.icstate = "FREE" => x.queue = << >>
    /\ \A k \in 1..Len(x.queue) : x.queue[k].src = x.icremip

\* What slot x has for process q, which waits there.
IcmpServes(x, q) ==
    IF q \in hasmsg' THEN x.icstate = "USED" /\ x.queue # << >>
    ELSE x.icstate = "RECV" /\ x.icpid = q /\ x.queue = << >>

\* The type of an ICMP slot, and what it holds.
LEMMA IcmpSlots ==
  ASSUME NInv, NEW s \in ISlots
  PROVE  /\ icmptab \in [ISlots -> IcmpEntry] /\ icmptab[s] \in IcmpEntry /\ IcmpSound(icmptab[s])
         /\ icmptab[s].queue \in Seq(Packets) /\ Len(icmptab[s].queue) \in Nat
<1>1. icmptab \in [ISlots -> IcmpEntry] /\ IcmpFits
  BY DEF NInv, TypeOK, EndpointInv
<1>2. icmptab[s].queue \in Seq(Packets)
  BY <1>1 DEF IcmpEntry
<1> QED
  BY <1>1, <1>2, LenProperties DEF IcmpFits, IcmpSound

\* A slot changes, and processes that do not wait there go on waiting.
LEMMA IcmpSlotChanged ==
  ASSUME NInv, astray = "no", NEW p \in Tasks, NEW c \in CallType, NEW s \in ISlots,
         NEW x \in IcmpEntry, Moves(p, c), icmptab' = [icmptab EXCEPT ![s] = x],
         call[p].at = "icmp" => call[p].slot = s,
         \A q \in Tasks \ {p} : call[q].at # "icmp" \/ call[q].slot # s =>
             call'[q] = call[q] /\ (q \in hasmsg' <=> q \in hasmsg),
         \A q \in Tasks \ {p} : call[q].at = "icmp" /\ call[q].slot = s /\ ~call'[q].stale =>
             IcmpServes(x, q),
         c.at = "icmp" => c.slot = s /\ ~c.stale /\ p \notin hasmsg' /\ IcmpServes(x, p),
         x.icstate = "RECV" => c.at = "icmp" /\ x.icpid = p
  PROVE  IcmpWaits' /\ IcmpNamed'
<1>1. /\ call \in [Tasks -> CallType] /\ icmptab \in [ISlots -> IcmpEntry]
      /\ IcmpWaits /\ IcmpNamed
  BY DEF NInv, TypeOK, EndpointInv
<1>2. /\ icmptab'[s] = x /\ \A t \in ISlots \ {s} : icmptab'[t] = icmptab[t]
  BY <1>1
<1>3. call'[p] = c
  BY DEF Moves
<1>4. IcmpWaits'
  <2>1. ASSUME NEW q \in Tasks, call'[q].at = "icmp", ~call'[q].stale
        PROVE  LET e == icmptab'[call'[q].slot] IN
               IF q \in hasmsg' THEN e.icstate = "USED" /\ e.queue # << >>
               ELSE e.icstate = "RECV" /\ e.icpid = q /\ e.queue = << >>
    <3>1. CASE q = p
      BY <1>2, <1>3, <2>1, <3>1 DEF IcmpServes
    <3>2. CASE q # p
      <4>1. call'[q].at = call[q].at /\ call'[q].slot = call[q].slot
        BY <1>1, <3>2, MovesTyped
      <4>2. CASE call[q].slot = s
        BY <1>2, <2>1, <3>2, <4>1, <4>2 DEF IcmpServes
      <4>3. CASE call[q].slot # s
        <5>1. call'[q] = call[q] /\ (q \in hasmsg' <=> q \in hasmsg)
          BY <3>2, <4>3
        <5>2. call[q].slot \in ISlots
          BY <2>1, <4>1 DEF NInv, CallInv, CallOK
        <5> QED
          BY <1>1, <1>2, <2>1, <4>3, <5>1, <5>2 DEF IcmpWaits
      <4> QED
        BY <4>2, <4>3
    <3> QED
      BY <3>1, <3>2
  <2> QED
    BY <2>1 DEF IcmpWaits
<1>5. IcmpNamed'
  <2>1. ASSUME NEW t \in ISlots, icmptab'[t].icstate = "RECV"
        PROVE  LET q == icmptab'[t].icpid IN
               /\ q \in Tasks \ hasmsg'
               /\ call'[q].at = "icmp" /\ call'[q].slot = t /\ ~call'[q].stale
    <3>1. CASE t = s
      BY <1>2, <1>3, <2>1, <3>1
    <3>2. CASE t # s
      <4>1. icmptab'[t] = icmptab[t]
        BY <1>2, <3>2
      <4>2. LET q == icmptab[t].icpid IN
            /\ q \in Tasks \ hasmsg
            /\ call[q].at = "icmp" /\ call[q].slot = t /\ ~call[q].stale
        BY <1>1, <2>1, <4>1 DEF IcmpNamed
      <4>3. LET q == icmptab[t].icpid IN
            q # p /\ call'[q] = call[q] /\ (q \in hasmsg' <=> q \in hasmsg)
        BY <3>2, <4>2
      <4> QED
        BY <4>1, <4>2, <4>3
    <3> QED
      BY <3>1, <3>2
  <2> QED
    BY <2>1 DEF IcmpNamed
<1> QED
  BY <1>4, <1>5

IcmpStepKeeps == UNCHANGED <<ipvalid, arpcache, udptab, iqueue, iqsem>>

\* What a step on one slot has to show.
LEMMA IcmpStep ==
  ASSUME NInv, astray = "no", NEW p \in Tasks, NEW c \in CallType, NEW s \in ISlots,
         NEW x \in IcmpEntry, Moves(p, c), CallOK(c), cpu' = "any",
         call[p].at \notin {"arp", "udp", "ipout"}, c.at \notin {"arp", "udp", "ipout"},
         \A q \in Tasks \ {p} : call[q].at # "icmp" \/ call[q].slot # s =>
             call'[q] = call[q] /\ (q \in hasmsg' <=> q \in hasmsg),
         hasmsg' \subseteq Tasks, IcmpStepKeeps, astray' \in {"no", "stale", "overrun"},
         icmptab' = [icmptab EXCEPT ![s] = x], IcmpSound(x),
         astray' = "no" => IcmpWaits' /\ IcmpNamed',
         PoolInv', free' \in Int, free' >= 0,
         free' + c.bufs + Len(x.queue) = free + call[p].bufs + Len(icmptab[s].queue)
  PROVE  NInv'
<1>1. /\ call \in [Tasks -> CallType] /\ free \in Int
      /\ icmptab \in [ISlots -> IcmpEntry] /\ arpcache \in [Entries -> ArpEntry]
      /\ udptab \in [USlots -> UdpEntry] /\ iqueue \in Seq(Packets)
      /\ iqsem.count <= IP_OQSIZ
  BY NbufsNat DEF NInv, TypeOK
<1>2. /\ ipvalid' = ipvalid /\ arpcache' = arpcache /\ udptab' = udptab
      /\ iqueue' = iqueue /\ iqsem' = iqsem
  BY DEF IcmpStepKeeps
<1>3. /\ \A q \in Tasks \ {p} : call[q].at = "arp" => call'[q] = call[q]
      /\ \A q \in Tasks : call[q].at = "arp" => (q \in hasmsg' <=> q \in hasmsg)
      /\ \A q \in Tasks \ {p} : call[q].at = "udp" => call'[q] = call[q]
      /\ \A q \in Tasks : call[q].at = "udp" => (q \in hasmsg' <=> q \in hasmsg)
  OBVIOUS
<1>4. CacheInv'
  BY <1>1, <1>2, <1>3, CacheFrame DEF NInv
<1>5. UdpWaits' /\ UdpNamed' /\ UdpFits'
  BY <1>1, <1>2, <1>3, UdpFrame DEF NInv, EndpointInv
<1>6. /\ icmptab'[s] = x /\ \A t \in ISlots \ {s} : icmptab'[t] = icmptab[t]
      /\ icmptab' \in [ISlots -> IcmpEntry]
  BY <1>1
<1>7. IcmpFits'
  <2>1. IcmpFits
    BY DEF NInv, EndpointInv
  <2>2. ASSUME NEW t \in ISlots PROVE IcmpSound(icmptab'[t])
    <3>1. CASE t = s
      BY <1>6, <3>1
    <3>2. CASE t # s
      BY <1>6, <2>1, <3>2 DEF IcmpFits, IcmpSound
    <3> QED
      BY <3>1, <3>2
  <2> QED
    BY <2>2 DEF IcmpFits, IcmpSound
<1>8. EndpointInv'
  BY <1>5, <1>7 DEF EndpointInv
<1>9. OutInv'
  BY <1>1, <1>2, OutFrame DEF NInv
<1>10. Balanced(p, c)
  <2>1. InIcmp' = InIcmp - Len(icmptab[s].queue) + Len(x.queue)
    BY <1>1, <1>6, IcmpChange
  <2>2. InIcmp \in Nat /\ InUdp \in Nat /\ Len(iqueue) \in Nat /\ Len(icmptab[s].queue) \in Nat
    BY <1>1, IcmpCount, UdpCount, LenProperties
  <2>3. x.queue \in Seq(Packets)
    BY DEF IcmpEntry
  <2>4. Len(x.queue) \in Nat
    BY <2>3, LenProperties
  <2>5. InUdp' = InUdp
    BY <1>2 DEF InUdp
  <2>6. PICK b \in Int, k \in Int, f \in Int, g \in Int :
           b = call[p].bufs /\ k = c.bufs /\ f = free /\ g = free'
    <3>1. call[p].bufs \in Int /\ c.bufs \in Int
      BY <1>1, CallFields
    <3> QED
      BY <1>1, <3>1
  <2>a. PICK u \in Int, v \in Int, i \in Int :
           u = InIcmp /\ i = InUdp /\ v = Len(iqueue)
    BY <2>2
  <2>b. PICK m \in Int, n \in Int :
           m = Len(icmptab[s].queue) /\ n = Len(x.queue)
    BY <2>2, <2>4
  <2>7. g + k + n = f + b + m
    BY <2>6, <2>b
  <2>8. g + k + ((u - m + n) + i + v) = f + b + (u + i + v)
    BY <2>7
  <2>9. Stored = u + i + v /\ Stored' = (u - m + n) + i + v
    BY <1>2, <2>1, <2>5, <2>a, <2>b DEF Stored
  <2> QED
    BY <2>6, <2>8, <2>9 DEF Balanced
<1>11. /\ iqueue' \in Seq(Packets) /\ arpcache' \in [Entries -> ArpEntry]
       /\ udptab' \in [USlots -> UdpEntry] /\ iqsem'.count <= IP_OQSIZ
  BY <1>1, <1>2
<1> QED
  BY <1>2, <1>4, <1>6, <1>8, <1>9, <1>10, <1>11, Assembled

\* Who waits at a slot, as far as nothing has gone astray.
LEMMA IcmpWaiting ==
  ASSUME NInv, astray = "no", NEW q \in Tasks, call[q].at = "icmp", ~call[q].stale
  PROVE  /\ call[q].slot \in ISlots
         /\ LET e == icmptab[call[q].slot] IN
            IF q \in hasmsg THEN e.icstate = "USED" /\ e.queue # << >>
            ELSE e.icstate = "RECV" /\ e.icpid = q /\ e.queue = << >>
BY DEF NInv, EndpointInv, IcmpWaits, CallInv, CallOK

\* An echo request or reply that a process makes.
LEMMA EchoMade ==
  ASSUME NEW a \in Addresses, NEW n \in Nat, NEW t \in {"REQ", "REPLY"}
  PROVE  [NoPkt EXCEPT !.proto = "ICMP", !.type = t, !.src = "me", !.dst = a, !.ident = n]
            \in Packets
BY PacketTyped, ZenonT(60) DEF Packets, Addresses

\* A slot that stores one packet more from its host stays sound.
LEMMA SoundAppended ==
  ASSUME NEW e \in IcmpEntry, IcmpSound(e), NEW v \in Packets, v.src = e.icremip,
         NEW x \in IcmpEntry, x.queue = Append(e.queue, v),
         x.icremip = e.icremip, x.icstate = "USED"
  PROVE  IcmpSound(x)
<1>1. e.queue \in Seq(Packets)
  BY DEF IcmpEntry
<1> DEFINE q == e.queue
           u == Append(q, v)
<1>2. \A k \in 1..Len(u) : u[k] = IF k <= Len(q) THEN q[k] ELSE v
  BY <1>1, OneMore
<1>3. \A k \in 1..Len(q) : q[k].src = e.icremip
  BY DEF IcmpSound
<1>4. x.queue = u
  OBVIOUS
<1>5. PICK n \in Nat : n = Len(q)
  BY <1>1, LenProperties
<1> HIDE DEF q, u
<1>6. ASSUME NEW k \in 1..Len(u) PROVE u[k].src = x.icremip
  <2>1. CASE k <= n
    <3>1. k \in 1..n
      BY <2>1
    <3> QED
      BY <1>2, <1>3, <1>5, <2>1, <3>1
  <2>2. CASE ~(k <= n)
    BY <1>2, <1>5, <2>2
  <2> QED
    BY <2>1, <2>2
<1> QED
  BY <1>4, <1>6 DEF IcmpSound

\* A reply goes to the slot of who expects it.
LEMMA ReplyStored ==
  ASSUME NInv, astray = "no", NEW p \in Tasks, call[p].at = "icmp_in",
         NEW s \in ISlots, s = call[p].pkt.ident,
         icmptab[s].icstate # "FREE", call[p].pkt.src = icmptab[s].icremip,
         icmptab' = [icmptab EXCEPT ![s].queue = Append(@, call[p].pkt), ![s].icstate = "USED"],
         hasmsg' = IF icmptab[s].icstate = "RECV" THEN hasmsg \cup {icmptab[s].icpid} ELSE hasmsg,
         astray' \in {"no", "overrun"}, Return(p), UNCHANGED bufVars, IcmpStepKeeps
  PROVE  NInv'
<1> DEFINE pk == call[p].pkt
           x == [icmptab[s] EXCEPT !.queue = Append(@, pk), !.icstate = "USED"]
           u == Append(icmptab[s].queue, pk)
<1>1. /\ call \in [Tasks -> CallType] /\ call[p] \in CallType /\ CallOK(call[p])
      /\ free \in Nat /\ hasmsg \subseteq Tasks
  <2>1. TypeOK /\ CallInv
    BY DEF NInv
  <2>2. call \in [Tasks -> CallType] /\ hasmsg \subseteq Tasks /\ free \in 0..NBUFS
    BY <2>1 DEF TypeOK
  <2> QED
    BY <2>1, <2>2, NbufsNat DEF CallInv
<1>2. call[p].bufs = 1 /\ pk \in Packets
  BY <1>1, CallFields DEF CallOK, BufsAt
<1>3. /\ icmptab \in [ISlots -> IcmpEntry] /\ icmptab[s] \in IcmpEntry /\ IcmpSound(icmptab[s])
      /\ icmptab[s].queue \in Seq(Packets) /\ Len(icmptab[s].queue) \in Nat
  BY IcmpSlots
<1>4. icmptab' = [icmptab EXCEPT ![s] = x]
  BY <1>3 DEF IcmpEntry
<1>5. /\ u \in Seq(Packets) /\ Len(u) = Len(icmptab[s].queue) + 1 /\ u # << >>
      /\ \A k \in 1..Len(u) : u[k] = IF k <= Len(icmptab[s].queue) THEN icmptab[s].queue[k] ELSE pk
  BY <1>2, <1>3, OneMore
<1>6. /\ x \in IcmpEntry /\ x.queue = u /\ x.icpid = icmptab[s].icpid
      /\ x.icstate = "USED" /\ x.icremip = icmptab[s].icremip
  BY <1>3, <1>5 DEF IcmpEntry
<1>7. pk.src = icmptab[s].icremip
  OBVIOUS
<1> HIDE DEF pk, x, u
<1>8. IcmpSound(x)
  BY <1>2, <1>3, <1>6, <1>7, SoundAppended DEF u
<1>9. MovesAlone(p, Idle) /\ cpu' = "any"
  BY DEF Return, MovesAlone
<1>10. Moves(p, Idle) /\ \A q \in Tasks \ {p} : call'[q] = call[q]
  BY <1>1, <1>9, AloneMoves
<1>11. /\ Idle \in CallType /\ CallOK(Idle) /\ Idle.at = "start" /\ Idle.bufs = 0
  BY IdleTyped
<1>12. icmptab[s].icstate = "RECV" => LET q == icmptab[s].icpid IN
            q \in Tasks \ hasmsg /\ call[q].at = "icmp" /\ call[q].slot = s
  BY DEF NInv, EndpointInv, IcmpNamed
<1>13. \A q \in Tasks \ {p} : call[q].at # "icmp" \/ call[q].slot # s =>
          call'[q] = call[q] /\ (q \in hasmsg' <=> q \in hasmsg)
  BY <1>10, <1>12
<1>14. hasmsg' \subseteq Tasks
  BY <1>1, <1>12
<1>15. IcmpWaits' /\ IcmpNamed'
  <2>1. ASSUME NEW q \in Tasks \ {p}, call[q].at = "icmp" /\ call[q].slot = s /\ ~call'[q].stale
        PROVE  IcmpServes(x, q)
    <3>1. ~call[q].stale
      BY <1>10, <2>1
    <3>2. IF q \in hasmsg THEN icmptab[s].icstate = "USED"
          ELSE icmptab[s].icstate = "RECV" /\ icmptab[s].icpid = q
      BY <2>1, <3>1, IcmpWaiting
    <3> QED
      BY <1>5, <1>6, <3>2 DEF IcmpServes
  <2>2. x.icstate # "RECV"
    BY <1>6
  <2> QED
    BY <1>4, <1>6, <1>10, <1>11, <1>13, <2>1, <2>2, IcmpSlotChanged
<1>16. PoolInv' /\ free' = free
  BY <1>10, <1>11, PoolAfter
<1>17. /\ free' + Idle.bufs + Len(x.queue) = free + call[p].bufs + Len(icmptab[s].queue)
       /\ free' \in Int /\ free' >= 0
  <2>1. PICK m \in Nat : m = Len(icmptab[s].queue) /\ Len(x.queue) = m + 1
    BY <1>3, <1>5, <1>6
  <2>2. PICK f \in Nat : f = free /\ f = free'
    BY <1>1, <1>16
  <2>3. f + 0 + (m + 1) = f + 1 + m
    BY ONLY f \in Nat, m \in Nat
  <2>4. free' + Idle.bufs + Len(x.queue) = free + call[p].bufs + Len(icmptab[s].queue)
    BY <1>2, <1>11, <2>1, <2>2, <2>3
  <2>5. f \in Int /\ f >= 0
    BY ONLY f \in Nat
  <2> QED
    BY ONLY <2>2, <2>4, <2>5
<1>18. /\ astray' \in {"no", "stale", "overrun"}
       /\ call[p].at \notin {"arp", "udp", "ipout"} /\ Idle.at \notin {"arp", "udp", "ipout"}
  BY <1>11
<1> QED
  BY <1>4, <1>6, <1>8, <1>9, <1>10, <1>11, <1>13, <1>14, <1>15, <1>16, <1>17, <1>18, IcmpStep

\* icmp_in answers a request, or stores a reply and wakes the receiver.
LEMMA IcmpIn ==
  ASSUME NInv, NEW p \in Tasks, icmp_in(p), UNCHANGED <<arpVars, udpVars>>
  PROVE  NInv'
<1> DEFINE c == call[p]
           s == call[p].pkt.ident
           pk == [NoPkt EXCEPT !.proto = "ICMP", !.type = "REPLY", !.src = "me",
                    !.dst = c.pkt.src, !.ident = s]
<1>1. /\ astray = "no" /\ c.at = "icmp_in" /\ call \in [Tasks -> CallType]
      /\ c \in CallType /\ CallOK(c) /\ free \in Nat
  BY Running DEF icmp_in
<1>2. /\ c.bufs = 1 /\ ~c.stale /\ c.pkt.src \in Addresses /\ s \in Nat
      /\ c.at \notin Waiting \cup {"ipout", "getbuf"}
  BY <1>1, CallFields, PacketTyped DEF CallOK, BufsAt, Waiting
<1>3. /\ IcmpStepKeeps
      /\ ipvalid' = ipvalid /\ arpcache' = arpcache /\ udptab' = udptab
      /\ iqueue' = iqueue /\ iqsem' = iqsem
  BY DEF icmp_in, arpVars, udpVars, IcmpStepKeeps
<1>4. \/ getbuf(p, c, pk, "ip_enqueue") /\ UNCHANGED <<icmptab, hasmsg, astray>>
      \/ /\ Expected(c.pkt)
         /\ icmptab' = [icmptab EXCEPT ![s].queue = Append(@, c.pkt), ![s].icstate = "USED"]
         /\ hasmsg' = IF icmptab[s].icstate = "RECV" THEN hasmsg \cup {icmptab[s].icpid}
                      ELSE hasmsg
         /\ astray' = IF Len(icmptab[s].queue) >= ICMP_QSIZ THEN "overrun" ELSE astray
         /\ Return(p) /\ UNCHANGED bufVars
      \/ Drop(p) /\ UNCHANGED <<icmptab, hasmsg, astray>>
  BY DEF icmp_in, icmp_mkpkt, send
<1>5. CASE getbuf(p, c, pk, "ip_enqueue") /\ UNCHANGED <<icmptab, hasmsg, astray>>
  <2>1. TablesKept
    BY <1>3, <1>5 DEF TablesKept
  <2>2. pk \in Packets
    BY <1>2, EchoMade
  <2> QED
    BY <1>1, <1>2, <1>5, <2>1, <2>2, AsksBuffer
<1>6. CASE /\ Expected(c.pkt)
           /\ icmptab' = [icmptab EXCEPT ![s].queue = Append(@, c.pkt), ![s].icstate = "USED"]
           /\ hasmsg' = IF icmptab[s].icstate = "RECV" THEN hasmsg \cup {icmptab[s].icpid}
                        ELSE hasmsg
           /\ astray' = IF Len(icmptab[s].queue) >= ICMP_QSIZ THEN "overrun" ELSE astray
           /\ Return(p) /\ UNCHANGED bufVars
  <2>1. s \in ISlots /\ icmptab[s].icstate # "FREE" /\ c.pkt.src = icmptab[s].icremip
    BY <1>6 DEF Expected
  <2>2. astray' \in {"no", "overrun"}
    BY <1>1, <1>6
  <2> QED
    BY <1>1, <1>3, <1>6, <2>1, <2>2, ReplyStored
<1>7. CASE Drop(p) /\ UNCHANGED <<icmptab, hasmsg, astray>>
  <2>1. TablesKept
    BY <1>3, <1>7 DEF TablesKept
  <2>2. freebuf(call[p].bufs) /\ Return(p)
    BY <1>7 DEF Drop
  <2> QED
    BY <1>1, <1>2, <2>1, <2>2, GivesUp
<1> QED
  BY <1>4, <1>5, <1>6, <1>7

\* The reply to an echo request goes to the output queue, if it has room.
LEMMA IpEnqueue ==
  ASSUME NInv, NEW p \in Tasks, ip_enqueue(p), UNCHANGED <<arpVars, udpVars>>
  PROVE  NInv'
<1> DEFINE c == call[p]
           y == signal(iqsem)
           u == Append(iqueue, call[p].pkt)
<1>1. /\ astray = "no" /\ c.at = "ip_enqueue" /\ call \in [Tasks -> CallType]
      /\ c \in CallType /\ CallOK(c) /\ free \in Nat
  BY Running DEF ip_enqueue
<1>2. /\ c.bufs = 2 /\ c.pkt \in Packets /\ c.at \notin Waiting \cup {"ipout", "getbuf"}
  BY <1>1, CallFields DEF CallOK, BufsAt, Waiting
<1>3. /\ ipvalid' = ipvalid /\ hasmsg' = hasmsg /\ arpcache' = arpcache
      /\ udptab' = udptab /\ icmptab' = icmptab /\ Return(p)
  BY DEF ip_enqueue, arpVars, udpVars
<1>4. \/ freebuf(2) /\ UNCHANGED <<iqueue, iqsem, astray>>
      \/ /\ ~OutputFull /\ iqueue' = u /\ iqsem' = y
         /\ astray' = IF Len(iqueue) >= IP_OQSIZ THEN "overrun" ELSE astray
         /\ freebuf(1)
  BY DEF ip_enqueue
<1>5. CASE freebuf(2) /\ UNCHANGED <<iqueue, iqsem, astray>>
  <2>1. TablesKept
    BY <1>3, <1>5 DEF TablesKept
  <2> QED
    BY <1>1, <1>2, <1>3, <1>5, <2>1, GivesUp
<1>6. CASE /\ ~OutputFull /\ iqueue' = u /\ iqsem' = y
           /\ astray' = IF Len(iqueue) >= IP_OQSIZ THEN "overrun" ELSE astray
           /\ freebuf(1)
  <2>1. OutInv /\ iqueue \in Seq(Packets) /\ IP_OQSIZ \in Nat
    BY Constants DEF NInv, TypeOK
  <2>2. /\ iqsem \in SemType(Tasks) /\ SemSound(iqsem) /\ iqsem.used /\ iqsem.count \in Int
        /\ Len(iqueue) \in Nat /\ (iqsem.count < 0 => iqsem.count = -1)
    BY <1>1, <2>1, OutSound
  <2>3. /\ y \in SemType(Tasks) /\ SemSound(y) /\ y.used = iqsem.used
        /\ y.count = iqsem.count + 1
    <3>1. 1 \in Nat
      OBVIOUS
    <3> QED
      <4>1. LET z == Sem!signaln(iqsem, 1) IN
            /\ z \in SemType(Tasks) /\ SemSound(z) /\ z.used = iqsem.used
            /\ z.count = iqsem.count + 1
        <5>1. iqsem \in SemType(Tasks) /\ SemSound(iqsem) /\ iqsem.used
          BY <2>2
        <5> QED
          BY ONLY <3>1, <5>1, SignalnSem, ZenonT(60)
      <4>2. signal(iqsem) = Sem!signaln(iqsem, 1)
        BY SameSem DEF signal
      <4> QED
        BY <4>1, <4>2, Zenon
  <2>4. u \in Seq(Packets) /\ Len(u) = Len(iqueue) + 1
    BY <1>2, <2>1, OneMore
  <2> HIDE DEF u, y
  <2>5. y.count >= 0 /\ y.count \in Int
    BY <2>2, <2>3
  <2>6. y.queue = << >>
    <3>1. Len(y.queue) = 0 /\ y.queue \in Seq(Tasks)
      BY <2>2, <2>3, <2>5 DEF SemSound, SemType
    <3> QED
      BY <3>1, EmptySeq
  <2>7. MovesAlone(p, Idle) /\ cpu' = "any"
    BY <1>3 DEF Return, MovesAlone
  <2>8. Moves(p, Idle)
    BY <1>1, <2>7, AloneMoves
  <2>9. /\ Idle \in CallType /\ CallOK(Idle) /\ Idle.at = "start" /\ Idle.bufs = 0
    BY IdleTyped
  <2>10. call'["ipout"].at = "ipout" <=> call["ipout"].at = "ipout"
    <3>1. CASE p = "ipout"
      BY <1>2, <2>8, <2>9, <3>1 DEF Moves
    <3>2. CASE p # "ipout"
      BY <1>1, <2>8, <2>9, <3>2, MovesTyped, Constants
    <3> QED
      BY <3>1, <3>2
  <2>11. OutInv'
    <3>1. iqsem'.count = Len(iqueue') - IF call'["ipout"].at = "ipout" THEN 1 ELSE 0
      <4>1. PICK n \in Nat, k \in Int : n = Len(iqueue) /\ k = iqsem.count
        BY <2>2
      <4>2. k = n - IF call["ipout"].at = "ipout" THEN 1 ELSE 0
        BY <2>1, <4>1 DEF OutInv
      <4>3. k + 1 = (n + 1) - IF call'["ipout"].at = "ipout" THEN 1 ELSE 0
        BY <2>10, <4>2
      <4> QED
        BY <1>6, <2>3, <2>4, <4>1, <4>3
    <3> QED
      BY <1>6, <2>2, <2>3, <2>5, <2>6, <3>1 DEF OutInv
  <2>12. PoolInv' /\ free' = free + 1
    BY <1>2, <1>6, <2>8, <2>9, PoolAfter
  <2>13. /\ free' + Idle.bufs + Len(iqueue') = free + call[p].bufs + Len(iqueue)
         /\ free' \in Int /\ free' >= 0
    <3>1. PICK m \in Nat : m = Len(iqueue) /\ Len(iqueue') = m + 1
      BY <1>6, <2>2, <2>4
    <3>2. PICK f \in Nat : f = free /\ f + 1 = free'
      BY <1>1, <2>12
    <3>3. (f + 1) + 0 + (m + 1) = f + 2 + m
      OBVIOUS
    <3>4. free' + Idle.bufs + Len(iqueue') = free + call[p].bufs + Len(iqueue)
      BY <1>2, <2>9, <3>1, <3>2, <3>3
    <3> QED
      BY <3>2, <3>4
  <2>14. iqsem'.count <= IP_OQSIZ
    BY <1>6, <2>1, <2>2, <2>3 DEF OutputFull
  <2>15. /\ astray' \in {"no", "stale", "overrun"} /\ iqueue' \in Seq(Packets)
         /\ Idle.at \notin Waiting
    BY <1>1, <1>6, <2>4, <2>9 DEF Waiting
  <2> QED
    BY <1>1, <1>2, <1>3, <2>7, <2>9, <2>11, <2>12, <2>13, <2>14, <2>15, Walks
<1> QED
  BY <1>4, <1>5, <1>6

\* A slot that nobody uses.
LEMMA FreeTyped ==
  IcmpFree \in IcmpEntry /\ IcmpFree.queue = << >> /\ IcmpFree.icstate = "FREE"
BY DEF IcmpFree, IcmpEntry, Addresses

\* icmp_register takes a free slot.
LEMMA IcmpRegister ==
  ASSUME NInv, NEW p \in Tasks, NEW a \in Pings, icmp_register(p, a),
         UNCHANGED <<arpVars, udpVars>>
  PROVE  NInv'
<1> DEFINE unused == {s \in ISlots : icmptab[s].icstate = "FREE"}
           s == First(unused)
           x == [IcmpFree EXCEPT !.icstate = "USED", !.icremip = a]
           c == call[p]
<1>1. /\ astray = "no" /\ call[p].at = "start" /\ call \in [Tasks -> CallType]
      /\ c \in CallType /\ CallOK(c) /\ free \in Nat /\ cpu = "any"
  BY Running DEF icmp_register, Going
<1>2. /\ IcmpStepKeeps /\ astray' = astray /\ hasmsg' = hasmsg /\ call' = call /\ cpu' = cpu
      /\ UNCHANGED bufVars /\ unused # {} /\ icmptab' = [icmptab EXCEPT ![s] = x]
  BY DEF icmp_register, arpVars, udpVars, IcmpStepKeeps, First
<1>3. s \in ISlots /\ icmptab[s].icstate = "FREE"
  <2>1. unused \subseteq Nat
    BY Constants
  <2>2. s \in unused
    BY <1>2, <2>1, FirstIn
  <2> QED
    BY <2>2
<1>4. /\ x \in IcmpEntry /\ x.queue = << >> /\ x.icstate = "USED"
  <2>1. a \in Addresses
    BY DEF Addresses
  <2> DEFINE b == [IcmpFree EXCEPT !.icstate = "USED"]
  <2>2. /\ IcmpFree \in IcmpEntry /\ IcmpFree.queue = << >>
    BY FreeTyped
  <2>3. b \in IcmpEntry /\ b.queue = << >> /\ b.icstate = "USED"
    BY <2>2 DEF IcmpEntry
  <2> HIDE DEF b
  <2>4. [b EXCEPT !.icremip = a] = x
    BY DEF b
  <2>5. LET d == [b EXCEPT !.icremip = a] IN
        d \in IcmpEntry /\ d.queue = << >> /\ d.icstate = "USED"
    BY <2>1, <2>3 DEF IcmpEntry
  <2> QED
    BY <2>4, <2>5
<1>5. IcmpSound(x)
  BY <1>4 DEF IcmpSound
<1>6. icmptab[s].queue = << >>
  BY <1>3, IcmpSlots DEF IcmpSound
<1> HIDE DEF unused, s, x, c
<1>7. Moves(p, c) /\ \A q \in Tasks \ {p} : call'[q] = call[q]
  BY <1>1, <1>2, StaysMoves, AloneMoves DEF c
<1>8. IcmpWaits' /\ IcmpNamed'
  <2>1. ASSUME NEW q \in Tasks \ {p}, call[q].at = "icmp" /\ call[q].slot = s /\ ~call'[q].stale
        PROVE  IcmpServes(x, q)
    <3>1. ~call[q].stale
      BY <1>7, <2>1
    <3>2. icmptab[s].icstate \in {"USED", "RECV"}
      BY <1>1, <2>1, <3>1, IcmpWaiting
    <3> QED
      BY <1>3, <3>2
  <2>2. call[p].at # "icmp" /\ c.at # "icmp" /\ x.icstate # "RECV"
    BY <1>1, <1>4 DEF c
  <2>3. \A q \in Tasks \ {p} : call'[q] = call[q] /\ (q \in hasmsg' <=> q \in hasmsg)
    BY <1>2, <1>7
  <2>4. icmptab' = [icmptab EXCEPT ![s] = x]
    BY <1>2
  <2> QED
    BY <1>1, <1>3, <1>4, <1>7, <2>1, <2>2, <2>3, <2>4, IcmpSlotChanged,
       ZenonT(60)
<1>9. PoolInv' /\ free' = free
  BY <1>1, <1>2, <1>7, PoolAfter DEF c
<1>10. /\ free' + c.bufs + Len(x.queue) = free + call[p].bufs + Len(icmptab[s].queue)
       /\ free' \in Int /\ free' >= 0
  BY <1>1, <1>4, <1>6, <1>9 DEF c
<1>11. /\ astray' \in {"no", "stale", "overrun"} /\ hasmsg' \subseteq Tasks
       /\ call[p].at \notin {"arp", "udp", "ipout"}
  BY <1>1, <1>2 DEF NInv, TypeOK
<1> QED
  BY <1>1, <1>2, <1>3, <1>4, <1>5, <1>7, <1>8, <1>9, <1>10, <1>11, IcmpStep DEF c

\* A process leaves a slot without a packet, at which it has waited or which it finds
\* overrun; the slot may be another's by now.
LEMMA IcmpLeaves ==
  ASSUME NInv, astray = "no", NEW p \in Tasks, NEW s \in ISlots,
         call[p].at \in {"start", "icmp"}, call[p].at = "icmp" => call[p].slot = s,
         icmptab' = [icmptab EXCEPT ![s].icstate = "USED"],
         hasmsg' = hasmsg \/ hasmsg' = hasmsg \ {p},
         Return(p), UNCHANGED bufVars, IcmpStepKeeps,
         \/ astray' \in {"stale", "overrun"}
         \/ astray' = "no" /\ call[p].at = "icmp" /\ p \notin hasmsg /\ ~call[p].stale
  PROVE  NInv'
<1> DEFINE x == [icmptab[s] EXCEPT !.icstate = "USED"]
<1>1. /\ call \in [Tasks -> CallType] /\ call[p] \in CallType /\ CallOK(call[p])
      /\ free \in Nat /\ hasmsg \subseteq Tasks
  BY NbufsNat DEF NInv, TypeOK, CallInv
<1>2. call[p].bufs = 0 /\ call[p].at # "getbuf"
  BY <1>1 DEF CallOK, BufsAt
<1>3. /\ icmptab \in [ISlots -> IcmpEntry] /\ icmptab[s] \in IcmpEntry /\ IcmpSound(icmptab[s])
      /\ icmptab[s].queue \in Seq(Packets) /\ Len(icmptab[s].queue) \in Nat
  BY IcmpSlots
<1>4. /\ icmptab' = [icmptab EXCEPT ![s] = x]
      /\ x \in IcmpEntry /\ x.queue = icmptab[s].queue /\ x.icpid = icmptab[s].icpid
      /\ x.icstate = "USED" /\ x.icremip = icmptab[s].icremip
  BY <1>3 DEF IcmpEntry
<1> HIDE DEF x
<1>5. IcmpSound(x)
  BY <1>3, <1>4 DEF IcmpSound
<1>6. MovesAlone(p, Idle) /\ cpu' = "any"
  BY DEF Return, MovesAlone
<1>7. Moves(p, Idle) /\ \A q \in Tasks \ {p} : call'[q] = call[q]
  BY <1>1, <1>6, AloneMoves
<1>8. /\ Idle \in CallType /\ CallOK(Idle) /\ Idle.at = "start" /\ Idle.bufs = 0
  BY IdleTyped
<1>9. \A q \in Tasks \ {p} : call[q].at # "icmp" \/ call[q].slot # s =>
         call'[q] = call[q] /\ (q \in hasmsg' <=> q \in hasmsg)
  BY <1>7
<1>10. astray' = "no" => IcmpWaits' /\ IcmpNamed'
  <2> SUFFICES ASSUME astray' = "no" PROVE IcmpWaits' /\ IcmpNamed'
    OBVIOUS
  <2>1. icmptab[s].icstate = "RECV" /\ icmptab[s].icpid = p
    BY IcmpWaiting
  <2>2. ASSUME NEW q \in Tasks \ {p}, call[q].at = "icmp" /\ call[q].slot = s /\ ~call'[q].stale
        PROVE  IcmpServes(x, q)
    <3>1. ~call[q].stale
      BY <1>7, <2>2
    <3>2. icmptab[s].icstate = "USED" \/ icmptab[s].icpid = q
      BY <2>2, <3>1, IcmpWaiting
    <3> QED
      BY <2>1, <3>2
  <2> QED
    BY <1>4, <1>7, <1>8, <1>9, <2>2, IcmpSlotChanged
<1>11. PoolInv' /\ free' = free
  BY <1>2, <1>7, <1>8, PoolAfter
<1>12. /\ free' + Idle.bufs + Len(x.queue) = free + call[p].bufs + Len(icmptab[s].queue)
       /\ free' \in Int /\ free' >= 0
  BY <1>1, <1>2, <1>4, <1>8, <1>11
<1>13. /\ astray' \in {"no", "stale", "overrun"} /\ hasmsg' \subseteq Tasks
       /\ call[p].at \notin {"arp", "udp", "ipout"} /\ Idle.at \notin {"arp", "udp", "ipout"}
  BY <1>1, <1>8
<1> QED
  BY <1>4, <1>5, <1>6, <1>7, <1>8, <1>9, <1>10, <1>11, <1>12, <1>13, IcmpStep

\* A reply is taken from a slot whose head is in the array.
LEMMA IcmpTaken ==
  ASSUME NInv, astray = "no", NEW p \in Tasks, NEW s \in ISlots, icmp_dequeue(p, s),
         icmptab[s].queue # << >>, icmptab[s].icstate = "USED",
         call[p].at \in {"start", "icmp"}, call[p].at = "icmp" => call[p].slot = s,
         hasmsg' = hasmsg \/ hasmsg' = hasmsg \ {p},
         IcmpStepKeeps, ~(icmptab[s].ichead >= ICMP_QSIZ)
  PROVE  NInv'
<1> DEFINE h == HeadNext(icmptab[s])
           x == [icmptab[s] EXCEPT !.icstate = "USED", !.queue = Tail(@), !.ichead = h]
           n == Len(icmptab[s].queue)
<1>1. /\ call \in [Tasks -> CallType] /\ call[p] \in CallType /\ CallOK(call[p])
      /\ free \in Nat /\ hasmsg \subseteq Tasks
  BY NbufsNat DEF NInv, TypeOK, CallInv
<1>2. call[p].bufs = 0 /\ call[p].at # "getbuf"
  BY <1>1 DEF CallOK, BufsAt
<1>3. /\ icmptab \in [ISlots -> IcmpEntry] /\ icmptab[s] \in IcmpEntry /\ IcmpSound(icmptab[s])
      /\ icmptab[s].queue \in Seq(Packets) /\ n \in Nat
  BY IcmpSlots
<1>4. LET u == Tail(icmptab[s].queue) IN
      /\ u \in Seq(Packets) /\ Len(u) = n - 1 /\ n >= 1 /\ (u = << >> <=> n = 1)
      /\ \A k \in 1..Len(u) : k + 1 \in 1..n /\ u[k] = icmptab[s].queue[k + 1]
  BY <1>3, OneLess
<1>5. /\ x \in IcmpEntry /\ x.queue = Tail(icmptab[s].queue) /\ x.icpid = icmptab[s].icpid
      /\ x.icstate = "USED" /\ x.icremip = icmptab[s].icremip
  <2>1. icmptab[s].ichead \in Nat
    BY <1>3 DEF IcmpEntry
  <2>2. h \in Nat
    BY <2>1 DEF HeadNext
  <2> HIDE DEF h
  <2> QED
    BY <1>3, <1>4, <2>2 DEF IcmpEntry
<1>6. /\ icmptab' = [icmptab EXCEPT ![s] = x]
      /\ call' = [(IF n = 1 THEN Robbed("icmp", s) ELSE call) EXCEPT ![p] = Idle]
      /\ cpu' = "any" /\ freebuf(1) /\ astray' = astray
  <2>1. icmptab' = [icmptab EXCEPT ![s].icstate = "USED", ![s].queue = Tail(@), ![s].ichead = h]
    BY DEF icmp_dequeue
  <2> HIDE DEF h
  <2>2. icmptab' = [icmptab EXCEPT ![s] = x]
    BY <1>3, <2>1 DEF IcmpEntry
  <2> QED
    BY <2>2 DEF icmp_dequeue
<1> HIDE DEF x, n
<1>7. IcmpSound(x)
  <2>1. ASSUME NEW k \in 1..Len(x.queue) PROVE x.queue[k].src = x.icremip
    <3>1. k + 1 \in 1..Len(icmptab[s].queue) /\ x.queue[k] = icmptab[s].queue[k + 1]
      BY <1>4, <1>5 DEF n
    <3>2. \A j \in 1..Len(icmptab[s].queue) : icmptab[s].queue[j].src = icmptab[s].icremip
      BY <1>3 DEF IcmpSound
    <3> QED
      BY <1>5, <3>1, <3>2
  <2> QED
    BY <1>5, <2>1 DEF IcmpSound
<1>8. /\ Moves(p, Idle)
      /\ \A q \in Tasks \ {p} : call[q].at # "icmp" \/ call[q].slot # s => call'[q] = call[q]
      /\ \A q \in Tasks \ {p} : call[q].at = "icmp" /\ call[q].slot = s /\ ~call'[q].stale =>
             ~call[q].stale /\ n # 1
  <2>1. CASE n = 1
    <3>1. call' = [Robbed("icmp", s) EXCEPT ![p] = Idle] /\ "icmp" \in Waiting
      BY <1>6, <2>1 DEF Waiting
    <3>2. Moves(p, Idle) /\ Robs(p, "icmp", s)
      BY <1>1, <3>1, RobbedMoves
    <3>3. ASSUME NEW q \in Tasks \ {p}, call[q].at = "icmp", call[q].slot = s
          PROVE call'[q].stale
      <4>1. call[q] \in CallType
        BY <1>1
      <4>2. call'[q] = [call[q] EXCEPT !.stale = TRUE]
        BY <3>2, <3>3 DEF Robs
      <4> QED
        BY <4>1, <4>2, StaleSet
    <3> QED
      BY <3>2, <3>3 DEF Robs
  <2>2. CASE n # 1
    <3>1. MovesAlone(p, Idle)
      BY <1>6, <2>2 DEF MovesAlone
    <3>2. Moves(p, Idle) /\ \A q \in Tasks \ {p} : call'[q] = call[q]
      BY <1>1, <3>1, AloneMoves
    <3> QED
      BY <2>2, <3>2
  <2> QED
    BY <2>1, <2>2
<1>9. /\ Idle \in CallType /\ CallOK(Idle) /\ Idle.at = "start" /\ Idle.bufs = 0
  BY IdleTyped
<1>10. IcmpWaits' /\ IcmpNamed'
  <2>1. ASSUME NEW q \in Tasks \ {p}, call[q].at = "icmp" /\ call[q].slot = s /\ ~call'[q].stale
        PROVE  IcmpServes(x, q)
    <3>1. ~call[q].stale /\ n # 1
      BY <1>8, <2>1
    <3>2. q \in hasmsg
      BY <2>1, <3>1, IcmpWaiting
    <3>3. x.queue # << >>
      BY <1>4, <1>5, <3>1
    <3> QED
      BY <1>5, <3>2, <3>3 DEF IcmpServes
  <2>2. \A q \in Tasks \ {p} : call[q].at # "icmp" \/ call[q].slot # s =>
             call'[q] = call[q] /\ (q \in hasmsg' <=> q \in hasmsg)
    BY <1>8
  <2>3. x.icstate # "RECV" /\ Idle.at # "icmp"
    BY <1>5, <1>9
  <2> QED
    BY <1>5, <1>6, <1>8, <1>9, <2>1, <2>2, <2>3, IcmpSlotChanged
<1>11. PoolInv' /\ free' = free + 1
  BY <1>2, <1>6, <1>8, <1>9, PoolAfter
<1>12. /\ free' + Idle.bufs + Len(x.queue) = free + call[p].bufs + Len(icmptab[s].queue)
       /\ free' \in Int /\ free' >= 0
  <2>1. PICK m \in Nat : m = Len(icmptab[s].queue) /\ Len(x.queue) = m - 1
    BY <1>3, <1>4, <1>5 DEF n
  <2>2. PICK f \in Nat : f = free /\ f + 1 = free'
    BY <1>1, <1>11
  <2>3. (f + 1) + 0 + (m - 1) = f + 0 + m
    OBVIOUS
  <2>4. free' + Idle.bufs + Len(x.queue) = free + call[p].bufs + Len(icmptab[s].queue)
    BY <1>2, <1>9, <2>1, <2>2, <2>3
  <2> QED
    BY <2>2, <2>4
<1>13. /\ astray' \in {"no", "stale", "overrun"} /\ hasmsg' \subseteq Tasks
       /\ call[p].at \notin {"arp", "udp", "ipout"} /\ Idle.at \notin {"arp", "udp", "ipout"}
  BY <1>1, <1>6, <1>9
<1>14. \A q \in Tasks \ {p} : call[q].at # "icmp" \/ call[q].slot # s =>
          call'[q] = call[q] /\ (q \in hasmsg' <=> q \in hasmsg)
  BY <1>8
<1> QED
  BY <1>5, <1>6, <1>7, <1>8, <1>9, <1>10, <1>11, <1>12, <1>13, <1>14, IcmpStep



\* The same wherever the head is: outside the array it is an overrun.
LEMMA IcmpDequeue ==
  ASSUME NInv, astray = "no", NEW p \in Tasks, NEW s \in ISlots, icmp_dequeue(p, s),
         icmptab[s].queue # << >>, icmptab[s].icstate = "USED",
         call[p].at \in {"start", "icmp"}, call[p].at = "icmp" => call[p].slot = s,
         hasmsg' = hasmsg \/ hasmsg' = hasmsg \ {p},
         IcmpStepKeeps
  PROVE  NInv'
<1>1. CASE icmptab[s].ichead >= ICMP_QSIZ
  <2>1. /\ astray' = "overrun" /\ icmptab' = [icmptab EXCEPT ![s].icstate = "USED"]
        /\ Return(p) /\ UNCHANGED bufVars
    BY <1>1 DEF icmp_dequeue
  <2> QED
    BY <2>1, IcmpLeaves
<1>2. CASE ~(icmptab[s].ichead >= ICMP_QSIZ)
  BY <1>2, IcmpTaken
<1> QED
  BY <1>1, <1>2

\* icmp_recv takes a reply or waits for one.
LEMMA IcmpRecv ==
  ASSUME NInv, NEW p \in Tasks, NEW s \in ISlots, icmp_recv(p, s),
         UNCHANGED <<arpVars, udpVars>>
  PROVE  NInv'
<1> DEFINE x == [icmptab[s] EXCEPT !.icstate = "RECV", !.icpid = p]
           b == [Idle EXCEPT !.slot = s]
           e == [b EXCEPT !.at = "icmp"]
<1>1. /\ astray = "no" /\ call[p].at = "start" /\ call \in [Tasks -> CallType]
      /\ call[p] \in CallType /\ CallOK(call[p]) /\ free \in Nat
  BY Running DEF icmp_recv
<1>2. /\ IcmpStepKeeps /\ icmptab[s].icstate = "USED"
  BY DEF icmp_recv, arpVars, udpVars, IcmpStepKeeps
<1>3. \/ /\ icmptab[s].queue = << >>
         /\ icmptab' = [icmptab EXCEPT ![s].icstate = "RECV", ![s].icpid = p]
         /\ hasmsg' = hasmsg \ {p}
         /\ Block(p, b, "icmp")
         /\ UNCHANGED <<bufVars, astray>>
      \/ icmptab[s].queue # << >> /\ icmp_dequeue(p, s) /\ hasmsg' = hasmsg
  BY DEF icmp_recv
<1>4. CASE icmptab[s].queue # << >> /\ icmp_dequeue(p, s) /\ hasmsg' = hasmsg
  BY <1>1, <1>2, <1>4, IcmpDequeue
<1>5. CASE /\ icmptab[s].queue = << >>
           /\ icmptab' = [icmptab EXCEPT ![s].icstate = "RECV", ![s].icpid = p]
           /\ hasmsg' = hasmsg \ {p}
           /\ Block(p, b, "icmp")
           /\ UNCHANGED <<bufVars, astray>>
  <2>1. /\ icmptab \in [ISlots -> IcmpEntry] /\ icmptab[s] \in IcmpEntry /\ IcmpSound(icmptab[s])
    BY IcmpSlots
  <2>2. /\ icmptab' = [icmptab EXCEPT ![s] = x]
        /\ x \in IcmpEntry /\ x.queue = << >> /\ x.icpid = p /\ x.icstate = "RECV"
    BY <1>5, <2>1 DEF IcmpEntry
  <2>3. IcmpSound(x)
    BY <2>2 DEF IcmpSound
  <2>4. b \in CallType /\ b.bufs = 0 /\ b.slot = s /\ ~b.stale
    BY IdleTyped, SlotSet, Constants
  <2>5. call' = [call EXCEPT ![p] = e] /\ cpu' = "any"
    BY <1>5 DEF Block
  <2> HIDE DEF b
  <2>6. /\ e \in CallType /\ e.at = "icmp" /\ e.bufs = 0 /\ e.slot = s /\ ~e.stale
    BY <2>4, AtSet DEF Places
  <2> HIDE DEF e, x
  <2>7. MovesAlone(p, e)
    BY <2>5 DEF MovesAlone
  <2>8. Moves(p, e) /\ \A q \in Tasks \ {p} : call'[q] = call[q]
    BY <1>1, <2>7, AloneMoves
  <2>9. CallOK(e)
    BY <2>6 DEF CallOK, BufsAt
  <2>10. \A q \in Tasks \ {p} : call[q].at # "icmp" \/ call[q].slot # s =>
             call'[q] = call[q] /\ (q \in hasmsg' <=> q \in hasmsg)
    BY <1>5, <2>8
  <2>11. IcmpWaits' /\ IcmpNamed'
    <3>1. ASSUME NEW q \in Tasks \ {p}, call[q].at = "icmp" /\ call[q].slot = s /\ ~call'[q].stale
          PROVE  IcmpServes(x, q)
      <4>1. ~call[q].stale
        BY <2>8, <3>1
      <4>2. icmptab[s].queue # << >> \/ icmptab[s].icstate = "RECV"
        BY <1>1, <3>1, <4>1, IcmpWaiting
      <4> QED
        BY <1>2, <1>5, <4>2
    <3>2. p \notin hasmsg' /\ IcmpServes(x, p)
      BY <1>5, <2>2 DEF IcmpServes
    <3> QED
      BY <1>1, <2>2, <2>6, <2>8, <2>10, <3>1, <3>2, IcmpSlotChanged
  <2>12. PoolInv' /\ free' = free
    BY <1>1, <1>5, <2>6, <2>8, PoolAfter
  <2>13. call[p].bufs = 0
    BY <1>1 DEF CallOK, BufsAt
  <2>14. /\ free' + e.bufs + Len(x.queue) = free + call[p].bufs + Len(icmptab[s].queue)
         /\ free' \in Int /\ free' >= 0
    BY <1>1, <1>5, <2>2, <2>6, <2>12, <2>13
  <2>15. /\ astray' \in {"no", "stale", "overrun"} /\ hasmsg' \subseteq Tasks
         /\ call[p].at \notin {"arp", "udp", "ipout"} /\ e.at \notin {"arp", "udp", "ipout"}
    BY <1>1, <1>2, <1>5, <2>6 DEF NInv, TypeOK
  <2> QED
    BY <1>1, <1>2, <2>2, <2>3, <2>5, <2>6, <2>8, <2>9, <2>10, <2>11, <2>12, <2>14, <2>15, IcmpStep
<1> QED
  BY <1>3, <1>4, <1>5

\* icmp_recv after recvtime.
LEMMA IcmpResumed ==
  ASSUME NInv, NEW p \in Tasks, icmp_recvResumed(p), UNCHANGED <<arpVars, udpVars>>
  PROVE  NInv'
<1> DEFINE s == call[p].slot
<1>1. astray = "no" /\ call[p].at = "icmp" /\ CallOK(call[p])
  BY Running DEF icmp_recvResumed
<1>2. IcmpStepKeeps /\ hasmsg' = hasmsg \ {p}
  BY DEF icmp_recvResumed, arpVars, udpVars, IcmpStepKeeps, Received
<1>3. s \in ISlots
  BY <1>1 DEF CallOK
<1>4. \/ /\ p \notin hasmsg \/ call[p].stale
         /\ icmptab' = [icmptab EXCEPT ![s].icstate = "USED"]
         /\ Return(p) /\ UNCHANGED bufVars
         /\ astray' = IF call[p].stale THEN "stale" ELSE astray
      \/ p \in hasmsg /\ ~call[p].stale /\ icmp_dequeue(p, s)
  BY DEF icmp_recvResumed, Timeout
<1>5. CASE /\ p \notin hasmsg \/ call[p].stale
           /\ icmptab' = [icmptab EXCEPT ![s].icstate = "USED"]
           /\ Return(p) /\ UNCHANGED bufVars
           /\ astray' = IF call[p].stale THEN "stale" ELSE astray
  <2>1. \/ astray' \in {"stale", "overrun"}
        \/ astray' = "no" /\ call[p].at = "icmp" /\ p \notin hasmsg /\ ~call[p].stale
    BY <1>1, <1>5
  <2> QED
    BY <1>1, <1>2, <1>3, <1>5, <2>1, IcmpLeaves
<1>6. CASE p \in hasmsg /\ ~call[p].stale /\ icmp_dequeue(p, s)
  <2>1. icmptab[s].icstate = "USED" /\ icmptab[s].queue # << >>
    BY <1>1, <1>6, IcmpWaiting
  <2> QED
    BY <1>1, <1>2, <1>3, <1>6, <2>1, IcmpDequeue
<1> QED
  BY <1>4, <1>5, <1>6

\* icmp_send asks for a buffer.
LEMMA IcmpSend ==
  ASSUME NInv, NEW p \in Tasks, NEW s \in ISlots, icmp_send(p, icmptab[s].icremip, s),
         UNCHANGED <<arpVars, udpVars>>
  PROVE  NInv'
<1> DEFINE a == icmptab[s].icremip
           pk == [NoPkt EXCEPT !.proto = "ICMP", !.type = "REQ", !.src = "me", !.dst = a,
                    !.ident = s]
<1>1. a \in Addresses /\ s \in Nat
  BY IcmpSlots, Constants DEF IcmpEntry
<1>2. pk \in Packets
  BY <1>1, EchoMade
<1>3. Runs(p, "start") /\ getbuf(p, Idle, pk, "ip_send")
  BY DEF icmp_send, icmp_mkpkt
<1>4. TablesKept
  BY DEF icmp_send, TablesKept, arpVars, udpVars
<1> QED
  BY <1>2, <1>3, <1>4, UserSends

\* icmp_release gives back the packets of a slot.
LEMMA IcmpRelease ==
  ASSUME NInv, NEW p \in Tasks, NEW s \in ISlots, icmp_release(p, s),
         UNCHANGED <<arpVars, udpVars>>
  PROVE  NInv'
<1> DEFINE x == IcmpFree
           c == call[p]
           n == Len(icmptab[s].queue)
<1>1. /\ astray = "no" /\ call[p].at = "start" /\ call \in [Tasks -> CallType]
      /\ c \in CallType /\ CallOK(c) /\ free \in Nat /\ cpu = "any"
  BY Running DEF icmp_release, Going
<1>2. /\ IcmpStepKeeps /\ hasmsg' = hasmsg /\ cpu' = cpu
      /\ astray' = "overrun" \/ astray' = astray
      /\ call' = Robbed("icmp", s) /\ icmptab' = [icmptab EXCEPT ![s] = x]
      /\ freebuf(n)
  BY DEF icmp_release, arpVars, udpVars, IcmpStepKeeps
<1>3. n \in Nat
  BY IcmpSlots
<1>4. /\ x \in IcmpEntry /\ x.queue = << >> /\ x.icstate = "FREE" /\ Len(x.queue) = 0
  BY FreeTyped
<1>5. IcmpSound(x)
  BY <1>4 DEF IcmpSound
<1> HIDE DEF x, n
<1>6. call' = [Robbed("icmp", s) EXCEPT ![p] = c] /\ "icmp" \in Waiting
  BY <1>1, <1>2 DEF Robbed, Waiting
<1> HIDE DEF c
<1>7. Moves(p, c) /\ Robs(p, "icmp", s)
  BY <1>1, <1>6, RobbedMoves
<1>8. \A q \in Tasks \ {p} : call[q].at # "icmp" \/ call[q].slot # s =>
         call'[q] = call[q] /\ (q \in hasmsg' <=> q \in hasmsg)
  BY <1>2, <1>7 DEF Robs
<1>9. IcmpWaits' /\ IcmpNamed'
  <2>1. ASSUME NEW q \in Tasks \ {p}, call[q].at = "icmp" /\ call[q].slot = s /\ ~call'[q].stale
        PROVE  IcmpServes(x, q)
    <3>1. call[q] \in CallType
      BY <1>1
    <3>2. call'[q] = [call[q] EXCEPT !.stale = TRUE]
      BY <1>7, <2>1 DEF Robs
    <3> QED
      BY <2>1, <3>1, <3>2, StaleSet
  <2>2. c.at # "icmp" /\ x.icstate # "RECV"
    BY <1>1, <1>4 DEF c
  <2> QED
    BY <1>1, <1>2, <1>4, <1>7, <1>8, <2>1, <2>2, IcmpSlotChanged
<1>10. PoolInv' /\ free' = free + n
  BY <1>1, <1>2, <1>3, <1>7, PoolAfter DEF c
<1>11. /\ free' + c.bufs + Len(x.queue) = free + call[p].bufs + Len(icmptab[s].queue)
       /\ free' \in Int /\ free' >= 0
  <2>1. PICK m \in Nat, b \in Nat : m = Len(icmptab[s].queue) /\ b = c.bufs /\ b = call[p].bufs
    BY <1>1, <1>3, CallFields DEF n, c
  <2>2. PICK f \in Nat : f = free /\ f + m = free'
    BY <1>1, <1>10, <2>1 DEF n
  <2>3. (f + m) + b + 0 = f + b + m
    OBVIOUS
  <2>4. free' + c.bufs + Len(x.queue) = free + call[p].bufs + Len(icmptab[s].queue)
    BY <1>4, <2>1, <2>2, <2>3
  <2> QED
    BY <2>2, <2>4
<1>12. /\ astray' \in {"no", "stale", "overrun"} /\ hasmsg' \subseteq Tasks
       /\ call[p].at \notin {"arp", "udp", "ipout"} /\ c.at \notin {"arp", "udp", "ipout"}
  BY <1>1, <1>2 DEF c, NInv, TypeOK
<1> QED
  BY <1>1, <1>2, <1>4, <1>5, <1>7, <1>8, <1>9, <1>10, <1>11, <1>12, IcmpStep

----------------------------------------------------------------------------
\* The initial states and the steps.

\* NInv holds when net_init returns: all buffers are in the pool.
LEMMA NInit == Init => NInv
<1> SUFFICES ASSUME Init PROVE NInv
  OBVIOUS
<1>1. /\ ipvalid \in BOOLEAN /\ free = NBUFS /\ netsem = semcreate(NBUFS) /\ hasmsg = {}
      /\ call = [p \in Tasks |-> Idle] /\ cpu = "any" /\ astray = "no"
      /\ arpcache = [e \in Entries |-> ArpFree]
      /\ udptab = [s \in USlots |-> UdpFree] /\ icmptab = [s \in ISlots |-> IcmpFree]
      /\ iqueue = << >> /\ iqsem = semcreate(0)
  BY DEF Init, BufInit, arp_init, udp_init, icmp_init
<1>2. << >> \in Seq(Packets) /\ << >> \in Seq(Tasks) /\ Len(<< >>) = 0
  OBVIOUS
<1>3. NBUFS \in Nat /\ free \in 0..NBUFS
  BY <1>1, NbufsNat
<1>4. call \in [Tasks -> CallType] /\ \A p \in Tasks : call[p] = Idle
  BY <1>1, IdleTyped
<1>5. arpcache \in [Entries -> ArpEntry] /\ \A e \in Entries : arpcache[e].arstate = "FREE"
  <2>1. ArpFree \in ArpEntry /\ ArpFree.arstate = "FREE"
    BY DEF ArpFree, ArpEntry, Addresses
  <2> QED
    BY <1>1, <2>1
<1>6. /\ udptab \in [USlots -> UdpEntry]
      /\ \A s \in USlots : udptab[s].queue = << >> /\ udptab[s].udstate = "FREE"
  <2>1. UdpFree \in UdpEntry /\ UdpFree.queue = << >> /\ UdpFree.udstate = "FREE"
    BY <1>2 DEF UdpFree, UdpEntry, Addresses
  <2> QED
    BY <1>1, <2>1
<1>7. /\ icmptab \in [ISlots -> IcmpEntry]
      /\ \A s \in ISlots : icmptab[s].queue = << >> /\ icmptab[s].icstate = "FREE"
  BY <1>1, FreeTyped
<1>8. iqsem.count = 0 /\ iqsem.used /\ iqsem.queue = << >> /\ iqsem \in SemType(Tasks)
  BY <1>1, <1>2 DEF semcreate, SemType
<1>9. TypeOK
  BY <1>1, <1>2, <1>3, <1>4, <1>5, <1>6, <1>7, <1>8, Constants DEF TypeOK
<1>10. CallInv
  BY <1>1, <1>4, IdleTyped, Constants DEF CallInv
<1>11. Getting = {}
  BY <1>4, IdleTyped DEF Getting
<1>12. PoolInv
  <2>1. netsem.count = NBUFS /\ netsem.used /\ netsem.queue = << >> /\ netsem \in SemType(Tasks)
    BY <1>1, <1>2, <1>3 DEF semcreate, SemType
  <2>2. SemSound(netsem)
    BY <1>2, <1>3, <2>1 DEF SemSound, Distinct
  <2>3. Cardinality(Getting) = 0
    BY <1>11, FS_EmptySet
  <2>4. netsem.count = free - Cardinality(Getting)
    BY <1>1, <1>3, <2>1, <2>3
  <2>5. \A p \in Tasks : ~Has(netsem.queue, p)
    BY <2>1 DEF Has
  <2> QED
    BY <2>1, <2>2, <2>4, <2>5 DEF PoolInv
<1>13. Accounts
  <2>1. Held = 0
    <3> DEFINE f == [p \in Tasks |-> call[p].bufs]
    <3>1. f \in [Tasks -> Int] /\ \A p \in Tasks : f[p] = 0
      BY <1>4, IdleTyped
    <3> HIDE DEF f
    <3>2. SumFunction(f) = 0
      BY <3>1, SumType, Constants
    <3> QED
      BY <3>2 DEF Held, f
  <2>2. InUdp = 0
    <3> DEFINE f == [s \in USlots |-> Len(udptab[s].queue)]
    <3>1. f \in [USlots -> Int] /\ \A s \in USlots : f[s] = 0
      BY <1>2, <1>6
    <3> HIDE DEF f
    <3>2. SumFunction(f) = 0
      BY <3>1, SumType, Constants
    <3> QED
      BY <3>2 DEF InUdp, f
  <2>3. InIcmp = 0
    <3> DEFINE f == [s \in ISlots |-> Len(icmptab[s].queue)]
    <3>1. f \in [ISlots -> Int] /\ \A s \in ISlots : f[s] = 0
      BY <1>2, <1>7
    <3> HIDE DEF f
    <3>2. SumFunction(f) = 0
      BY <3>1, SumType, Constants
    <3> QED
      BY <3>2 DEF InIcmp, f
  <2>4. Stored = 0
    BY <1>1, <1>2, <2>2, <2>3 DEF Stored
  <2> QED
    BY <1>1, <1>3, <2>1, <2>4 DEF Accounts
<1>14. OutInv
  BY <1>1, <1>2, <1>4, <1>8, IdleTyped, Constants DEF OutInv
<1>15. CacheInv
  BY <1>4, <1>5, IdleTyped DEF CacheInv, ArpWaits, ArpNamed, ArpUnique, ArpTrue
<1>16. UdpWaits /\ UdpNamed /\ IcmpWaits /\ IcmpNamed
  BY <1>4, <1>6, <1>7, IdleTyped DEF UdpWaits, UdpNamed, IcmpWaits, IcmpNamed
<1>17. UdpFits /\ IcmpFits
  BY <1>2, <1>6, <1>7, Constants DEF UdpFits, IcmpFits
<1> QED
  BY <1>9, <1>10, <1>12, <1>13, <1>14, <1>15, <1>16, <1>17 DEF NInv, EndpointInv

\* The calls of the programs to UDP.
LEMMA UserUdpKeeps ==
  ASSUME NInv, NEW p \in Users, UserUdp(p)
  PROVE  NInv'
<1>0. p \in Tasks /\ UNCHANGED <<arpVars, icmpVars>>
  BY DEF UserUdp, Tasks
<1>1. CASE \E r \in Remotes, q \in Ports : udp_register(p, r, 0, q)
  BY <1>0, <1>1, UdpRegister
<1>2. CASE \E s \in USlots : udp_recv(p, s)
  BY <1>0, <1>2, UdpRecv
<1>3. CASE \E s \in USlots : udp_recvaddr(p, s)
  BY <1>0, <1>3, UdpRecv DEF udp_recvaddr
<1>4. CASE \E s \in USlots : udp_send(p, s)
  BY <1>0, <1>4, UdpSend
<1>5. CASE \E s \in USlots, d \in Dests, q \in Ports : udp_sendto(p, s, d, q)
  BY <1>0, <1>5, UdpSendto
<1>6. CASE \E s \in USlots : udp_release(p, s)
  BY <1>0, <1>6, UdpRelease
<1> QED
  BY <1>1, <1>2, <1>3, <1>4, <1>5, <1>6 DEF UserUdp

\* The calls of the programs to ICMP.
LEMMA UserIcmpKeeps ==
  ASSUME NInv, NEW p \in Users, UserIcmp(p)
  PROVE  NInv'
<1>0. p \in Tasks /\ UNCHANGED <<arpVars, udpVars>>
  BY DEF UserIcmp, Tasks
<1>1. CASE \E d \in Pings : icmp_register(p, d)
  BY <1>0, <1>1, IcmpRegister
<1>2. CASE \E s \in ISlots : icmp_recv(p, s)
  BY <1>0, <1>2, IcmpRecv
<1>3. CASE \E s \in ISlots : /\ icmptab[s].icstate # "FREE"
                             /\ icmp_send(p, icmptab[s].icremip, s)
  BY <1>0, <1>3, IcmpSend
<1>4. CASE \E s \in ISlots : icmp_release(p, s)
  BY <1>0, <1>4, IcmpRelease
<1> QED
  BY <1>1, <1>2, <1>3, <1>4 DEF UserIcmp

\* The steps of the calls that have begun.
LEMMA ProceedKeeps ==
  ASSUME NInv, NEW p \in Tasks, Proceed(p)
  PROVE  NInv'
<1>1. CASE getbufResumed(p) /\ UNCHANGED <<arpVars, udpVars, icmpVars>>
  BY <1>1, GetbufResumed
<1>2. CASE ip_send(p)
  BY <1>2, IpSend
<1>3. CASE ip_out(p)
  BY <1>3, IpOut
<1>4. CASE /\ arp_resolve(p) \/ arp_resolveResumed(p) \/ arp_in(p)
           /\ UNCHANGED <<udpVars, icmpVars>>
  BY <1>4, ArpResolve, ArpResumed, ArpIn
<1>5. CASE /\ udp_in(p) \/ udp_recvResumed(p) \/ udp_recvStale(p)
           /\ UNCHANGED <<arpVars, icmpVars>>
  BY <1>5, UdpIn, UdpResumed, UdpStale
<1>6. CASE /\ icmp_in(p) \/ ip_enqueue(p) \/ icmp_recvResumed(p)
           /\ UNCHANGED <<arpVars, udpVars>>
  BY <1>6, IcmpIn, IpEnqueue, IcmpResumed
<1> QED
  BY <1>1, <1>2, <1>3, <1>4, <1>5, <1>6 DEF Proceed

\* Nothing changes.
LEMMA StutterKeeps ==
  ASSUME NInv, UNCHANGED vars
  PROVE  NInv'
<1>1. /\ ipvalid' = ipvalid /\ free' = free /\ netsem' = netsem /\ hasmsg' = hasmsg
      /\ call' = call /\ cpu' = cpu /\ astray' = astray /\ arpcache' = arpcache
      /\ udptab' = udptab /\ icmptab' = icmptab /\ iqueue' = iqueue /\ iqsem' = iqsem
  BY DEF vars, bufVars, arpVars, udpVars, icmpVars
<1>2. TypeOK' /\ CallInv'
  BY <1>1 DEF NInv, TypeOK, CallInv, CallOK, BufsAt, Broadcasts
<1>3. PoolInv' /\ Accounts'
  BY <1>1 DEF NInv, PoolInv, Getting, Accounts, Held, Stored, InUdp, InIcmp
<1>4. OutInv' /\ CacheInv'
  <2>1. OutInv'
    BY <1>1 DEF NInv, OutInv
  <2>2. CacheInv'
    BY <1>1 DEF NInv, CacheInv, ArpWaits, ArpNamed, ArpUnique, ArpTrue
  <2> QED
    BY <2>1, <2>2
<1>5. EndpointInv'
  <2>1. (UdpWaits' <=> UdpWaits) /\ (UdpNamed' <=> UdpNamed)
    BY ONLY <1>1 DEF UdpWaits, UdpNamed
  <2>2. (IcmpWaits' <=> IcmpWaits) /\ (IcmpNamed' <=> IcmpNamed)
    BY ONLY <1>1 DEF IcmpWaits, IcmpNamed
  <2>3. (UdpFits' <=> UdpFits) /\ (IcmpFits' <=> IcmpFits)
    BY ONLY <1>1 DEF UdpFits, IcmpFits
  <2>4. EndpointInv
    BY DEF NInv
  <2> QED
    BY <1>1, <2>1, <2>2, <2>3, <2>4 DEF EndpointInv
<1> QED
  BY <1>2, <1>3, <1>4, <1>5 DEF NInv

\* Every step of the stack keeps NInv.
LEMMA NStep == NInv /\ [Next]_vars => NInv'
<1> SUFFICES ASSUME NInv, [Next]_vars PROVE NInv'
  OBVIOUS
<1>1. CASE \E p \in Users : UserUdp(p) \/ UserIcmp(p)
  BY <1>1, UserUdpKeeps, UserIcmpKeeps
<1>2. CASE \E p \in Tasks : Proceed(p)
  BY <1>2, ProceedKeeps
<1>3. CASE Netin
  BY <1>3, NetinGetbuf, NetinRead DEF Netin
<1>4. CASE Ipout
  BY <1>4, IpoutWait, IpoutSend DEF Ipout
<1>5. CASE Astray \/ UNCHANGED vars
  BY <1>5, StutterKeeps DEF Astray
<1> QED
  BY <1>1, <1>2, <1>3, <1>4, <1>5 DEF Next

----------------------------------------------------------------------------
\* In every reachable state the calls, the pool, the ARP cache, the slots and the output
\* queue agree as NInv says (net/arp.c, udp.c, icmp.c, ip.c, net.c).
THEOREM NetAgrees == Spec => []NInv
<1>1. Init => NInv
  BY NInit
<1>2. NInv /\ [Next]_vars => NInv'
  BY NStep
<1> QED
  BY <1>1, <1>2, PTL DEF Spec

\* The types hold, an ARP entry under resolution belongs to a process that waits for it
\* and no address has two, the UDP and ICMP slots hold packets that match them, a UDP
\* queue keeps its bound, the semaphore of the output queue counts its packets, and, as
\* long as no slot went astray, a process that waits at a slot has not missed a packet.
THEOREM NetSound == Spec => []NetInv
<1>1. NInv => NetInv
  <2> SUFFICES ASSUME NInv PROVE NetInv
    OBVIOUS
  <2>1. TypeOK
    BY DEF NInv
  <2>2. ArpInv
    BY DEF NInv, CacheInv, ArpNamed, ArpUnique, ArpInv
  <2>3. UdpInv
    BY DEF NInv, EndpointInv, UdpWaits, UdpFits, UdpInv
  <2>4. IcmpInv
    BY DEF NInv, EndpointInv, OutInv, IcmpWaits, IcmpFits, IcmpInv
  <2> QED
    BY <2>1, <2>2, <2>3, <2>4 DEF NetInv
<1> QED
  BY <1>1, NetAgrees, PTL

\* No packet buffer is lost or freed twice on any path through the stack, failing calls
\* included, whatever the sizes of the tables: the free ones, those that calls hold and
\* those in the queues make up the pool, and its semaphore counts the free ones.
THEOREM BuffersKept == Spec => []BuffersOwned
<1>1. NInv => BuffersOwned
  BY DEF NInv, Accounts, PoolInv, Getting, BuffersOwned
<1> QED
  BY <1>1, NetAgrees, PTL

\* A frame goes out with the hardware address of its next hop, unless the ARP entry was
\* given to another address between the answer and the return of the process.
THEOREM MacRight == Spec => []RightMac
<1>1. NInv => RightMac
  BY DEF NInv, CallInv, CallOK, RightMac
<1> QED
  BY <1>1, NetAgrees, PTL
=============================================================================

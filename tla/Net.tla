-------------------------------- MODULE Net ---------------------------------
(***************************************************************************)
(* The network stack: IP (net/ip.c) between the Ethernet and ARP, UDP and  *)
(* ICMP, the process netin that reads and demultiplexes frames (net/net.c) *)
(* and the process ipout that sends what icmp_in has put on the IP output  *)
(* queue.  Frames come from the wire in any order and number; a frame that *)
(* is sent is not followed further, and the answer may or may not come.    *)
(***************************************************************************)
EXTENDS Arp, Udp, Icmp

CONSTANTS
    Frames,     \* the frames that may arrive
    Dests,      \* where the programs send datagrams
    Pings,      \* the hosts they ping
    Remotes,    \* the remote addresses given to udp_register
    Calls       \* the calls each user makes

Addresses ==
    Hosts \cup Remotes \cup Dests \cup Pings
    \cup {Router, "none", "zero", "any", "me", "loop", "bcast", "netbcast"}

Packets ==
    [proto : {"none", "ARP", "IP", "UDP", "ICMP", "IPv6"},
     type : {"none", "REQ", "RPLY", "REPLY"},
     src : Addresses, dst : Addresses, mac : Addresses,
     sport : Nat, dport : Nat, ident : Nat, good : BOOLEAN]

\* A host gives its own hardware address in ARP.
ASSUME NetAssumption ==
    /\ Frames \subseteq Packets
    /\ \A f \in Frames : f.proto = "ARP" => f.mac = f.src

arpVars == <<arpcache>>
udpVars == <<udptab>>
icmpVars == <<icmptab, iqueue, iqsem>>
vars == <<ipvalid, bufVars, hasmsg, call, cpu, astray, arpVars, udpVars, icmpVars>>

\* net_init, with or without the address that getlocalip obtains afterwards.  The shell
\* command that gives the address up and asks for a new one is left out.
Init ==
    /\ BufInit
    /\ arp_init /\ udp_init /\ icmp_init
    /\ iqueue = << >> /\ iqsem = semcreate(0)

----------------------------------------------------------------------------
\* Before there is an address the mask is zero and every host seems local.
NextHop(dest) ==
    IF dest \in Hosts \/ ~ipvalid THEN dest ELSE Router

\* Who in the local stack gets the packet; Drop if nobody.
ip_local(p, c) ==
    CASE c.pkt.proto = "UDP" -> Goto(p, c, "udp_in") /\ UNCHANGED bufVars
      [] c.pkt.proto = "ICMP" -> Goto(p, c, "icmp_in") /\ UNCHANGED bufVars
      [] OTHER -> freebuf(c.bufs) /\ Return(p)

\* A packet for d leaves through its next hop, if there is one.  The two returns that do
\* not restore the interrupt mask change nothing: every caller restores its own.
Route(p, c, d) ==
    IF NextHop(d) = "none" THEN freebuf(c.bufs) /\ Return(p)
    ELSE Goto(p, [c EXCEPT !.hop = NextHop(d)], "arp_resolve") /\ UNCHANGED bufVars

ip_send(p) ==
    /\ Runs(p, "ip_send")
    /\ LET c == call[p]
           d == c.pkt.dst
       IN  CASE d = "loop" \/ (d = "me" /\ ipvalid) -> ip_local(p, c)
             [] d \in Broadcasts -> /\ Goto(p, [c EXCEPT !.hop = d, !.mac = "bcast"], "ip_out")
                                    /\ UNCHANGED bufVars
             [] OTHER -> Route(p, c, d)
    /\ UNCHANGED <<ipvalid, hasmsg, astray, arpVars, udpVars, icmpVars>>

\* ip_out: the frame goes to the wire and its buffer back to the pool.
ip_out(p) ==
    /\ Runs(p, "ip_out")
    /\ Drop(p)
    /\ UNCHANGED <<ipvalid, hasmsg, astray, arpVars, udpVars, icmpVars>>

\* The process ipout waits for a packet ...
ipoutWait ==
    /\ Runs("ipout", "start")
    /\ iqsem' = wait(iqsem, "ipout")
    /\ IF Queued(iqsem', "ipout") THEN Block("ipout", Idle, "ipout")
       ELSE Goto("ipout", Idle, "ipout")
    /\ UNCHANGED <<ipvalid, bufVars, hasmsg, astray, arpVars, udpVars, icmptab, iqueue>>

\* ... and takes it to where it is to go.
ipout ==
    /\ Runs("ipout", "ipout")
    /\ ~Queued(iqsem, "ipout")
    /\ iqueue' = Tail(iqueue)
    /\ LET pk == iqueue[1]
           c == [Idle EXCEPT !.bufs = 1, !.pkt = pk]
       IN  CASE pk.dst \in Broadcasts -> freebuf(1) /\ Return("ipout")
             [] pk.dst = "me" /\ ipvalid -> ip_local("ipout", c)
             [] OTHER -> Route("ipout", c, pk.dst)
    /\ UNCHANGED <<ipvalid, hasmsg, astray, arpVars, udpVars, icmptab, iqsem>>

----------------------------------------------------------------------------
\* netin takes a buffer ...
netinGetbuf ==
    /\ Runs("netin", "start")
    /\ getbuf("netin", Idle, NoPkt, "read")
    /\ UNCHANGED <<ipvalid, hasmsg, astray, arpVars, udpVars, icmpVars>>

\* ip_in takes a datagram whose checksum and version are right (f.good), for
\* this host or for all.  Without an address it takes UDP only, for DHCP.
Accepted(f) ==
    /\ f.good
    /\ \/ f.dst = "bcast"
       \/ ~ipvalid /\ f.proto = "UDP"
       \/ ipvalid /\ f.dst \in {"me"} \cup Broadcasts

ip_in(p, c) ==
    IF Accepted(c.pkt) THEN ip_local(p, c) ELSE freebuf(c.bufs) /\ Return(p)

\* ... reads a frame into it and demultiplexes it.
netin(f) ==
    /\ Runs("netin", "read")
    /\ LET c == [call["netin"] EXCEPT !.pkt = f] IN
       CASE f.proto = "ARP" /\ f.good -> Goto("netin", c, "arp_in") /\ UNCHANGED bufVars
         [] f.proto \in {"UDP", "ICMP", "IP"} -> ip_in("netin", c)
         [] OTHER -> Drop("netin")
    /\ UNCHANGED <<ipvalid, hasmsg, astray, arpVars, udpVars, icmpVars>>

----------------------------------------------------------------------------
Calling(p, f) == f \in Calls[p]

UserUdp(p) ==
    /\ \/ /\ Calling(p, "udp_register")
          /\ \E r \in Remotes, q \in Ports : udp_register(p, r, 0, q)
       \/ /\ Calling(p, "udp_recv")
          /\ \E s \in USlots : udp_recv(p, s)
       \/ /\ Calling(p, "udp_recvaddr")
          /\ \E s \in USlots : udp_recvaddr(p, s)
       \/ /\ Calling(p, "udp_send")
          /\ \E s \in USlots : udp_send(p, s)
       \/ /\ Calling(p, "udp_sendto")
          /\ \E s \in USlots, d \in Dests, q \in Ports : udp_sendto(p, s, d, q)
       \/ /\ Calling(p, "udp_release")
          /\ \E s \in USlots : udp_release(p, s)
    /\ UNCHANGED <<arpVars, icmpVars>>

UserIcmp(p) ==
    /\ \/ /\ Calling(p, "icmp_register")
          /\ \E d \in Pings : icmp_register(p, d)
       \/ /\ Calling(p, "icmp_recv")
          /\ \E s \in ISlots : icmp_recv(p, s)
       \/ /\ Calling(p, "icmp_send")
          /\ \E s \in ISlots : /\ icmptab[s].icstate # "FREE"
                              /\ icmp_send(p, icmptab[s].icremip, s)
       \/ /\ Calling(p, "icmp_release")
          /\ \E s \in ISlots : icmp_release(p, s)
    /\ UNCHANGED <<arpVars, udpVars>>

\* A process goes on with a call it has begun.
Proceed(p) ==
    \/ getbufResumed(p) /\ UNCHANGED <<arpVars, udpVars, icmpVars>>
    \/ ip_send(p) \/ ip_out(p)
    \/ /\ arp_resolve(p) \/ arp_resolveResumed(p) \/ arp_in(p)
       /\ UNCHANGED <<udpVars, icmpVars>>
    \/ /\ udp_in(p) \/ udp_recvResumed(p) \/ udp_recvStale(p)
       /\ UNCHANGED <<arpVars, icmpVars>>
    \/ /\ icmp_in(p) \/ ip_enqueue(p) \/ icmp_recvResumed(p)
       /\ UNCHANGED <<arpVars, udpVars>>

Netin == netinGetbuf \/ \E f \in Frames : netin(f)
Ipout == ipoutWait \/ ipout

\* The stack uses a packet that is no longer, or not yet, what it should be;
\* what follows is not modelled.
Astray == astray # "no" /\ UNCHANGED vars

Next ==
    \/ \E p \in Users : UserUdp(p) \/ UserIcmp(p)
    \/ \E p \in Tasks : Proceed(p)
    \/ Netin \/ Ipout
    \/ Astray

Spec == Init /\ [][Next]_vars

----------------------------------------------------------------------------
Places == {"start", "getbuf", "read", "ip_send", "ip_out", "ip_enqueue", "ipout", "arp_resolve",
           "arp", "arp_in", "udp_in", "udp", "icmp_in", "icmp"}

CallType ==
    [at : Places, next : {"start", "read", "ip_send", "ip_enqueue"}, bufs : 0..2,
     pkt : Packets, hop : Addresses, mac : Addresses, slot : Nat, i : 0..(ARP_RETRY - 1),
     stale : BOOLEAN]

ArpEntry == [arstate : {"FREE", "PENDING", "RESOLVED"}, arpaddr : Addresses,
             arpid : Tasks \cup {"none"}, arhaddr : Addresses]

UdpEntry == [udstate : {"FREE", "USED", "RECV"}, remip : Addresses, remport : Nat,
             locport : Nat, udpid : Tasks \cup {"none"}, queue : Seq(Packets)]

IcmpEntry == [icstate : {"FREE", "USED", "RECV"}, icremip : Addresses,
              icpid : Tasks \cup {"none"}, ichead : Nat, queue : Seq(Packets)]

TypeOK ==
    /\ ipvalid \in BOOLEAN
    /\ free \in 0..NBUFS
    /\ hasmsg \subseteq Tasks
    /\ call \in [Tasks -> CallType]
    /\ cpu \in Tasks \cup {"any"}
    /\ astray \in {"no", "stale", "overrun"}
    /\ arpcache \in [Entries -> ArpEntry]
    /\ udptab \in [USlots -> UdpEntry]
    /\ icmptab \in [ISlots -> IcmpEntry]
    /\ iqueue \in Seq(Packets)
    /\ iqsem.count <= IP_OQSIZ

\* The buffers that processes hold, and those with a packet in a slot or on the output
\* queue.
Held == SumFunction([p \in Tasks |-> call[p].bufs])
InUdp == SumFunction([s \in USlots |-> Len(udptab[s].queue)])
InIcmp == SumFunction([s \in ISlots |-> Len(icmptab[s].queue)])
Stored == InUdp + InIcmp + Len(iqueue)

\* Every packet buffer is accounted for, on every path through the stack: none is
\* lost when a call fails, and none is freed twice.  The semaphore of the pool
\* counts the free ones that are not promised to a process.
BuffersOwned ==
    astray = "no" =>
       /\ free + Held + Stored = NBUFS
       /\ netsem.count = free - Cardinality({p \in Tasks : call[p].at = "getbuf"})

\* The tables are sound: an ARP entry under resolution has a live process waiting for
\* it, the queue of a UDP slot stays within its bound, UDP and ICMP slots hold packets
\* that match them and, until the stack goes astray, wake their receivers, the
\* semaphore of the output queue agrees with it, and the types hold.
NetInv == TypeOK /\ ArpInv /\ UdpInv /\ IcmpInv
=============================================================================

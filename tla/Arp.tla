-------------------------------- MODULE Arp ---------------------------------
(***************************************************************************)
(* The ARP cache (net/arp.c).  A process that needs an address asks for it *)
(* up to ARP_RETRY times and waits for the message that arp_in sends when  *)
(* the answer comes.                                                       *)
(***************************************************************************)
EXTENDS NetBuf

CONSTANTS ARP_SIZ, ARP_RETRY

ASSUME ArpAssumption == ARP_SIZ \in Nat \ {0} /\ ARP_RETRY \in Nat \ {0}

Entries == 0..(ARP_SIZ - 1)

VARIABLE arpcache

ArpFree == [arstate |-> "FREE", arpaddr |-> "none", arpid |-> "none", arhaddr |-> "zero"]

arp_init == arpcache = [e \in Entries |-> ArpFree]

Broadcasts == IF ipvalid THEN {"bcast", "netbcast"} ELSE {"bcast"}

\* The entries for address a.
Found(a) == {e \in Entries : arpcache[e].arstate # "FREE" /\ arpcache[e].arpaddr = a}
First(S) == CHOOSE e \in S : \A d \in S : e <= d
In(state) == {e \in Entries : arpcache[e].arstate = state}

\* Where arp_alloc looks: for a free entry, else for a resolved one.
Allocatable == IF In("FREE") # {} THEN In("FREE") ELSE In("RESOLVED")

\* arp_resolve up to recvtime.
arp_resolve(p) ==
    /\ Runs(p, "arp_resolve")
    /\ LET c == call[p]
           e == First(Found(c.hop))
       IN  IF c.hop \in Broadcasts
           THEN /\ Goto(p, [c EXCEPT !.mac = "bcast"], "ip_out")
                /\ UNCHANGED <<arpcache, hasmsg, bufVars>>
           ELSE IF Found(c.hop) # {} /\ arpcache[e].arstate = "RESOLVED"
           THEN /\ Goto(p, [c EXCEPT !.mac = arpcache[e].arhaddr], "ip_out")
                /\ UNCHANGED <<arpcache, hasmsg, bufVars>>
           ELSE IF Found(c.hop) # {} \/ Allocatable = {}
           THEN Drop(p) /\ UNCHANGED <<arpcache, hasmsg>>
           ELSE LET s == First(Allocatable) IN
                /\ arpcache' = [arpcache EXCEPT ![s] =
                                  [ArpFree EXCEPT !.arstate = "PENDING",
                                                  !.arpaddr = c.hop, !.arpid = p]]
                /\ hasmsg' = hasmsg \ {p}
                /\ call' = [Robbed("arp", s) EXCEPT ![p] = [c EXCEPT !.at = "arp", !.slot = s]]
                /\ cpu' = "any"
                /\ UNCHANGED bufVars
    /\ UNCHANGED <<ipvalid, astray>>

\* Mutant: the entry of a host that does not answer stays pending.
GivenUpKept(s) == arpcache

\* No answer: the entry is free again.
GivenUp(s) == [arpcache EXCEPT ![s].arstate = "FREE"]

\* arp_resolve when recvtime returns.
arp_resolveResumed(p) ==
    /\ Runs(p, "arp")
    /\ LET c == call[p] IN
       \/ /\ Timeout(p) /\ c.i + 1 < ARP_RETRY
          /\ Block(p, [c EXCEPT !.i = @ + 1], "arp")
          /\ UNCHANGED <<arpcache, bufVars>>
       \/ /\ Timeout(p) /\ c.i + 1 >= ARP_RETRY
          /\ arpcache' = GivenUp(c.slot)
          /\ Drop(p)
       \/ /\ ~Timeout(p)
          /\ Goto(p, [c EXCEPT !.mac = arpcache[c.slot].arhaddr], "ip_out")
          /\ UNCHANGED <<arpcache, bufVars>>
    /\ Received(p)
    /\ UNCHANGED <<ipvalid, astray>>

\* Mutant: the message goes out before the address is in the entry.
LearnedLate(e, pk) ==
    [arpcache EXCEPT ![e].arstate = "RESOLVED",
                     ![e].arhaddr = IF arpcache[e].arstate = "PENDING" THEN @ ELSE pk.mac]

\* The sender's hardware address goes into its entry.
Learned(e, pk) == [arpcache EXCEPT ![e].arstate = "RESOLVED", ![e].arhaddr = pk.mac]

\* arp_in.  pk.src and pk.mac are the sender's addresses, pk.dst the target.
arp_in(p) ==
    /\ Runs(p, "arp_in")
    /\ LET pk == call[p].pkt
           e == First(Found(pk.src))
           wanted == pk.type = "REQ" /\ ipvalid /\ pk.dst = "me"
       IN  IF Found(pk.src) # {}
           THEN /\ arpcache' = Learned(e, pk)
                /\ IF arpcache[e].arstate = "PENDING" THEN send(arpcache[e].arpid)
                   ELSE UNCHANGED hasmsg
                /\ Return(p)
           ELSE IF wanted /\ Allocatable # {}
           THEN LET s == First(Allocatable) IN
                /\ arpcache' = [arpcache EXCEPT ![s] =
                                  [ArpFree EXCEPT !.arstate = "RESOLVED",
                                                  !.arpaddr = pk.src, !.arhaddr = pk.mac]]
                /\ call' = [Robbed("arp", s) EXCEPT ![p] = Idle]
                /\ cpu' = "any"
                /\ UNCHANGED hasmsg
           ELSE Return(p) /\ UNCHANGED <<arpcache, hasmsg>>
    /\ freebuf(call[p].bufs)
    /\ UNCHANGED <<ipvalid, astray>>

----------------------------------------------------------------------------
\* A waiting process owns its entry, and nobody else has one for the same
\* address: a pending entry belongs to the process that is going to resolve or
\* free it, so that no address stays unreachable because nobody asks any more.
ArpInv ==
    /\ \A d, e \in Entries :
          arpcache[d].arstate # "FREE" /\ arpcache[e].arstate # "FREE"
             /\ arpcache[d].arpaddr = arpcache[e].arpaddr => d = e
    /\ \A e \in Entries : arpcache[e].arstate = "PENDING" =>
          LET c == call[arpcache[e].arpid]
          IN  c.at = "arp" /\ c.slot = e /\ c.hop = arpcache[e].arpaddr

\* A datagram is sent to the hardware address of its next hop, unless the entry
\* was reused between the answer and the return of the process that waited.
RightMac ==
    \A p \in Tasks : call[p].at = "ip_out" /\ ~call[p].stale =>
        call[p].mac = IF call[p].hop \in Broadcasts THEN "bcast" ELSE call[p].hop
=============================================================================

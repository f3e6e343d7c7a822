-------------------------------- MODULE Icmp --------------------------------
(***************************************************************************)
(* Echo requests and replies (net/icmp.c).  The queue of a slot is written *)
(* without a look at its length, and its head wraps round at ICMP_SLOTS,   *)
(* not at ICMP_QSIZ: with more replies than the queue holds, or more reads *)
(* since icmp_register than it has places, the slot goes astray.           *)
(***************************************************************************)
EXTENDS NetBuf

ISlots == 0..(ICMP_SLOTS - 1)

CONSTANT IP_OQSIZ

ASSUME IcmpAssumption == ICMP_SLOTS >= ICMP_QSIZ /\ IP_OQSIZ \in Nat

VARIABLES
    icmptab,    \* queue is the circular queue; ichead is counted on its own
    iqueue,     \* the IP output queue, from iqhead to iqtail
    iqsem       \* its semaphore

IcmpFree == [icstate |-> "FREE", icremip |-> "none", icpid |-> "none",
             ichead |-> 0, queue |-> << >>]

icmp_init == icmptab = [s \in ISlots |-> IcmpFree]

\* The head after one read.
HeadNext(e) == IF e.ichead + 1 >= ICMP_SLOTS THEN 0 ELSE e.ichead + 1

\* icmp_mkpkt up to the wait of getbuf.
icmp_mkpkt(p, c, remip, type, ident, next) ==
    getbuf(p, c, [NoPkt EXCEPT !.proto = "ICMP", !.type = type, !.src = "me",
                    !.dst = remip, !.ident = ident], next)

\* Some process has registered for this reply.
Expected(pk) ==
    /\ pk.ident \in ISlots
    /\ icmptab[pk.ident].icstate # "FREE"
    /\ pk.src = icmptab[pk.ident].icremip

icmp_in(p) ==
    /\ Runs(p, "icmp_in")
    /\ LET c == call[p] IN
       \/ /\ c.pkt.type = "REQ"
          /\ icmp_mkpkt(p, c, c.pkt.src, "REPLY",
                        c.pkt.ident, "ip_enqueue")
          /\ UNCHANGED <<icmptab, hasmsg, astray>>
       \/ /\ c.pkt.type = "REPLY" /\ Expected(c.pkt)
          /\ LET s == c.pkt.ident IN
             /\ icmptab' = [icmptab EXCEPT
                  ![s].queue = Append(@, c.pkt),
                  ![s].icstate = "USED"]
             /\ IF icmptab[s].icstate = "RECV" THEN send(icmptab[s].icpid)
                ELSE UNCHANGED hasmsg
             /\ astray' = IF Len(icmptab[s].queue) >= ICMP_QSIZ THEN "overrun" ELSE astray
          /\ Return(p)
          /\ UNCHANGED bufVars
       \/ /\ c.pkt.type # "REQ" /\ ~(c.pkt.type = "REPLY" /\ Expected(c.pkt))
          /\ Drop(p)
          /\ UNCHANGED <<icmptab, hasmsg, astray>>
    /\ UNCHANGED <<ipvalid, iqueue, iqsem>>

\* ip_enqueue finds the output queue full.
OutputFull == iqsem.count >= IP_OQSIZ

\* ip_enqueue of the reply, and the freebuf of the request that follows.  A packet
\* that is promised to ipout, which has not run yet, is no longer counted by the
\* semaphore and still takes its place.
ip_enqueue(p) ==
    /\ Runs(p, "ip_enqueue")
    /\ LET c == call[p] IN
       IF OutputFull
       THEN /\ freebuf(2)
            /\ UNCHANGED <<iqueue, iqsem, astray>>
       ELSE /\ iqueue' = Append(iqueue, c.pkt)
            /\ iqsem' = signal(iqsem)
            /\ astray' = IF Len(iqueue) >= IP_OQSIZ THEN "overrun" ELSE astray
            /\ freebuf(1)
    /\ Return(p)
    /\ UNCHANGED <<ipvalid, hasmsg, icmptab>>

icmp_register(p, remip) ==
    /\ Runs(p, "start")
    /\ ~\E s \in ISlots : icmptab[s].icstate # "FREE" /\ icmptab[s].icremip = remip
    /\ LET unused == {s \in ISlots : icmptab[s].icstate = "FREE"} IN
       /\ unused # {}
       /\ icmptab' = [icmptab EXCEPT ![CHOOSE s \in unused : \A t \in unused : s <= t] =
                        [IcmpFree EXCEPT !.icstate = "USED", !.icremip = remip]]
    /\ UNCHANGED <<ipvalid, bufVars, hasmsg, call, cpu, astray, iqueue, iqsem>>

\* The packet at the head of slot s is taken, unless the head has left the array.
icmp_dequeue(p, s) ==
    IF icmptab[s].ichead >= ICMP_QSIZ
    THEN /\ astray' = "overrun"
         /\ icmptab' = [icmptab EXCEPT ![s].icstate = "USED"]
         /\ Return(p)
         /\ UNCHANGED bufVars
    ELSE /\ icmptab' = [icmptab EXCEPT ![s].icstate = "USED", ![s].queue = Tail(@),
                                       ![s].ichead = HeadNext(icmptab[s])]
         /\ call' = [(IF Len(icmptab[s].queue) = 1 THEN Robbed("icmp", s) ELSE call)
                       EXCEPT ![p] = Idle]
         /\ cpu' = "any"
         /\ freebuf(1)
         /\ UNCHANGED astray

icmp_recv(p, s) ==
    /\ Runs(p, "start")
    /\ icmptab[s].icstate = "USED"
    /\ IF icmptab[s].queue = << >>
       THEN /\ icmptab' = [icmptab EXCEPT ![s].icstate = "RECV", ![s].icpid = p]
            /\ hasmsg' = hasmsg \ {p}
            /\ Block(p, [Idle EXCEPT !.slot = s], "icmp")
            /\ UNCHANGED <<bufVars, astray>>
       ELSE icmp_dequeue(p, s) /\ UNCHANGED hasmsg
    /\ UNCHANGED <<ipvalid, iqueue, iqsem>>

\* icmp_recv when recvtime returns; as in udp_recv the slot may be another's.
icmp_recvResumed(p) ==
    /\ Runs(p, "icmp")
    /\ LET s == call[p].slot IN
       IF Timeout(p) \/ call[p].stale
       THEN /\ icmptab' = [icmptab EXCEPT ![s].icstate = "USED"]
            /\ Return(p)
            /\ astray' = IF call[p].stale THEN "stale" ELSE astray
            /\ UNCHANGED bufVars
       ELSE icmp_dequeue(p, s)
    /\ Received(p)
    /\ UNCHANGED <<ipvalid, iqueue, iqsem>>

icmp_send(p, remip, ident) ==
    /\ Runs(p, "start")
    /\ icmp_mkpkt(p, Idle, remip, "REQ", ident, "ip_send")
    /\ UNCHANGED <<ipvalid, hasmsg, icmptab, astray, iqueue, iqsem>>

\* icmp_release, which refuses while a process waits, but not while one has
\* been told of a packet and has not run yet.
icmp_release(p, s) ==
    /\ Runs(p, "start")
    /\ icmptab[s].icstate = "USED"
    /\ LET q == icmptab[s].queue IN
       /\ freebuf(Len(q))
       /\ astray' = IF Len(q) > 0 /\ icmptab[s].ichead + Len(q) > ICMP_QSIZ
                    THEN "overrun" ELSE astray
    /\ icmptab' = [icmptab EXCEPT ![s] = IcmpFree]
    /\ call' = Robbed("icmp", s)
    /\ UNCHANGED <<ipvalid, hasmsg, cpu, iqueue, iqsem>>

----------------------------------------------------------------------------
\* A process that waits for a reply has not missed it, a slot holds only replies
\* of the host it was registered for, and the semaphore of the output queue counts
\* its packets but the one that is promised to ipout: every packet that icmp_in
\* puts there is taken once.  Nothing is said of the length of a slot's queue: icmp_in
\* does not look at it, and an overrun is where astray begins.
IcmpInv ==
    /\ astray = "no" =>
       \A p \in Tasks : call[p].at = "icmp" /\ ~call[p].stale =>
          LET e == icmptab[call[p].slot] IN
          IF p \in hasmsg THEN e.icstate = "USED" /\ e.queue # << >>
          ELSE e.icstate = "RECV" /\ e.icpid = p /\ e.queue = << >>
    /\ \A s \in ISlots : \A k \in 1..Len(icmptab[s].queue) :
          icmptab[s].queue[k].src = icmptab[s].icremip
    /\ iqsem.count = Len(iqueue) - IF call["ipout"].at = "ipout" THEN 1 ELSE 0
=============================================================================

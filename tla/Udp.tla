-------------------------------- MODULE Udp ---------------------------------
(***************************************************************************)
(* UDP endpoints (net/udp.c).  A slot keeps the packets that match it      *)
(* until a process takes them; a process that finds none waits in recvtime *)
(* for the message that udp_in sends.                                      *)
(***************************************************************************)
EXTENDS NetBuf

CONSTANT Ports      \* the protocol ports in use; 0 is "any remote port"

ASSUME UdpAssumption == Ports \subseteq Nat

USlots == 0..(UDP_SLOTS - 1)

VARIABLE udptab     \* queue is the circular queue from udhead to udtail

UdpFree == [udstate |-> "FREE", remip |-> "any", remport |-> 0, locport |-> 0,
            udpid |-> "none", queue |-> << >>]

udp_init == udptab = [s \in USlots |-> UdpFree]

Least(S) == CHOOSE s \in S : \A t \in S : s <= t

Matches(e, pk) ==
    /\ e.udstate # "FREE" /\ pk.dport = e.locport
    /\ e.remport = 0 \/ pk.sport = e.remport
    /\ e.remip = "any" \/ pk.src = e.remip

\* The packet has a process to wake.
Woken(e) == e.udstate = "RECV"

\* udp_in: the first slot that matches and has room.
udp_in(p) ==
    /\ Runs(p, "udp_in")
    /\ LET c == call[p]
           fit == {s \in USlots : Matches(udptab[s], c.pkt) /\ Len(udptab[s].queue) < UDP_QSIZ}
           s == Least(fit)
       IN  IF fit = {}
           THEN Drop(p) /\ UNCHANGED <<udptab, hasmsg>>
           ELSE /\ udptab' = [udptab EXCEPT
                       ![s].queue = Append(@, c.pkt),
                       ![s].udstate = IF Woken(udptab[s]) THEN "USED" ELSE @]
                /\ IF Woken(udptab[s]) THEN send(udptab[s].udpid) ELSE UNCHANGED hasmsg
                /\ Return(p)
                /\ UNCHANGED bufVars
    /\ UNCHANGED <<ipvalid, astray>>

udp_register(p, remip, remport, locport) ==
    /\ Runs(p, "start")
    /\ ~\E s \in USlots : /\ udptab[s].udstate # "FREE"
                          /\ udptab[s].remip = remip
                          /\ udptab[s].remport = remport
                          /\ udptab[s].locport = locport
    /\ LET unused == {s \in USlots : udptab[s].udstate = "FREE"} IN
       /\ unused # {}
       /\ udptab' = [udptab EXCEPT ![Least(unused)] =
                       [udstate |-> "USED", remip |-> remip, remport |-> remport,
                        locport |-> locport, udpid |-> "none", queue |-> << >>]]
    /\ UNCHANGED <<ipvalid, bufVars, hasmsg, call, cpu, astray>>

\* The first packet of slot s is taken and its buffer freed.  A process that was
\* told of it and has not run yet finds it gone.
udp_dequeue(p, s) ==
    /\ udptab' = [udptab EXCEPT ![s].udstate = "USED", ![s].queue = Tail(@)]
    /\ call' = [(IF Len(udptab[s].queue) = 1 THEN Robbed("udp", s) ELSE call)
                  EXCEPT ![p] = Idle]
    /\ cpu' = "any"
    /\ freebuf(1)

udp_recv(p, s) ==
    /\ Runs(p, "start")
    /\ udptab[s].udstate = "USED"
    /\ IF udptab[s].queue = << >>
       THEN /\ udptab' = [udptab EXCEPT ![s].udstate = "RECV", ![s].udpid = p]
            /\ hasmsg' = hasmsg \ {p}
            /\ Block(p, [Idle EXCEPT !.slot = s], "udp")
            /\ UNCHANGED bufVars
       ELSE udp_dequeue(p, s) /\ UNCHANGED hasmsg
    /\ UNCHANGED <<ipvalid, astray>>

\* udp_recv when recvtime returns.
udp_recvResumed(p) ==
    /\ Runs(p, "udp")
    /\ ~call[p].stale
    /\ LET s == call[p].slot IN
       IF Timeout(p)
       THEN /\ udptab' = [udptab EXCEPT ![s].udstate = "USED"]
            /\ Return(p)
            /\ UNCHANGED bufVars
       ELSE udp_dequeue(p, s)
    /\ Received(p)
    /\ UNCHANGED <<ipvalid, astray>>

\* The same when the slot was released, or its packet taken, after the process
\* began to wait.  The slot is marked used whatever has become of it, a packet
\* is taken from a queue that may be empty or another's, and a buffer that is
\* free already is freed again.
udp_recvStale(p) ==
    /\ Runs(p, "udp")
    /\ call[p].stale
    /\ udptab' = [udptab EXCEPT ![call[p].slot].udstate = "USED"]
    /\ astray' = "stale"
    /\ Received(p)
    /\ Return(p)
    /\ UNCHANGED <<ipvalid, bufVars>>

\* udp_recvaddr also reports the sender; it changes the same state.
udp_recvaddr(p, s) == udp_recv(p, s)

udp_send(p, s) ==
    /\ Runs(p, "start")
    /\ udptab[s].udstate # "FREE" /\ udptab[s].remip # "any"
    /\ getbuf(p, Idle, [NoPkt EXCEPT !.proto = "UDP", !.src = "me",
                          !.dst = udptab[s].remip, !.sport = udptab[s].locport,
                          !.dport = udptab[s].remport], "ip_send")
    /\ UNCHANGED <<ipvalid, hasmsg, udptab, astray>>

udp_sendto(p, s, remip, remport) ==
    /\ Runs(p, "start")
    /\ udptab[s].udstate # "FREE"
    /\ getbuf(p, Idle, [NoPkt EXCEPT !.proto = "UDP", !.src = "me", !.dst = remip,
                          !.sport = udptab[s].locport, !.dport = remport], "ip_send")
    /\ UNCHANGED <<ipvalid, hasmsg, udptab, astray>>

\* Mutant: the first packet is forgotten, not freed.
ReturnedButOne(q) == IF q = << >> THEN 0 ELSE Len(q) - 1

\* The buffers that come back from a queue that is given up.
Returned(q) == Len(q)

udp_release(p, s) ==
    /\ Runs(p, "start")
    /\ udptab[s].udstate # "FREE"
    /\ freebuf(Returned(udptab[s].queue))
    /\ udptab' = [udptab EXCEPT ![s] = UdpFree]
    /\ call' = Robbed("udp", s)
    /\ UNCHANGED <<ipvalid, hasmsg, cpu, astray>>

----------------------------------------------------------------------------
\* A process that waits for a packet has not missed one: as long as it holds no
\* message its slot says so, names it, and has no packet; and whoever has been
\* told of a packet finds one.  A slot holds only packets that match it.
UdpInv ==
    /\ astray = "no" =>
       \A p \in Tasks : call[p].at = "udp" /\ ~call[p].stale =>
          LET e == udptab[call[p].slot] IN
          IF p \in hasmsg THEN e.udstate = "USED" /\ e.queue # << >>
          ELSE e.udstate = "RECV" /\ e.udpid = p /\ e.queue = << >>
    /\ \A s \in USlots : /\ Len(udptab[s].queue) <= UDP_QSIZ
                         /\ \A k \in 1..Len(udptab[s].queue) :
                               /\ udptab[s].queue[k].dport = udptab[s].locport
                               /\ udptab[s].remip \in {"any", udptab[s].queue[k].src}
=============================================================================

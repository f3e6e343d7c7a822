------------------------------- MODULE Ports --------------------------------
(***************************************************************************)
(* Ports: bounded message queues between processes (system/ptinit.c,       *)
(* ptcreate.c, ptsend.c, ptrecv.c, ptreset.c, ptdelete.c, ptclear.c).      *)
(*                                                                         *)
(* A call runs with interrupts disabled, so it is one step except where it *)
(* may lose the CPU with work still to do: inside wait, and at the end of  *)
(* the two calls by which _ptclear releases the processes that wait.  At   *)
(* these points call says where the process is and what it has in its      *)
(* local variables, and every process that is on no queue may run.         *)
(***************************************************************************)
EXTENDS SemOps, FiniteSets, FiniteSetsExt

CONSTANTS
    Procs,      \* processes that use ports
    NPORTS,     \* size of porttab
    NSEM,       \* semaphores left for ports
    PT_MSGS,    \* message nodes
    Counts,     \* sizes given to ptcreate
    Msgs,       \* messages
    MaxSeq,     \* bound: how often the sequence number of a port changes
    MaxKills    \* bound: processes killed

ASSUME PortsAssumption ==
    /\ NPORTS \in Nat \ {0}
    /\ NSEM \in Nat \ {0}
    /\ PT_MSGS \in Nat
    /\ Counts \subseteq Nat
    /\ MaxSeq \in Nat /\ MaxKills \in Nat
    /\ IsFiniteSet(Procs)

Ports == 0..(NPORTS - 1)
Sems == 0..(NSEM - 1)
SYSERR == -1

VARIABLES
    porttab,    \* the port table; msgs is the list from pthead to pttail
    ptfree,     \* nodes on the free list
    ptnextid,   \* where ptcreate looks first
    semtab,     \* the semaphores
    nextsem,    \* where newsem looks first
    call,       \* the call each process is in
    dead,       \* the processes that have been killed
    crashed,    \* panic, or the null pointer of an empty port followed
    lost        \* history: a process was killed ready inside a call

vars == <<porttab, ptfree, ptnextid, semtab, nextsem, call, dead, crashed, lost>>
lifeVars == <<dead, lost>>

User == [at |-> "user", port |-> 0, seq |-> 0, msg |-> 0, new |-> "FREE"]
Call(at, k, msg, new) ==
    [at |-> at, port |-> k, seq |-> porttab[k].seq, msg |-> msg, new |-> new]

Blocked(p) == \E s \in Sems : Queued(semtab[s], p)
Runs(p, at) == ~crashed /\ p \notin dead /\ ~Blocked(p) /\ call[p].at = at

Bad(s) == s = SYSERR \/ ~semtab[s].used

----------------------------------------------------------------------------
\* ptinit
Init ==
    /\ porttab = [k \in Ports |-> [state |-> "FREE", ssem |-> SYSERR,
                                   rsem |-> SYSERR, maxcnt |-> 0, seq |-> 0,
                                   msgs |-> << >>]]
    /\ ptfree = PT_MSGS
    /\ ptnextid = 0
    /\ semtab = [s \in Sems |-> NoSem]
    /\ nextsem = 0
    /\ call = [p \in Procs |-> User]
    /\ dead = {} /\ crashed = FALSE /\ lost = FALSE

\* newsem from the cursor at: the semaphore it finds, SYSERR if none is free.
newsem(tab, at) ==
    LET free == {k \in 0..(NSEM - 1) : ~tab[(at + k) % NSEM].used}
    IN  IF free = {} THEN SYSERR ELSE (at + Min(free)) % NSEM
Created(tab, s, n) == IF s = SYSERR THEN tab ELSE [tab EXCEPT ![s] = semcreate(n)]

\* The cursor after newsem has found s; it comes back to at when it finds none.
After(s, at) == IF s = SYSERR THEN at ELSE (s + 1) % NSEM

\* ptcreate takes a free port, and does not look whether it got its semaphores.
ptcreate(p, count) ==
    /\ Runs(p, "user")
    /\ \E i \in 0..(NPORTS - 1) :
         LET k == (ptnextid + i) % NPORTS
             s == newsem(semtab, nextsem)
             tab1 == Created(semtab, s, count)
             r == newsem(tab1, After(s, nextsem))
         IN  /\ porttab[k].state = "FREE"
             /\ \A j \in 0..(i - 1) : porttab[(ptnextid + j) % NPORTS].state # "FREE"
             /\ porttab[k].seq < MaxSeq
             /\ porttab' = [porttab EXCEPT ![k] =
                              [state |-> "ALLOC", ssem |-> s, rsem |-> r,
                               maxcnt |-> count, seq |-> @.seq + 1, msgs |-> << >>]]
             /\ semtab' = Created(tab1, r, 0)
             /\ nextsem' = After(r, After(s, nextsem))
             /\ ptnextid' = (k + 1) % NPORTS
    /\ UNCHANGED <<ptfree, call, crashed, lifeVars>>

----------------------------------------------------------------------------
Signalled(tab, s) == IF Bad(s) THEN tab ELSE [tab EXCEPT ![s] = signal(@)]

\* The rest of ptsend, with the semaphores tab: take a node, link it in, and
\* signal a receiver.
Enqueue(tab, k, m) ==
    IF ptfree = 0
    THEN /\ crashed' = TRUE
         /\ semtab' = tab
         /\ UNCHANGED <<porttab, ptfree>>
    ELSE /\ porttab' = [porttab EXCEPT ![k].msgs = Append(@, m)]
         /\ ptfree' = ptfree - 1
         /\ semtab' = Signalled(tab, porttab[k].rsem)
         /\ UNCHANGED crashed

\* The rest of ptrecv: take the first message, free its node, and signal a
\* sender.
Dequeue(tab, k) ==
    IF porttab[k].msgs = << >>
    THEN /\ crashed' = TRUE
         /\ semtab' = tab
         /\ UNCHANGED <<porttab, ptfree>>
    ELSE /\ porttab' = [porttab EXCEPT ![k].msgs = Tail(@)]
         /\ ptfree' = ptfree + 1
         /\ semtab' = Signalled(tab, porttab[k].ssem)
         /\ UNCHANGED crashed

\* Mutant: the sequence number is not compared.
StillOpenByState(c) == porttab[c.port].state = "ALLOC"

\* The port is the one the call started on, and has not been reset.
StillOpen(c) == porttab[c.port].state = "ALLOC" /\ porttab[c.port].seq = c.seq

ptsend(p, k, m) ==
    /\ Runs(p, "user")
    /\ porttab[k].state = "ALLOC"
    /\ ~Bad(porttab[k].ssem)
    /\ LET s == porttab[k].ssem
           tab == [semtab EXCEPT ![s] = wait(@, p)]
       IN  IF Queued(tab[s], p)
           THEN /\ semtab' = tab
                /\ call' = [call EXCEPT ![p] = Call("send", k, m, "FREE")]
                /\ UNCHANGED <<porttab, ptfree, crashed>>
           ELSE /\ Enqueue(tab, k, m)
                /\ UNCHANGED call
    /\ UNCHANGED <<ptnextid, nextsem, lifeVars>>

ptsendResumed(p) ==
    /\ Runs(p, "send")
    /\ IF StillOpen(call[p]) THEN Enqueue(semtab, call[p].port, call[p].msg)
       ELSE UNCHANGED <<porttab, ptfree, semtab, crashed>>
    /\ call' = [call EXCEPT ![p] = User]
    /\ UNCHANGED <<ptnextid, nextsem, lifeVars>>

ptrecv(p, k) ==
    /\ Runs(p, "user")
    /\ porttab[k].state = "ALLOC"
    /\ ~Bad(porttab[k].rsem)
    /\ LET r == porttab[k].rsem
           tab == [semtab EXCEPT ![r] = wait(@, p)]
       IN  IF Queued(tab[r], p)
           THEN /\ semtab' = tab
                /\ call' = [call EXCEPT ![p] = Call("recv", k, 0, "FREE")]
                /\ UNCHANGED <<porttab, ptfree, crashed>>
           ELSE /\ Dequeue(tab, k)
                /\ UNCHANGED call
    /\ UNCHANGED <<ptnextid, nextsem, lifeVars>>

ptrecvResumed(p) ==
    /\ Runs(p, "recv")
    /\ IF StillOpen(call[p]) THEN Dequeue(semtab, call[p].port)
       ELSE UNCHANGED <<porttab, ptfree, semtab, crashed>>
    /\ call' = [call EXCEPT ![p] = User]
    /\ UNCHANGED <<ptnextid, nextsem, lifeVars>>

----------------------------------------------------------------------------
\* Mutant: the count is set and nobody is released.
FreedUnheard(tab, s, new, n) ==
    IF Bad(s) THEN tab ELSE [tab EXCEPT ![s].count = n]

\* The release of the processes waiting on semaphore s of a port: reset to n
\* when the port goes on, deleted when it does not.
Freed(tab, s, new, n) ==
    IF Bad(s) THEN tab
    ELSE [tab EXCEPT ![s] = IF new = "ALLOC" THEN semreset(@, n) ELSE semdelete(@)]

\* Mutant: the nodes of the messages are not returned.
NodesFreedLost(k) == ptfree

NodesFreed(k) == ptfree + Len(porttab[k].msgs)

\* ptreset (new = "ALLOC") and ptdelete (new = "FREE"), up to the release of the
\* senders.  The nodes of all messages go back to the free list.  What the caller's
\* function does with each message is taken not to give up the processor.
ptclear(p, k, new) ==
    /\ Runs(p, "user")
    /\ porttab[k].state = "ALLOC"
    /\ porttab[k].seq < MaxSeq
    /\ porttab' = [porttab EXCEPT ![k].state = "LIMBO",
                                  ![k].seq = @ + 1, ![k].msgs = << >>]
    /\ ptfree' = NodesFreed(k)
    /\ semtab' = Freed(semtab, porttab[k].ssem, new, porttab[k].maxcnt)
    /\ call' = [call EXCEPT ![p] = Call("clear", k, 0, new)]
    /\ UNCHANGED <<ptnextid, nextsem, crashed, lifeVars>>

\* The release of the receivers.
ptclearReceivers(p) ==
    /\ Runs(p, "clear")
    /\ LET k == call[p].port IN
       semtab' = Freed(semtab, porttab[k].rsem, call[p].new, 0)
    /\ call' = [call EXCEPT ![p].at = "cleared"]
    /\ UNCHANGED <<porttab, ptfree, ptnextid, nextsem, crashed, lifeVars>>

\* The port leaves limbo.
ptclearEnd(p) ==
    /\ Runs(p, "cleared")
    /\ LET k == call[p].port IN
       /\ porttab' = [porttab EXCEPT ![k].state = call[p].new]
       /\ ptnextid' = IF call[p].new = "FREE" THEN k ELSE ptnextid
    /\ call' = [call EXCEPT ![p] = User]
    /\ UNCHANGED <<ptfree, semtab, nextsem, crashed, lifeVars>>

\* kill of p by a process that is not modelled.  A process that waits leaves
\* the queue; one that is ready takes with it what it was released for.
kill(p) ==
    /\ ~crashed /\ p \notin dead
    /\ Cardinality(dead) < MaxKills
    /\ dead' = dead \cup {p}
    /\ lost' = (lost \/ (call[p].at # "user" /\ ~Blocked(p)))
    /\ semtab' = [s \in Sems |-> IF Queued(semtab[s], p) THEN Unwait(semtab[s], p)
                                 ELSE semtab[s]]
    /\ UNCHANGED <<porttab, ptfree, ptnextid, nextsem, call, crashed>>

\* A process does something else.
other == UNCHANGED vars

Resumed(p) == ptsendResumed(p) \/ ptrecvResumed(p) \/ ptclearReceivers(p) \/ ptclearEnd(p)

Next ==
    \/ \E p \in Procs :
         \/ \E n \in Counts : ptcreate(p, n)
         \/ \E k \in Ports :
              \/ \E m \in Msgs : ptsend(p, k, m)
              \/ ptrecv(p, k)
              \/ \E new \in {"ALLOC", "FREE"} : ptclear(p, k, new)
         \/ Resumed(p)
         \/ kill(p)
    \/ other

Spec == Init /\ [][Next]_vars

\* A process that has been released runs again.
FairSpec == Spec /\ \A p \in Procs : WF_vars(Resumed(p))

----------------------------------------------------------------------------
TypeOK ==
    /\ porttab \in [Ports -> [state : {"FREE", "LIMBO", "ALLOC"},
                              ssem : Sems \cup {SYSERR}, rsem : Sems \cup {SYSERR},
                              maxcnt : Counts \cup {0}, seq : 0..MaxSeq,
                              msgs : Seq(Msgs)]]
    /\ ptfree \in 0..PT_MSGS
    /\ ptnextid \in Ports
    /\ semtab \in [Sems -> [used : BOOLEAN, count : Int, queue : Seq(Procs)]]
    /\ nextsem \in Sems
    /\ call \in [Procs -> [at : {"user", "send", "recv", "clear", "cleared"},
                           port : Ports, seq : 0..MaxSeq, msg : Msgs \cup {0},
                           new : {"FREE", "ALLOC"}]]
    /\ dead \in SUBSET Procs
    /\ crashed \in BOOLEAN /\ lost \in BOOLEAN

\* The processes inside wait of a call on port k as it is now, still queued or
\* released already.
Inside(k, at) == {p \in Procs \ dead : /\ call[p].at = at /\ call[p].port = k
                                       /\ call[p].seq = porttab[k].seq}

\* While a port is open, what its semaphores count is what is there: ptssem the
\* slots that are neither filled nor promised to a sender inside wait, ptrsem
\* the messages not promised to a receiver.  A process killed after it was
\* released takes a slot or a message with it, and never adds one.
SlotInv ==
    \A k \in Ports :
        LET pt == porttab[k]
            slots == pt.maxcnt - Len(pt.msgs) - Cardinality(Inside(k, "send"))
            msgs == Len(pt.msgs) - Cardinality(Inside(k, "recv"))
        IN  pt.state = "ALLOC" /\ ~Bad(pt.ssem) /\ ~Bad(pt.rsem) =>
              IF lost THEN semtab[pt.ssem].count <= slots /\ semtab[pt.rsem].count <= msgs
              ELSE semtab[pt.ssem].count = slots /\ semtab[pt.rsem].count = msgs

\* The messages in the first n ports of pt.
Filled(pt, n) ==
    LET sum[k \in 0..n] == IF k = 0 THEN 0 ELSE sum[k - 1] + Len(pt[k - 1].msgs)
    IN  sum[n]

\* No message node is lost or used twice, and none is missing as long as there
\* are as many as the ports have room for: ptsend never panics, and ptrecv
\* never finds its port empty.
NodesConserved ==
    /\ ptfree + Filled(porttab, NPORTS) = PT_MSGS
    /\ ~crashed

\* Nobody is left behind in a port that was reset or deleted: a process waits
\* only on a semaphore of a port that is open and has not changed since, or is
\* just being cleared.
NobodyStranded ==
    \A p \in Procs : Blocked(p) =>
        LET pt == porttab[call[p].port] IN
        \/ pt.state = "ALLOC" /\ pt.seq = call[p].seq
        \/ pt.state = "LIMBO" /\ pt.seq = call[p].seq + 1

\* A port is sound: counts, message nodes and waiting processes agree with its
\* state, whatever resets, deletions and kills come between the two halves of a
\* send or a receive.
PortInv == TypeOK /\ SlotInv /\ NodesConserved /\ NobodyStranded

Chan == INSTANCE Channel WITH
            Caps <- Counts,
            chan <- [k \in Ports |->
                       IF porttab[k].state = "ALLOC"
                       THEN [open |-> TRUE, cap |-> porttab[k].maxcnt,
                             msgs |-> porttab[k].msgs]
                       ELSE [open |-> FALSE, cap |-> 0, msgs |-> << >>]]

\* Ports are channels: messages leave in the order in which they came, a port
\* never holds more than the count it was created with, and what was sent
\* before a reset does not arrive after it.
IsChannel == Chan!Spec

\* Clearing a port frees the processes that wait on it: they return.
WaitersReturn ==
    \A p \in Procs :
        (call[p].at \in {"send", "recv"} /\ porttab[call[p].port].seq # call[p].seq)
            ~> (call[p].at = "user" \/ p \in dead \/ lost)
=============================================================================

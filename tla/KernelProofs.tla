---------------------------- MODULE KernelProofs ----------------------------
(***************************************************************************)
(* For any number of processes, semaphores, stacks and any programs: the   *)
(* queues agree with the states of the processes, exactly one process is   *)
(* current, the counts of the semaphores tell how many wait, and no call   *)
(* leaves rescheduling deferred.  The second half adds, on top of that     *)
(* invariant, the types, the order of the ready list, who runs, messages,  *)
(* semaphore queues, the count of live processes and their stacks.         *)
(***************************************************************************)
EXTENDS Kernel, QueueProofs, FiniteSetTheorems

\* A process in this state, waiting for this semaphore if any, is on list q.
StateOn(state, sem, q) ==
    \/ state = "READY" /\ q = readylist
    \/ state \in {"SLEEP", "RECTIM"} /\ q = sleepq
    \/ state = "WAIT" /\ q = sem

\* The lists qs are the ones the states st and the semaphores sm tell of.
Agree(st, qs, sm) ==
    /\ Lists(qs, Qids, Pids)
    /\ \A q \in Qids, p \in Pids : Has(qs[q], p) <=> StateOn(st[p], sm[p], q)

Running == {"CURR", "READY"}

\* What the caller of resched must have established ...
Schedulable(st, qs, sm) ==
    /\ st \in [Pids -> PrStates]
    /\ sm \in [Pids -> Sems \cup {-1}]
    /\ Agree(st, qs, sm)
    /\ \A p \in Pids : st[p] = "CURR" => p = currpid
    /\ st[NULLPROC] \in Running

\* ... and what resched then establishes.
Scheduled(st, qs, sm) ==
    /\ prstate' \in [Pids -> PrStates]
    /\ currpid' \in Pids
    /\ Agree(prstate', queue', sm)
    /\ \A p \in Pids : prstate'[p] = "CURR" <=> p = currpid'
    /\ \A p \in Pids : prstate'[p] = st[p] \/ {prstate'[p], st[p]} \subseteq Running
    /\ \A s \in Sems : queue'[s] = qs[s]

\* The queue identifiers are distinct and the null process is a process.
LEMMA Identifiers ==
    /\ NULLPROC \in Pids
    /\ Sems \subseteq Qids
    /\ readylist \in Qids /\ readylist \notin Sems
    /\ sleepq \in Qids /\ sleepq \notin Sems /\ sleepq # readylist
    /\ -1 \notin Qids
  BY ProcTabAssumption DEF NULLPROC, Pids, Sems, Qids, readylist, sleepq

\* A switch of resched leaves exactly one current process and lists that agree
\* with the states, and touches no semaphore's queue.
LEMMA SwitchSchedules ==
  ASSUME NEW st, NEW qs, NEW ks, NEW sm, currpid \in Pids,
         Schedulable(st, qs, sm), Switch(st, qs, ks)
  PROVE  Scheduled(st, qs, sm)
<1> USE Identifiers
<1> DEFINE stay == st[currpid] = "CURR"
           prio == prprio[currpid]
           qs1 == IF stay THEN insert(qs, ks, currpid, readylist, prio) ELSE qs
           st1 == IF stay THEN [st EXCEPT ![currpid] = "READY"] ELSE st
           new == Head(qs1[readylist])
<1>1. /\ currpid' = new
      /\ prstate' = [st1 EXCEPT ![new] = "CURR"]
      /\ queue' = dequeue(qs1, readylist)
  BY Zenon DEF Switch
<1>2. /\ st1 \in [Pids -> PrStates]
      /\ Agree(st1, qs1, sm)
      /\ \A p \in Pids : st1[p] # "CURR"
      /\ \A p \in Pids : st1[p] = st[p] \/ {st1[p], st[p]} \subseteq Running
      /\ \A s \in Sems : qs1[s] = qs[s]
      /\ qs1[readylist] # << >>
  <2>1. CASE stay
    <3>1. ~Has(qs[readylist], currpid)
      BY <2>1 DEF Schedulable, Agree, StateOn
    <3>2. Linked(qs1, qs, Qids, Pids, readylist, currpid)
      BY <2>1, <3>1, insertLists DEF Schedulable, Agree
    <3>3. /\ st1 \in [Pids -> PrStates] /\ st1[currpid] = "READY"
          /\ \A p \in Pids \ {currpid} : st1[p] = st[p]
      BY <2>1 DEF Schedulable, PrStates
    <3> HIDE DEF qs1, st1
    <3>4. Agree(st1, qs1, sm)
      BY <2>1, <3>2, <3>3 DEF Schedulable, Agree, StateOn, Linked
    <3>5. \A p \in Pids : st1[p] # "CURR"
      BY <3>3 DEF Schedulable
    <3>6. \A p \in Pids : st1[p] = st[p] \/ {st1[p], st[p]} \subseteq Running
      BY <2>1, <3>3 DEF Running
    <3> QED
      BY <3>2, <3>3, <3>4, <3>5, <3>6 DEF Linked
  <2>2. CASE ~stay
    <3>1. qs1 = qs /\ st1 = st
      BY <2>2
    <3> HIDE DEF qs1, st1
    <3>2. \A p \in Pids : st[p] # "CURR"
      BY <2>2 DEF Schedulable
    <3>3. Has(qs[readylist], NULLPROC)
      BY <3>2 DEF Schedulable, Agree, StateOn, Running
    <3>4. qs[readylist] # << >>
      <4>1. Len(qs[readylist]) # 0
        BY <3>3 DEF Has
      <4> QED
        BY <4>1
    <3> QED
      BY <3>1, <3>2, <3>4 DEF Schedulable
  <2> QED
    BY <2>1, <2>2
<1> HIDE DEF st1, qs1
<1>3. /\ new \in Pids /\ Has(qs1[readylist], new)
      /\ Unlinked(queue', qs1, Qids, Pids, readylist, new)
  BY <1>1, <1>2, dequeueLists DEF Agree
<1>4. st1[new] = "READY"
  BY <1>2, <1>3 DEF Agree, StateOn, Schedulable
<1> HIDE DEF new
<1>5. /\ prstate' \in [Pids -> PrStates] /\ prstate'[new] = "CURR"
      /\ \A p \in Pids \ {new} : prstate'[p] = st1[p]
  BY <1>1, <1>2, <1>3 DEF PrStates
<1>6. Agree(prstate', queue', sm)
  BY <1>2, <1>3, <1>4, <1>5, SMTT(60) DEF Agree, StateOn, Unlinked
<1>7. \A p \in Pids : prstate'[p] = "CURR" <=> p = currpid'
  BY <1>1, <1>2, <1>3, <1>5
<1>8. \A p \in Pids : prstate'[p] = st[p] \/ {prstate'[p], st[p]} \subseteq Running
  BY <1>2, <1>3, <1>4, <1>5 DEF Running
<1>9. \A s \in Sems : queue'[s] = qs[s]
  BY <1>2, <1>3 DEF Unlinked
<1> QED
  BY <1>1, <1>3, <1>5, <1>6, <1>7, <1>8, <1>9 DEF Scheduled

\* The same for resched, whether the current process keeps the CPU or not.
LEMMA ReschedSchedules ==
  ASSUME NEW st, NEW qs, NEW ks, NEW sm, NEW slice, currpid \in Pids,
         Schedulable(st, qs, sm), ReschedSlice(st, qs, ks, slice)
  PROVE  Scheduled(st, qs, sm)
<1>1. CASE Switch(st, qs, ks)
  BY <1>1, SwitchSchedules
<1>2. CASE /\ st[currpid] = "CURR"
           /\ prstate' = st /\ queue' = qs /\ currpid' = currpid
  BY <1>2 DEF Schedulable, Scheduled
<1> QED
  BY <1>1, <1>2 DEF ReschedSlice, KeepsCpu

\* What the caller of ready must have established: pid is on no list, and the
\* current process goes on.
Readyable(pid, st, qs, sm) ==
    /\ pid \in Pids \ {currpid}
    /\ st \in [Pids -> PrStates]
    /\ sm \in [Pids -> Sems \cup {-1}]
    /\ Lists(qs, Qids, Pids)
    /\ \A q \in Qids, p \in Pids :
          Has(qs[q], p) <=> p # pid /\ StateOn(st[p], sm[p], q)
    /\ \A p \in Pids : st[p] = "CURR" <=> p = currpid
    /\ st[NULLPROC] \in Running

\* ready links the process, and reschedules unless that is deferred; then the
\* current process goes on.
LEMMA ReadySchedules ==
  ASSUME NEW pid, NEW st, NEW qs, NEW ks, NEW sm, currpid \in Pids,
         ndefers \in Nat, Readyable(pid, st, qs, sm), Ready(pid, st, qs, ks)
  PROVE  /\ Scheduled([st EXCEPT ![pid] = "READY"], qs, sm)
         /\ ndefers' = ndefers
         /\ ndefers > 0 => currpid' = currpid
<1> USE Identifiers
<1> DEFINE st1 == [st EXCEPT ![pid] = "READY"]
           qs1 == insert(qs, ks, pid, readylist, prprio[pid])
           ks1 == insertKey(ks, pid, prprio[pid])
<1>1. Linked(qs1, qs, Qids, Pids, readylist, pid)
  BY insertLists DEF Readyable
<1>2. /\ st1 \in [Pids -> PrStates] /\ st1[pid] = "READY"
      /\ \A p \in Pids \ {pid} : st1[p] = st[p]
  BY DEF Readyable, PrStates
<1>3. IF ndefers > 0 THEN Deferred(st1, qs1, ks1)
      ELSE Resched(st1, qs1, ks1) /\ UNCHANGED deferVars
  BY Zenon DEF Ready
<1> HIDE DEF st1, qs1, ks1
<1>4. Agree(st1, qs1, sm)
  BY <1>1, <1>2 DEF Readyable, Agree, StateOn, Linked
<1>5. \A p \in Pids : st1[p] = "CURR" <=> p = currpid
  BY <1>2 DEF Readyable
<1>6. Schedulable(st1, qs1, sm)
  BY <1>2, <1>4, <1>5 DEF Readyable, Schedulable, Running
<1>7. \A s \in Sems : qs1[s] = qs[s]
  BY <1>1 DEF Linked
<1>8. CASE ndefers > 0
  <2>1. prstate' = st1 /\ queue' = qs1 /\ currpid' = currpid /\ ndefers' = ndefers
    BY <1>3, <1>8 DEF Deferred
  <2>2. Scheduled(st1, qs, sm)
    BY <2>1, <1>2, <1>4, <1>5, <1>7 DEF Scheduled
  <2> QED
    BY <2>1, <2>2 DEF st1
<1>9. CASE ~(ndefers > 0)
  <2>1. Scheduled(st1, qs1, sm)
    BY <1>3, <1>6, <1>9, ReschedSchedules DEF Resched
  <2>2. Scheduled(st1, qs, sm)
    BY <2>1, <1>7 DEF Scheduled
  <2> QED
    BY <2>2, <1>3, <1>9 DEF st1, deferVars
<1> QED
  BY <1>8, <1>9

----------------------------------------------------------------------------
FrameType == [at : Ats, sem : Sems, cnt : Nat, pid : Pids]

\* The types the argument uses.
StateTypes ==
    /\ prstate \in [Pids -> PrStates]
    /\ prsem \in [Pids -> Sems \cup {-1}]
    /\ prparent \in [Pids -> Pids]
    /\ sstate \in [Sems -> {"FREE", "USED"}]
    /\ scount \in [Sems -> Int]
    /\ nextsem \in Sems
    /\ currpid \in Pids
    /\ nextpid \in 1..NPROC
    /\ frame \in [Pids -> FrameType]

\* A process that is not in a loop, of kill or booting has a frame like this.
FrameOK(f, p) ==
    /\ f \in FrameType
    /\ f.at \notin Loops \cup {"boot"}
    /\ p = NULLPROC => f.at \in {"user", "clkrest"}
    /\ f.at = "kill" => f.pid # NULLPROC

\* Only the current process is in a loop that defers rescheduling; the null
\* process is in no call, and no call is killing it.
FrameInv ==
    /\ \A p \in Pids \ {currpid} : FrameOK(frame[p], p)
    /\ LET f == frame[currpid] IN
       \/ FrameOK(f, currpid)
       \/ f.at = "wakeup"
       \/ f.at \in Loops /\ currpid # NULLPROC
       \/ f.at = "boot" /\ currpid = NULLPROC /\ ~TableFull
    /\ ndefers = IF frame[currpid].at \in Loops THEN 1 ELSE 0
    /\ halted => frame[currpid].at \notin Loops

\* The count of semaphore s tells the length of its queue.
CountOK(qs, sc, s) == Len(qs[s]) = IF sc[s] < 0 THEN -sc[s] ELSE 0

\* Nobody waits for a semaphore that does not exist.
FreeSemInv ==
    \A s \in Sems : sstate[s] = "FREE" =>
        \/ queue[s] = << >>
        \/ frame[currpid].at = "semdelete" /\ frame[currpid].sem = s

WaitInv == \A p \in Pids : prstate[p] = "WAIT" => prsem[p] \in Sems

\* The inductive invariant.
IInv ==
    /\ StateTypes
    /\ Agree(prstate, queue, prsem)
    /\ CurrInv
    /\ SemInv
    /\ FreeSemInv
    /\ WaitInv
    /\ FrameInv

\* What holds whenever the current process is in no loop.
LEMMA OutsideLoops ==
  ASSUME IInv, frame[currpid].at \notin Loops
  PROVE  /\ ndefers = 0
         /\ \A s \in Sems : CountOK(queue, scount, s)
         /\ \A s \in Sems : sstate[s] = "FREE" => queue[s] = << >>
  BY DEF IInv, SemInv, FreeSemInv, FrameInv, CountOK, Loops

\* The state as it is may be rescheduled from.
LEMMA CurrentSchedulable ==
  ASSUME IInv
  PROVE  /\ Schedulable(prstate, queue, prsem)
         /\ prstate[currpid] = "CURR"
         /\ currpid \in Pids
         /\ prstate[NULLPROC] \in Running
         /\ \A p \in Pids : prstate[p] = "CURR" <=> p = currpid
  BY Identifiers DEF IInv, StateTypes, CurrInv, Schedulable, Running

\* What a step establishes: the types of the tables,
TypesAfter ==
    /\ prsem' \in [Pids -> Sems \cup {-1}]
    /\ prparent' \in [Pids -> Pids]
    /\ sstate' \in [Sems -> {"FREE", "USED"}]
    /\ scount' \in [Sems -> Int]
    /\ nextsem' \in Sems
    /\ nextpid' \in 1..NPROC

\* the frames of processes none of which is in a loop,
FramesAfter ==
    /\ frame' \in [Pids -> FrameType]
    /\ \A p \in Pids : FrameOK(frame'[p], p)

\* and semaphores that agree with the states and lists from which it calls
\* resched.
SemsAfter(st, qs) ==
    /\ st[NULLPROC] \in Running
    /\ \A p \in Pids : st[p] = "WAIT" => prsem'[p] \in Sems
    /\ \A s \in Sems : CountOK(qs, scount', s)
    /\ \A s \in Sems : sstate'[s] = "FREE" => qs[s] = << >>

\* A step after which no process is in a loop.
LEMMA StepOutsideLoops ==
  ASSUME NEW st, NEW qs, Scheduled(st, qs, prsem'),
         TypesAfter, SemsAfter(st, qs), FramesAfter, ndefers' = 0
  PROVE  IInv'
<1> USE Identifiers
<1>1. StateTypes'
  BY DEF StateTypes, Scheduled, TypesAfter, FramesAfter
<1>2. Agree(prstate, queue, prsem)'
  BY DEF Scheduled
<1>3. CurrInv'
  BY DEF CurrInv, Scheduled, Running, SemsAfter
<1>4. SemInv'
  BY DEF SemInv, Scheduled, CountOK, SemsAfter
<1>5. FreeSemInv'
  BY DEF FreeSemInv, Scheduled, SemsAfter
<1>6. WaitInv'
  BY DEF WaitInv, Scheduled, Running, SemsAfter
<1>7. FrameInv'
  BY DEF FrameInv, FrameOK, Scheduled, FramesAfter
<1> QED
  BY <1>1, <1>2, <1>3, <1>4, <1>5, <1>6, <1>7 DEF IInv

\* The same for a step after which the current process is in a loop, f being
\* its frame: semreset and semdelete have a semaphore of their own in hand.
LoopSemsAfter(st, qs, f) ==
    /\ st[NULLPROC] \in Running
    /\ \A p \in Pids : st[p] = "WAIT" => prsem'[p] \in Sems
    /\ \A s \in Sems : (f.at = "semreset" /\ f.sem = s) \/ CountOK(qs, scount', s)
    /\ \A s \in Sems : sstate'[s] = "FREE" =>
          qs[s] = << >> \/ (f.at = "semdelete" /\ f.sem = s)

LoopFrameAfter(f) ==
    /\ f \in FrameType
    /\ frame' = [frame EXCEPT ![currpid] = f]
    /\ f.at \in Loops
    /\ f.at = "wakeup" \/ currpid # NULLPROC
    /\ currpid' = currpid
    /\ ndefers' = 1
    /\ ~halted'

\* A step after which the current process is in a loop keeps the invariant.
LEMMA StepInLoop ==
  ASSUME IInv, NEW st, NEW qs, NEW f, Scheduled(st, qs, prsem'),
         TypesAfter, LoopSemsAfter(st, qs, f), LoopFrameAfter(f)
  PROVE  IInv'
<1> USE Identifiers
<1>0. /\ currpid \in Pids
      /\ frame' \in [Pids -> FrameType]
      /\ frame'[currpid] = f
      /\ \A p \in Pids \ {currpid} : frame'[p] = frame[p]
  BY DEF IInv, StateTypes, LoopFrameAfter
<1>1. StateTypes'
  BY <1>0 DEF IInv, StateTypes, Scheduled, TypesAfter
<1>2. Agree(prstate, queue, prsem)'
  BY DEF Scheduled
<1>3. CurrInv'
  BY DEF CurrInv, Scheduled, Running, LoopSemsAfter
<1>4. SemInv'
  BY <1>0 DEF SemInv, Scheduled, CountOK, LoopSemsAfter, LoopFrameAfter
<1>5. FreeSemInv'
  BY <1>0 DEF FreeSemInv, Scheduled, LoopSemsAfter, LoopFrameAfter
<1>6. WaitInv'
  BY DEF WaitInv, Scheduled, Running, LoopSemsAfter
<1>7. FrameInv'
  BY <1>0 DEF FrameInv, FrameOK, IInv, LoopFrameAfter
<1> QED
  BY <1>1, <1>2, <1>3, <1>4, <1>5, <1>6, <1>7 DEF IInv

\* The frames of the processes when the call leaves them alone, and when it
\* gives the current process another one.
LEMMA FramesKept ==
  ASSUME IInv, frame[currpid].at = "user", frame' = frame
  PROVE  FramesAfter
  BY DEF IInv, StateTypes, FrameInv, FrameOK, Loops, FramesAfter

\* The frames are as they should be when the current process gets frame f.
LEMMA FrameReplaced ==
  ASSUME IInv, NEW f, FrameOK(f, currpid), frame' = [frame EXCEPT ![currpid] = f]
  PROVE  FramesAfter
  BY DEF IInv, StateTypes, FrameInv, FrameOK, FramesAfter

\* The frames calls are left with.
LEMMA PlainFrames ==
    /\ \A p \in Pids : FrameOK(UserFrame, p)
    /\ \A p \in Pids : FrameOK(Frame("clkrest", 0, 0, 0), p)
    /\ \A p \in Pids \ {NULLPROC} : FrameOK(Frame("receive", 0, 0, 0), p)
    /\ \A p \in Pids \ {NULLPROC} : FrameOK(Frame("recvtime", 0, 0, 0), p)
    /\ \A p \in Pids \ {NULLPROC} : \A q \in Pids \ {NULLPROC} :
          FrameOK(Frame("kill", 0, 0, q), p)
  BY Identifiers, ProcTabAssumption
     DEF FrameOK, FrameType, UserFrame, Frame, Ats, Loops, Sems, Pids, NULLPROC

\* Nothing happens to the scheduler.
LEMMA NotRescheduled ==
  ASSUME IInv, UNCHANGED <<prstate, queue, currpid>>
  PROVE  Scheduled(prstate, queue, prsem)
  BY DEF IInv, StateTypes, CurrInv, Scheduled

----------------------------------------------------------------------------
\* Semaphores.

\* semcreate keeps the invariant: nobody waits for the entry newsem finds.
LEMMA semcreateStep ==
  ASSUME IInv, NEW count \in Counts, semcreate(count)
  PROVE  IInv'
<1> DEFINE K == {k \in 0..(NSEM - 1) : FreeSemAt(k)}
           sem == (nextsem + NewSemOffset) % NSEM
<1>1. /\ frame[currpid].at = "user" /\ frame' = frame
      /\ UNCHANGED <<prstate, queue, currpid, ndefers, prsem, prparent, nextpid>>
      /\ sstate' = [sstate EXCEPT ![sem] = "USED"]
      /\ scount' = [scount EXCEPT ![sem] = count]
      /\ nextsem' = (sem + 1) % NSEM
      /\ K # {}
  BY DEF semcreate, Caller, InUser, schedVars, deferVars, procVars, lifeVars
<1>2. NewSemOffset \in K
  <2>1. K \subseteq Nat /\ NewSemOffset = Min(K)
    BY DEF NewSemOffset
  <2> HIDE DEF K
  <2> QED
    BY <1>1, <2>1, LeastNat
<1>3. sem \in Sems /\ sstate[sem] = "FREE"
  <2>1. nextsem + NewSemOffset \in Nat
    BY <1>2 DEF IInv, StateTypes, Sems
  <2> QED
    BY <1>2, <2>1, ProcTabAssumption DEF Sems, FreeSemAt
<1> HIDE DEF sem
<1>4. nextsem' \in Sems
  BY <1>1, <1>3, ProcTabAssumption DEF Sems
<1>5. count \in Nat
  BY SemAssumption
<1>6. /\ \A s \in Sems : CountOK(queue, scount, s)
      /\ \A s \in Sems : sstate[s] = "FREE" => queue[s] = << >>
      /\ ndefers = 0
  BY <1>1, OutsideLoops DEF Loops
<1>7. TypesAfter
  BY <1>1, <1>3, <1>4, <1>5 DEF IInv, StateTypes, TypesAfter
<1>8. ASSUME NEW s \in Sems PROVE CountOK(queue, scount', s)
  <2>1. CASE s = sem
    <3>1. scount'[s] = count /\ queue[s] = << >>
      BY <2>1, <1>1, <1>3, <1>6 DEF IInv, StateTypes
    <3> QED
      BY <3>1, <1>5 DEF CountOK
  <2>2. CASE s # sem
    BY <2>2, <1>1, <1>3, <1>6 DEF IInv, StateTypes, CountOK
  <2> QED
    BY <2>1, <2>2
<1>9. \A s \in Sems : sstate'[s] = "FREE" => queue[s] = << >>
  BY <1>1, <1>3, <1>6 DEF IInv, StateTypes
<1>10. SemsAfter(prstate, queue)
  BY <1>1, <1>8, <1>9, CurrentSchedulable DEF SemsAfter, IInv, WaitInv
<1>11. Scheduled(prstate, queue, prsem')
  BY <1>1, NotRescheduled
<1>12. FramesAfter
  BY <1>1, FramesKept
<1> QED
  BY <1>1, <1>6, <1>7, <1>10, <1>11, <1>12, StepOutsideLoops

\* wait keeps the invariant: a process that blocks joins the queue it counts in.
LEMMA waitStep ==
  ASSUME IInv, NEW sem \in Sems, wait(sem)
  PROVE  IInv'
<1> USE Identifiers
<1> DEFINE st == [prstate EXCEPT ![currpid] = "WAIT"]
           qs == enqueue(queue, currpid, sem)
<1>1. /\ frame[currpid].at = "user" /\ frame' = frame /\ currpid # NULLPROC
      /\ sstate[sem] = "USED"
      /\ scount' = [scount EXCEPT ![sem] = @ - 1]
      /\ UNCHANGED <<sstate, nextsem, prparent, nextpid>>
  BY DEF wait, Caller, InUser, procVars, lifeVars
<1>2. /\ \A s \in Sems : CountOK(queue, scount, s)
      /\ \A s \in Sems : sstate[s] = "FREE" => queue[s] = << >>
      /\ ndefers = 0
  BY <1>1, OutsideLoops DEF Loops
<1>3. FramesAfter
  BY <1>1, FramesKept
<1>4. /\ scount' \in [Sems -> Int] /\ scount'[sem] = scount[sem] - 1
      /\ \A s \in Sems \ {sem} : scount'[s] = scount[s]
  BY <1>1 DEF IInv, StateTypes
<1>5. CASE scount[sem] - 1 < 0
  <2>1. /\ prsem' = [prsem EXCEPT ![currpid] = sem]
        /\ Resched(st, qs, qkey)
        /\ ndefers' = ndefers
    BY <1>5 DEF wait, MustWait, Block, deferVars
  <2>2. /\ prsem' \in [Pids -> Sems \cup {-1}] /\ prsem'[currpid] = sem
        /\ \A p \in Pids \ {currpid} : prsem'[p] = prsem[p]
        /\ st \in [Pids -> PrStates] /\ st[currpid] = "WAIT"
        /\ \A p \in Pids \ {currpid} : st[p] = prstate[p]
    BY <2>1, CurrentSchedulable DEF IInv, StateTypes, PrStates
  <2>3. \A q \in Qids : ~Has(queue[q], currpid)
    BY CurrentSchedulable DEF Schedulable, Agree, StateOn
  <2>4. /\ Linked(qs, queue, Qids, Pids, sem, currpid)
        /\ Len(qs[sem]) = Len(queue[sem]) + 1
    BY <2>3, enqueueLists, CurrentSchedulable DEF Schedulable, Agree
  <2> HIDE DEF st, qs
  <2>5. Agree(st, qs, prsem')
    BY <2>2, <2>4, CurrentSchedulable DEF Schedulable, Agree, StateOn, Linked
  <2>6. Schedulable(st, qs, prsem')
    BY <2>2, <2>5, <1>1, CurrentSchedulable DEF Schedulable
  <2>7. Scheduled(st, qs, prsem')
    BY <2>1, <2>6, ReschedSchedules, CurrentSchedulable DEF Resched
  <2>8. \A s \in Sems : CountOK(qs, scount', s)
    <3>1. CountOK(qs, scount', sem)
      BY <1>2, <1>4, <1>5, <2>4 DEF CountOK, IInv, StateTypes
    <3>2. \A s \in Sems \ {sem} : CountOK(qs, scount', s)
      BY <1>2, <1>4, <2>4 DEF CountOK, Linked
    <3> QED
      BY <3>1, <3>2
  <2>9. \A s \in Sems : sstate'[s] = "FREE" => qs[s] = << >>
    BY <1>1, <1>2, <2>4 DEF Linked
  <2>10. \A p \in Pids : st[p] = "WAIT" => prsem'[p] \in Sems
    BY <2>2 DEF IInv, WaitInv
  <2>11. SemsAfter(st, qs)
    BY <1>1, <2>2, <2>8, <2>9, <2>10, CurrentSchedulable DEF SemsAfter
  <2>12. TypesAfter
    BY <1>1, <1>4, <2>2 DEF IInv, StateTypes, TypesAfter
  <2> QED
    BY <1>2, <1>3, <2>1, <2>7, <2>11, <2>12, StepOutsideLoops
<1>6. CASE ~(scount[sem] - 1 < 0)
  <2>1. UNCHANGED <<prsem, prstate, queue, currpid, ndefers>>
    BY <1>6 DEF wait, MustWait, schedVars, deferVars
  <2>2. Scheduled(prstate, queue, prsem')
    BY <2>1, NotRescheduled
  <2>3. \A s \in Sems : CountOK(queue, scount', s)
    <3>1. scount[sem] \in Int
      BY DEF IInv, StateTypes
    <3>2. CountOK(queue, scount', sem)
      BY <1>2, <1>4, <1>6, <3>1 DEF CountOK
    <3>3. \A s \in Sems \ {sem} : CountOK(queue, scount', s)
      BY <1>2, <1>4 DEF CountOK
    <3> QED
      BY <3>2, <3>3
  <2>4. SemsAfter(prstate, queue)
    BY <1>1, <1>2, <2>1, <2>3, CurrentSchedulable DEF SemsAfter, IInv, WaitInv
  <2>5. TypesAfter
    BY <1>1, <1>4, <2>1 DEF IInv, StateTypes, TypesAfter
  <2> QED
    BY <1>2, <1>3, <2>1, <2>2, <2>4, <2>5, StepOutsideLoops
<1> QED
  BY <1>5, <1>6

\* A process is on one list at most.
LEMMA OnOneList ==
  ASSUME IInv, NEW p \in Pids, NEW q \in Qids, NEW c \in Qids,
         Has(queue[q], p), Has(queue[c], p)
  PROVE  c = q
  BY Identifiers DEF IInv, StateTypes, Agree, StateOn

\* The first process of a list may be made ready once it is off the list.
LEMMA FirstReadyable ==
  ASSUME IInv, NEW q \in Qids, queue[q] # << >>
  PROVE  LET pid == Head(queue[q])
             qs == dequeue(queue, q)
         IN  /\ pid \in Pids /\ Has(queue[q], pid)
             /\ Unlinked(qs, queue, Qids, Pids, q, pid)
             /\ Readyable(pid, prstate, qs, prsem)
<1> USE Identifiers
<1> DEFINE pid == Head(queue[q])
           qs == dequeue(queue, q)
<1>1. /\ pid \in Pids /\ Has(queue[q], pid)
      /\ Unlinked(qs, queue, Qids, Pids, q, pid)
  BY dequeueLists DEF IInv, Agree
<1>2. pid # currpid
  BY <1>1, CurrentSchedulable DEF IInv, Agree, StateOn
<1> HIDE DEF pid, qs
<1>3. ASSUME NEW c \in Qids, NEW p \in Pids
      PROVE  Has(qs[c], p) <=> p # pid /\ StateOn(prstate[p], prsem[p], c)
  <2>1. Has(qs[c], p) <=> Has(queue[c], p) /\ ~(c = q /\ p = pid)
    BY <1>1 DEF Unlinked
  <2>2. Has(queue[c], p) <=> StateOn(prstate[p], prsem[p], c)
    BY DEF IInv, Agree
  <2>3. p = pid /\ Has(queue[c], p) => c = q
    BY <1>1, OnOneList
  <2> QED
    BY <2>1, <2>2, <2>3
<1>4. Readyable(pid, prstate, qs, prsem)
  BY <1>1, <1>2, <1>3, CurrentSchedulable DEF Readyable, Unlinked, IInv, StateTypes
<1> QED
  BY <1>1, <1>4 DEF pid, qs

\* The first process of list q is released: ready is called with it.
ReleaseState(q) == [prstate EXCEPT ![Head(queue[q])] = "READY"]

\* Releasing the first process of list q with ready takes that process off its
\* list and keeps the others, whether rescheduling is deferred or not.
LEMMA ReleaseFirst ==
  ASSUME IInv, NEW q \in Qids, queue[q] # << >>,
         Ready(Head(queue[q]), prstate, dequeue(queue, q), qkey)
  PROVE  /\ Scheduled(ReleaseState(q), dequeue(queue, q), prsem)
         /\ ndefers' = ndefers
         /\ ndefers > 0 => currpid' = currpid
         /\ ReleaseState(q)[NULLPROC] \in Running
         /\ \A p \in Pids : ReleaseState(q)[p] = "WAIT" => prsem[p] \in Sems
         /\ Len(dequeue(queue, q)[q]) = Len(queue[q]) - 1
         /\ \A c \in Qids \ {q} : dequeue(queue, q)[c] = queue[c]
<1> USE Identifiers
<1> DEFINE pid == Head(queue[q])
           qs == dequeue(queue, q)
<1>1. /\ pid \in Pids /\ Has(queue[q], pid)
      /\ Unlinked(qs, queue, Qids, Pids, q, pid)
      /\ Readyable(pid, prstate, qs, prsem)
      /\ Ready(pid, prstate, qs, qkey)
  BY FirstReadyable
<1> HIDE DEF pid, qs
<1>2. ndefers \in Nat
  BY DEF IInv, FrameInv
<1>3. /\ Scheduled([prstate EXCEPT ![pid] = "READY"], qs, prsem)
      /\ ndefers' = ndefers
      /\ ndefers > 0 => currpid' = currpid
  BY <1>1, <1>2, CurrentSchedulable, ReadySchedules
<1>4. /\ [prstate EXCEPT ![pid] = "READY"][NULLPROC] \in Running
      /\ \A p \in Pids : [prstate EXCEPT ![pid] = "READY"][p] = "WAIT"
                            => prsem[p] \in Sems
  BY <1>1, CurrentSchedulable DEF IInv, StateTypes, WaitInv, Running
<1> QED
  BY <1>1, <1>3, <1>4 DEF ReleaseState, Unlinked, pid, qs

\* One turn of signal: the queue and the count of sem stay in step.
LEMMA SignalOnceSteps ==
  ASSUME IInv, NEW sem \in Sems, SignalOnce(sem), CountOK(queue, scount, sem)
  PROVE  \E st, qs :
           /\ Scheduled(st, qs, prsem)
           /\ st[NULLPROC] \in Running
           /\ \A p \in Pids : st[p] = "WAIT" => prsem[p] \in Sems
           /\ CountOK(qs, scount', sem)
           /\ \A s \in Sems \ {sem} : qs[s] = queue[s] /\ scount'[s] = scount[s]
           /\ queue[sem] = << >> => qs[sem] = << >>
           /\ scount' \in [Sems -> Int]
           /\ ndefers' = ndefers
           /\ ndefers > 0 => currpid' = currpid
<1> USE Identifiers
<1>1. /\ scount' \in [Sems -> Int] /\ scount'[sem] = scount[sem] + 1
      /\ \A s \in Sems \ {sem} : scount'[s] = scount[s]
      /\ scount[sem] \in Int
  BY DEF SignalOnce, IInv, StateTypes
<1>2. CASE scount[sem] < 0
  <2>1. Ready(Head(queue[sem]), prstate, dequeue(queue, sem), qkey)
    BY <1>2 DEF SignalOnce
  <2>2. queue[sem] # << >>
    BY <1>1, <1>2 DEF CountOK
  <2>3. /\ Scheduled(ReleaseState(sem), dequeue(queue, sem), prsem)
        /\ ndefers' = ndefers
        /\ ndefers > 0 => currpid' = currpid
        /\ ReleaseState(sem)[NULLPROC] \in Running
        /\ \A p \in Pids : ReleaseState(sem)[p] = "WAIT" => prsem[p] \in Sems
        /\ Len(dequeue(queue, sem)[sem]) = Len(queue[sem]) - 1
        /\ \A c \in Qids \ {sem} : dequeue(queue, sem)[c] = queue[c]
    BY <2>1, <2>2, ReleaseFirst
  <2>4. CountOK(dequeue(queue, sem), scount', sem)
    BY <1>1, <1>2, <2>3 DEF CountOK
  <2>5. \A s \in Sems \ {sem} : dequeue(queue, sem)[s] = queue[s]
    BY <2>3
  <2> QED
    BY <1>1, <2>2, <2>3, <2>4, <2>5
<1>3. CASE ~(scount[sem] < 0)
  <2>1. UNCHANGED <<prstate, queue, currpid, ndefers>>
    BY <1>3 DEF SignalOnce, schedVars, deferVars
  <2>2. Scheduled(prstate, queue, prsem)
    BY <2>1, NotRescheduled
  <2>3. CountOK(queue, scount', sem)
    BY <1>1, <1>3 DEF CountOK
  <2>4. prstate[NULLPROC] \in Running
    BY CurrentSchedulable
  <2>5. \A p \in Pids : prstate[p] = "WAIT" => prsem[p] \in Sems
    BY DEF IInv, WaitInv
  <2> QED
    BY <1>1, <2>1, <2>2, <2>3, <2>4, <2>5
<1> QED
  BY <1>2, <1>3

\* signal keeps the invariant.
LEMMA signalStep ==
  ASSUME IInv, NEW sem \in Sems, signal(sem)
  PROVE  IInv'
<1>1. /\ frame[currpid].at = "user" /\ frame' = frame
      /\ sstate[sem] = "USED"
      /\ SignalOnce(sem)
      /\ UNCHANGED <<sstate, nextsem, prsem, prparent, nextpid>>
  BY DEF signal, SignalOnce, Caller, InUser, procVars, lifeVars
<1>2. /\ \A s \in Sems : CountOK(queue, scount, s)
      /\ \A s \in Sems : sstate[s] = "FREE" => queue[s] = << >>
      /\ ndefers = 0
  BY <1>1, OutsideLoops DEF Loops
<1>3. PICK st, qs :
           /\ Scheduled(st, qs, prsem)
           /\ st[NULLPROC] \in Running
           /\ \A p \in Pids : st[p] = "WAIT" => prsem[p] \in Sems
           /\ CountOK(qs, scount', sem)
           /\ \A s \in Sems \ {sem} : qs[s] = queue[s] /\ scount'[s] = scount[s]
           /\ scount' \in [Sems -> Int]
           /\ ndefers' = ndefers
  BY <1>1, <1>2, SignalOnceSteps
<1>4. \A s \in Sems : CountOK(qs, scount', s)
  BY <1>2, <1>3 DEF CountOK
<1>5. \A s \in Sems : sstate'[s] = "FREE" => qs[s] = << >>
  BY <1>1, <1>2, <1>3
<1>6. SemsAfter(st, qs)
  BY <1>1, <1>3, <1>4, <1>5 DEF SemsAfter
<1>7. TypesAfter
  BY <1>1, <1>3 DEF TypesAfter, IInv, StateTypes
<1>8. FramesAfter
  BY <1>1, FramesKept
<1> QED
  BY <1>1, <1>2, <1>3, <1>6, <1>7, <1>8, StepOutsideLoops

\* The last resched_cntl(DEFER_STOP) does the resched that was asked for, or
\* nothing.
LEMMA DeferStopSchedules ==
  ASSUME IInv, frame[currpid].at \in Loops, DeferStop
  PROVE  Scheduled(prstate, queue, prsem) /\ ndefers' = 0
<1>1. ndefers = 1
  BY DEF IInv, FrameInv
<1>2. ndefers' = 0
  BY <1>1 DEF DeferStop
<1>3. CASE Resched(prstate, queue, qkey)
  BY <1>2, <1>3, ReschedSchedules, CurrentSchedulable DEF Resched
<1>4. CASE UNCHANGED schedVars
  BY <1>2, <1>4, NotRescheduled DEF schedVars
<1> QED
  BY <1>2, <1>3, <1>4 DEF DeferStop

\* A call that releases several processes defers rescheduling.
LEMMA EnterLoopSteps ==
  ASSUME IInv, NEW at \in {"signaln", "semreset", "semdelete"},
         NEW sem \in Sems, NEW cnt \in Nat, EnterLoop(at, sem, cnt)
  PROVE  /\ LoopFrameAfter(Frame(at, sem, cnt, 0))
         /\ Scheduled(prstate, queue, prsem')
         /\ UNCHANGED <<prsem, prparent, nextpid, nextsem>>
         /\ prstate[NULLPROC] \in Running
         /\ \A p \in Pids : prstate[p] = "WAIT" => prsem'[p] \in Sems
         /\ \A s \in Sems : CountOK(queue, scount, s)
         /\ \A s \in Sems : sstate[s] = "FREE" => queue[s] = << >>
<1> USE Identifiers
<1>1. /\ ~halted /\ frame[currpid].at = "user" /\ currpid # NULLPROC
      /\ ndefers' = ndefers + 1
      /\ frame' = [frame EXCEPT ![currpid] = Frame(at, sem, cnt, 0)]
      /\ UNCHANGED <<prstate, queue, currpid, prsem, prparent, nextpid, nextsem, halted>>
  BY DEF EnterLoop, Caller, InUser, DeferStart, schedVars, procVars, lifeVars
<1>2. /\ \A s \in Sems : CountOK(queue, scount, s)
      /\ \A s \in Sems : sstate[s] = "FREE" => queue[s] = << >>
      /\ ndefers = 0
  BY <1>1, OutsideLoops DEF Loops
<1>3. Frame(at, sem, cnt, 0) \in FrameType /\ Frame(at, sem, cnt, 0).at \in Loops
  BY DEF Frame, FrameType, Ats, Loops, NULLPROC
<1>4. LoopFrameAfter(Frame(at, sem, cnt, 0))
  BY <1>1, <1>2, <1>3 DEF LoopFrameAfter
<1>5. Scheduled(prstate, queue, prsem')
  BY <1>1, NotRescheduled
<1>6. \A p \in Pids : prstate[p] = "WAIT" => prsem'[p] \in Sems
  BY <1>1 DEF IInv, WaitInv
<1> QED
  BY <1>1, <1>2, <1>4, <1>5, <1>6, CurrentSchedulable

\* signaln keeps the invariant when it enters its loop.
LEMMA signalnStep ==
  ASSUME IInv, NEW sem \in Sems, NEW count \in SignalNs, signaln(sem, count)
  PROVE  IInv'
<1> DEFINE f == Frame("signaln", sem, count, 0)
<1>1. EnterLoop("signaln", sem, count) /\ UNCHANGED <<sstate, scount>>
  BY DEF signaln
<1>2. count \in Nat
  BY SemAssumption
<1>3. /\ LoopFrameAfter(f)
      /\ Scheduled(prstate, queue, prsem')
      /\ UNCHANGED <<prsem, prparent, nextpid, nextsem>>
      /\ prstate[NULLPROC] \in Running
      /\ \A p \in Pids : prstate[p] = "WAIT" => prsem'[p] \in Sems
      /\ \A s \in Sems : CountOK(queue, scount, s)
      /\ \A s \in Sems : sstate[s] = "FREE" => queue[s] = << >>
  BY <1>1, <1>2, EnterLoopSteps
<1> HIDE DEF f
<1>4. TypesAfter
  BY <1>1, <1>3 DEF TypesAfter, IInv, StateTypes
<1>5. LoopSemsAfter(prstate, queue, f)
  BY <1>1, <1>3 DEF LoopSemsAfter
<1> QED
  BY <1>3, <1>4, <1>5, StepInLoop

\* semreset keeps the invariant when it enters its loop.
LEMMA semresetStep ==
  ASSUME IInv, NEW sem \in Sems, NEW count \in Counts, semreset(sem, count)
  PROVE  IInv'
<1> DEFINE f == Frame("semreset", sem, count, 0)
<1>1. EnterLoop("semreset", sem, count) /\ UNCHANGED <<sstate, scount>>
  BY DEF semreset
<1>2. count \in Nat
  BY SemAssumption
<1>3. /\ LoopFrameAfter(f)
      /\ Scheduled(prstate, queue, prsem')
      /\ UNCHANGED <<prsem, prparent, nextpid, nextsem>>
      /\ prstate[NULLPROC] \in Running
      /\ \A p \in Pids : prstate[p] = "WAIT" => prsem'[p] \in Sems
      /\ \A s \in Sems : CountOK(queue, scount, s)
      /\ \A s \in Sems : sstate[s] = "FREE" => queue[s] = << >>
  BY <1>1, <1>2, EnterLoopSteps
<1> HIDE DEF f
<1>4. TypesAfter
  BY <1>1, <1>3 DEF TypesAfter, IInv, StateTypes
<1>5. LoopSemsAfter(prstate, queue, f)
  BY <1>1, <1>3 DEF LoopSemsAfter
<1> QED
  BY <1>3, <1>4, <1>5, StepInLoop

\* semdelete keeps the invariant when it frees the entry and enters its loop.
LEMMA semdeleteStep ==
  ASSUME IInv, NEW sem \in Sems, semdelete(sem)
  PROVE  IInv'
<1> DEFINE f == Frame("semdelete", sem, 0, 0)
<1>1. /\ EnterLoop("semdelete", sem, 0)
      /\ sstate' = [sstate EXCEPT ![sem] = "FREE"]
      /\ scount' = scount
  BY DEF semdelete
<1>2. /\ LoopFrameAfter(f)
      /\ Scheduled(prstate, queue, prsem')
      /\ UNCHANGED <<prsem, prparent, nextpid, nextsem>>
      /\ prstate[NULLPROC] \in Running
      /\ \A p \in Pids : prstate[p] = "WAIT" => prsem'[p] \in Sems
      /\ \A s \in Sems : CountOK(queue, scount, s)
      /\ \A s \in Sems : sstate[s] = "FREE" => queue[s] = << >>
  BY <1>1, EnterLoopSteps
<1>3. f.at = "semdelete" /\ f.sem = sem
  BY DEF Frame
<1> HIDE DEF f
<1>4. TypesAfter
  BY <1>1, <1>2 DEF TypesAfter, IInv, StateTypes
<1>5. \A s \in Sems : sstate'[s] = "FREE" => queue[s] = << >> \/ f.sem = s
  BY <1>1, <1>2, <1>3 DEF IInv, StateTypes
<1>6. LoopSemsAfter(prstate, queue, f)
  BY <1>1, <1>2, <1>3, <1>5 DEF LoopSemsAfter
<1> QED
  BY <1>2, <1>4, <1>6, StepInLoop

\* What holds in a loop.
LEMMA InsideLoops ==
  ASSUME IInv, ~halted, frame[currpid].at \in Loops
  PROVE  /\ ndefers = 1
         /\ frame[currpid] \in FrameType
         /\ frame[currpid].at # "wakeup" => currpid # NULLPROC
         /\ \A s \in Sems : \/ frame[currpid].at = "semreset" /\ frame[currpid].sem = s
                            \/ CountOK(queue, scount, s)
         /\ \A s \in Sems : sstate[s] = "FREE" =>
               \/ queue[s] = << >>
               \/ frame[currpid].at = "semdelete" /\ frame[currpid].sem = s
  BY DEF IInv, StateTypes, SemInv, FreeSemInv, FrameInv, FrameOK, CountOK, Loops

\* Each turn of signaln's loop, and its end, keep the invariant.
LEMMA signalnLoopStep ==
  ASSUME IInv, signalnLoop
  PROVE  IInv'
<1> DEFINE f == frame[currpid]
<1>0. ~halted /\ f.at = "signaln" /\ f.at \in Loops /\ currpid \in Pids
  BY DEF signalnLoop, InFrame, Loops, IInv, StateTypes
<1>1. /\ ndefers = 1 /\ f \in FrameType /\ currpid # NULLPROC
      /\ \A s \in Sems : CountOK(queue, scount, s)
      /\ \A s \in Sems : sstate[s] = "FREE" => queue[s] = << >>
  BY <1>0, InsideLoops
<1>2. CASE f.cnt > 0 /\ SignalOnce(f.sem) /\ frame' = [frame EXCEPT ![currpid].cnt = @ - 1]
  <2> DEFINE g == [f EXCEPT !.cnt = @ - 1]
  <2>1. UNCHANGED <<sstate, nextsem, prsem, prparent, nextpid, halted>>
    BY <1>2 DEF SignalOnce, procVars, lifeVars
  <2>2. f.sem \in Sems
    BY <1>1 DEF FrameType
  <2>3. PICK st, qs :
           /\ Scheduled(st, qs, prsem)
           /\ st[NULLPROC] \in Running
           /\ \A p \in Pids : st[p] = "WAIT" => prsem[p] \in Sems
           /\ CountOK(qs, scount', f.sem)
           /\ \A s \in Sems \ {f.sem} : qs[s] = queue[s] /\ scount'[s] = scount[s]
           /\ queue[f.sem] = << >> => qs[f.sem] = << >>
           /\ scount' \in [Sems -> Int]
           /\ ndefers' = ndefers
           /\ ndefers > 0 => currpid' = currpid
    BY <1>1, <1>2, <2>2, SignalOnceSteps
  <2>4. g \in FrameType /\ g.at = "signaln" /\ frame' = [frame EXCEPT ![currpid] = g]
    <3>1. f.cnt - 1 \in Nat
      BY <1>1, <1>2 DEF FrameType
    <3>2. g \in FrameType
      BY <1>1, <3>1 DEF FrameType
    <3>3. g.at = "signaln"
      BY <1>0, <1>1 DEF FrameType
    <3>4. frame' = [frame EXCEPT ![currpid] = g]
      BY <1>2, Zenon
    <3> QED
      BY <3>2, <3>3, <3>4
  <2> HIDE DEF g
  <2>5. LoopFrameAfter(g)
    BY <1>0, <1>1, <2>1, <2>3, <2>4 DEF LoopFrameAfter, Loops
  <2>6. TypesAfter
    BY <2>1, <2>3 DEF TypesAfter, IInv, StateTypes
  <2>7. \A s \in Sems : CountOK(qs, scount', s)
    BY <1>1, <2>3 DEF CountOK
  <2>8. \A s \in Sems : sstate'[s] = "FREE" => qs[s] = << >>
    BY <1>1, <2>1, <2>3
  <2>9. LoopSemsAfter(st, qs, g)
    BY <2>1, <2>3, <2>7, <2>8 DEF LoopSemsAfter
  <2>10. Scheduled(st, qs, prsem')
    BY <2>1, <2>3
  <2> QED
    BY <2>5, <2>6, <2>9, <2>10, StepInLoop
<1>3. CASE LeaveLoop /\ UNCHANGED scount
  <2>1. /\ DeferStop
        /\ frame' = [frame EXCEPT ![currpid] = UserFrame]
        /\ UNCHANGED <<sstate, nextsem, prsem, prparent, nextpid, scount>>
    BY <1>3 DEF LeaveLoop, Return, procVars, lifeVars
  <2>2. Scheduled(prstate, queue, prsem') /\ ndefers' = 0
    BY <1>0, <2>1, DeferStopSchedules
  <2>3. FramesAfter
    BY <1>0, <2>1, PlainFrames, FrameReplaced
  <2>4. TypesAfter
    BY <2>1 DEF TypesAfter, IInv, StateTypes
  <2>5. SemsAfter(prstate, queue)
    BY <1>1, <2>1, CurrentSchedulable DEF SemsAfter, IInv, WaitInv
  <2> QED
    BY <2>2, <2>3, <2>4, <2>5, StepOutsideLoops
<1> QED
  BY <1>2, <1>3 DEF signalnLoop

\* Each turn of semreset's loop, and the count it sets at the end, keep it.
LEMMA semresetLoopStep ==
  ASSUME IInv, semresetLoop
  PROVE  IInv'
<1> USE Identifiers
<1> DEFINE f == frame[currpid]
<1>0. ~halted /\ f.at = "semreset" /\ f.at \in Loops /\ currpid \in Pids
  BY DEF semresetLoop, InFrame, Loops, IInv, StateTypes
<1>1. /\ ndefers = 1 /\ f \in FrameType /\ currpid # NULLPROC
      /\ \A s \in Sems : f.sem = s \/ CountOK(queue, scount, s)
      /\ \A s \in Sems : sstate[s] = "FREE" => queue[s] = << >>
  BY <1>0, InsideLoops
<1>2. f.sem \in Sems /\ f.cnt \in Nat
  BY <1>1 DEF FrameType
<1>3. CASE /\ queue[f.sem] # << >>
           /\ Ready(Head(queue[f.sem]), prstate, dequeue(queue, f.sem), qkey)
           /\ UNCHANGED <<semVars, frame, msgVars, procVars, prsem, lifeVars>>
  <2> DEFINE st == ReleaseState(f.sem)
             qs == dequeue(queue, f.sem)
  <2>1. /\ UNCHANGED <<sstate, scount, nextsem, prsem, prparent, nextpid, halted>>
        /\ frame' = frame
    BY <1>3 DEF semVars, procVars, lifeVars
  <2>2. /\ Scheduled(st, qs, prsem)
        /\ ndefers' = ndefers
        /\ ndefers > 0 => currpid' = currpid
        /\ st[NULLPROC] \in Running
        /\ \A p \in Pids : st[p] = "WAIT" => prsem[p] \in Sems
        /\ \A c \in Qids \ {f.sem} : qs[c] = queue[c]
    BY <1>2, <1>3, ReleaseFirst
  <2> HIDE DEF st, qs
  <2>3. LoopFrameAfter(f)
    BY <1>0, <1>1, <2>1, <2>2 DEF LoopFrameAfter, IInv, StateTypes
  <2>4. TypesAfter
    BY <2>1 DEF TypesAfter, IInv, StateTypes
  <2>5. sstate[f.sem] # "FREE"
    BY <1>1, <1>2, <1>3
  <2>6. LoopSemsAfter(st, qs, f)
    BY <1>0, <1>1, <1>2, <2>1, <2>2, <2>5 DEF LoopSemsAfter, CountOK
  <2> QED
    BY <2>1, <2>2, <2>3, <2>4, <2>6, StepInLoop
<1>4. CASE /\ queue[f.sem] = << >>
           /\ scount' = [scount EXCEPT ![f.sem] = f.cnt]
           /\ LeaveLoop
  <2>1. /\ DeferStop
        /\ frame' = [frame EXCEPT ![currpid] = UserFrame]
        /\ UNCHANGED <<sstate, nextsem, prsem, prparent, nextpid>>
    BY <1>4 DEF LeaveLoop, Return, procVars, lifeVars
  <2>2. Scheduled(prstate, queue, prsem') /\ ndefers' = 0
    BY <1>0, <2>1, DeferStopSchedules
  <2>3. FramesAfter
    BY <1>0, <2>1, PlainFrames, FrameReplaced
  <2>4. /\ scount' \in [Sems -> Int] /\ scount'[f.sem] = f.cnt
        /\ \A s \in Sems \ {f.sem} : scount'[s] = scount[s]
    BY <1>2, <1>4 DEF IInv, StateTypes
  <2>5. TypesAfter
    BY <2>1, <2>4 DEF TypesAfter, IInv, StateTypes
  <2>6. \A s \in Sems : CountOK(queue, scount', s)
    BY <1>1, <1>2, <1>4, <2>4 DEF CountOK
  <2>7. SemsAfter(prstate, queue)
    BY <1>1, <2>1, <2>6, CurrentSchedulable DEF SemsAfter, IInv, WaitInv
  <2> QED
    BY <2>2, <2>3, <2>5, <2>7, StepOutsideLoops
<1> QED
  BY <1>3, <1>4 DEF semresetLoop

\* Each turn of semdelete's loop, and its end, keep the invariant.
LEMMA semdeleteLoopStep ==
  ASSUME IInv, semdeleteLoop
  PROVE  IInv'
<1> USE Identifiers
<1> DEFINE f == frame[currpid]
           sem == f.sem
<1>0. ~halted /\ f.at = "semdelete" /\ f.at \in Loops /\ currpid \in Pids
  BY DEF semdeleteLoop, InFrame, Loops, IInv, StateTypes
<1>1. /\ ndefers = 1 /\ f \in FrameType /\ currpid # NULLPROC
      /\ \A s \in Sems : CountOK(queue, scount, s)
      /\ \A s \in Sems : sstate[s] = "FREE" => queue[s] = << >> \/ sem = s
  BY <1>0, InsideLoops
<1>2. sem \in Sems
  BY <1>1 DEF FrameType
<1>3. /\ scount' \in [Sems -> Int] /\ scount'[sem] = scount[sem] + 1
      /\ \A s \in Sems \ {sem} : scount'[s] = scount[s]
      /\ scount[sem] \in Int
  BY <1>2 DEF semdeleteLoop, IInv, StateTypes
<1>4. CASE /\ scount[sem] < 0
           /\ Ready(Head(queue[sem]), prstate, dequeue(queue, sem), qkey)
           /\ UNCHANGED <<sstate, nextsem, msgVars, procVars, prsem, lifeVars, frame>>
  <2> DEFINE st == ReleaseState(sem)
             qs == dequeue(queue, sem)
  <2>1. /\ UNCHANGED <<sstate, nextsem, prsem, prparent, nextpid, halted>>
        /\ frame' = frame
    BY <1>4 DEF procVars, lifeVars
  <2>2. queue[sem] # << >>
    BY <1>1, <1>2, <1>3, <1>4 DEF CountOK
  <2>3. /\ Scheduled(st, qs, prsem)
        /\ ndefers' = ndefers
        /\ ndefers > 0 => currpid' = currpid
        /\ st[NULLPROC] \in Running
        /\ \A p \in Pids : st[p] = "WAIT" => prsem[p] \in Sems
        /\ Len(qs[sem]) = Len(queue[sem]) - 1
        /\ \A c \in Qids \ {sem} : qs[c] = queue[c]
    BY <1>2, <1>4, <2>2, ReleaseFirst
  <2> HIDE DEF st, qs
  <2>4. LoopFrameAfter(f)
    BY <1>0, <1>1, <2>1, <2>3 DEF LoopFrameAfter, IInv, StateTypes
  <2>5. TypesAfter
    BY <1>3, <2>1 DEF TypesAfter, IInv, StateTypes
  <2>6. \A s \in Sems : CountOK(qs, scount', s)
    <3>1. Len(queue[sem]) = -scount[sem]
      BY <1>1, <1>2, <1>4 DEF CountOK
    <3> HIDE DEF sem
    <3>2. CountOK(qs, scount', sem)
      BY <1>3, <1>4, <2>3, <3>1 DEF CountOK
    <3>3. \A s \in Sems \ {sem} : CountOK(qs, scount', s)
      BY <1>1, <1>3, <2>3 DEF CountOK
    <3> QED
      BY <3>2, <3>3
  <2>7. LoopSemsAfter(st, qs, f)
    BY <1>0, <1>1, <2>1, <2>3, <2>6 DEF LoopSemsAfter
  <2> QED
    BY <2>1, <2>3, <2>4, <2>5, <2>7, StepInLoop
<1>5. CASE scount[sem] >= 0 /\ LeaveLoop
  <2>1. /\ DeferStop
        /\ frame' = [frame EXCEPT ![currpid] = UserFrame]
        /\ UNCHANGED <<sstate, nextsem, prsem, prparent, nextpid>>
    BY <1>5 DEF LeaveLoop, Return, procVars, lifeVars
  <2>2. Scheduled(prstate, queue, prsem') /\ ndefers' = 0
    BY <1>0, <2>1, DeferStopSchedules
  <2>3. FramesAfter
    BY <1>0, <2>1, PlainFrames, FrameReplaced
  <2>4. TypesAfter
    BY <1>3, <2>1 DEF TypesAfter, IInv, StateTypes
  <2>5. Len(queue[sem]) = 0
    BY <1>1, <1>2, <1>3, <1>5 DEF CountOK
  <2>6. queue[sem] = << >>
    BY <1>2, <2>5, EmptySeq DEF IInv, Agree, Lists
  <2>7. \A s \in Sems : CountOK(queue, scount', s)
    BY <1>1, <1>2, <1>3, <1>5, <2>5 DEF CountOK
  <2>8. SemsAfter(prstate, queue)
    BY <1>1, <2>1, <2>6, <2>7, CurrentSchedulable DEF SemsAfter, IInv, WaitInv
  <2> QED
    BY <2>2, <2>3, <2>4, <2>8, StepOutsideLoops
<1> QED
  BY <1>4, <1>5 DEF semdeleteLoop

----------------------------------------------------------------------------
\* Calls that leave the semaphores alone.

TablesKept == UNCHANGED <<prsem, prparent, sstate, scount, nextsem, nextpid>>

\* Nobody begins to wait, and no semaphore's queue changes.
WaitersKept(st, qs) ==
    /\ st[NULLPROC] \in Running
    /\ \A p \in Pids : st[p] = "WAIT" => prstate[p] = "WAIT"
    /\ \A s \in Sems : qs[s] = queue[s]

\* A step outside the loops that leaves the semaphores alone keeps the invariant.
LEMMA PlainStep ==
  ASSUME IInv, frame[currpid].at \notin Loops, NEW st, NEW qs,
         Scheduled(st, qs, prsem), WaitersKept(st, qs), TablesKept,
         ndefers' = ndefers, FramesAfter
  PROVE  IInv'
<1>1. /\ ndefers' = 0
      /\ \A s \in Sems : CountOK(queue, scount, s)
      /\ \A s \in Sems : sstate[s] = "FREE" => queue[s] = << >>
  BY OutsideLoops
<1>2. TypesAfter
  BY DEF TypesAfter, TablesKept, IInv, StateTypes
<1>3. SemsAfter(st, qs)
  BY <1>1 DEF SemsAfter, WaitersKept, TablesKept, CountOK, IInv, WaitInv
<1>4. Scheduled(st, qs, prsem')
  BY DEF TablesKept
<1> QED
  BY <1>1, <1>2, <1>3, <1>4, StepOutsideLoops

\* The state as it is keeps the waiters.
LEMMA SameWaiters ==
  ASSUME IInv
  PROVE  WaitersKept(prstate, queue)
  BY CurrentSchedulable DEF WaitersKept

\* The state when process p enters one in which it is on no list or on the
\* sleep queue.
LEMMA OtherWaiters ==
  ASSUME IInv, NEW p \in Pids \ {NULLPROC}, NEW state \in PrStates \ {"WAIT"},
         NEW qs, \A s \in Sems : qs[s] = queue[s]
  PROVE  WaitersKept([prstate EXCEPT ![p] = state], qs)
  BY CurrentSchedulable, Identifiers DEF WaitersKept, IInv, StateTypes

\* The current process blocks on no list, ...
LEMMA BlockOffLists ==
  ASSUME IInv, currpid # NULLPROC, NEW state \in {"RECV", "SUSP", "FREE"}
  PROVE  Schedulable([prstate EXCEPT ![currpid] = state], queue, prsem)
<1> DEFINE st == [prstate EXCEPT ![currpid] = state]
<1>1. /\ st \in [Pids -> PrStates] /\ st[currpid] = state
      /\ \A p \in Pids \ {currpid} : st[p] = prstate[p]
  BY CurrentSchedulable DEF IInv, StateTypes, PrStates
<1> HIDE DEF st
<1>2. Agree(st, queue, prsem)
  BY <1>1, CurrentSchedulable DEF Schedulable, Agree, StateOn
<1>3. Schedulable(st, queue, prsem)
  BY <1>1, <1>2, CurrentSchedulable, Identifiers DEF Schedulable
<1> QED
  BY <1>3 DEF st

\* ... or on the sleep queue.
LEMMA BlockAsleep ==
  ASSUME IInv, currpid # NULLPROC, NEW state \in {"SLEEP", "RECTIM"}, NEW key
  PROVE  LET qs == insertd(queue, qkey, currpid, sleepq, key) IN
         /\ Schedulable([prstate EXCEPT ![currpid] = state], qs, prsem)
         /\ \A s \in Sems : qs[s] = queue[s]
<1> USE Identifiers
<1> DEFINE st == [prstate EXCEPT ![currpid] = state]
           qs == insertd(queue, qkey, currpid, sleepq, key)
<1>1. /\ st \in [Pids -> PrStates] /\ st[currpid] = state
      /\ \A p \in Pids \ {currpid} : st[p] = prstate[p]
  BY CurrentSchedulable DEF IInv, StateTypes, PrStates
<1>2. ~Has(queue[sleepq], currpid)
  BY CurrentSchedulable DEF Schedulable, Agree, StateOn
<1>3. Linked(qs, queue, Qids, Pids, sleepq, currpid)
  BY <1>2, insertLists, CurrentSchedulable DEF Schedulable, Agree
<1> HIDE DEF st, qs
<1>4. Agree(st, qs, prsem)
  BY <1>1, <1>3, CurrentSchedulable DEF Schedulable, Agree, StateOn, Linked
<1>5. Schedulable(st, qs, prsem)
  BY <1>1, <1>4, CurrentSchedulable DEF Schedulable
<1>6. \A s \in Sems : qs[s] = queue[s]
  BY <1>3 DEF Linked
<1> QED
  BY <1>5, <1>6 DEF st, qs

\* getitem takes process pid off the list q it is on, and nothing else off any.
LEMMA UnlinkProcess ==
  ASSUME IInv, NEW pid \in Pids, NEW q \in Qids, StateOn(prstate[pid], prsem[pid], q)
  PROVE  LET qs == getitem(queue, pid) IN
         /\ Lists(qs, Qids, Pids)
         /\ \A c \in Qids, p \in Pids :
               Has(qs[c], p) <=> p # pid /\ StateOn(prstate[p], prsem[p], c)
         /\ \A c \in Qids \ {q} : qs[c] = queue[c]
         /\ Len(qs[q]) = Len(queue[q]) - 1
         /\ pid # currpid
<1> DEFINE qs == getitem(queue, pid)
<1>1. Has(queue[q], pid)
  BY DEF IInv, Agree
<1>2. \A c \in Qids : Has(queue[c], pid) <=> c = q
  BY <1>1, OnOneList
<1>3. Unlinked(qs, queue, Qids, Pids, q, pid)
  BY <1>2, getitemLists DEF IInv, Agree
<1> HIDE DEF qs
<1>4. ASSUME NEW c \in Qids, NEW p \in Pids
      PROVE  Has(qs[c], p) <=> p # pid /\ StateOn(prstate[p], prsem[p], c)
  <2>1. Has(qs[c], p) <=> Has(queue[c], p) /\ ~(c = q /\ p = pid)
    BY <1>3 DEF Unlinked
  <2>2. Has(queue[c], p) <=> StateOn(prstate[p], prsem[p], c)
    BY DEF IInv, Agree
  <2> QED
    BY <1>2, <2>1, <2>2
<1>5. pid # currpid
  BY CurrentSchedulable DEF StateOn
<1> QED
  BY <1>3, <1>4, <1>5 DEF Unlinked, qs

----------------------------------------------------------------------------
\* Messages.

\* send reschedules with the receiver ready, or does nothing to the scheduler.
LEMMA SendSteps ==
  ASSUME IInv, NEW pid \in Pids, NEW msg, Send(pid, msg)
  PROVE  /\ ndefers' = ndefers
         /\ \E st, qs : Scheduled(st, qs, prsem) /\ WaitersKept(st, qs)
<1> USE Identifiers
<1>0. ndefers \in Nat
  BY DEF IInv, FrameInv
<1>1. CASE UNCHANGED <<schedVars, deferVars>>
  <2>1. UNCHANGED <<prstate, queue, currpid, ndefers>>
    BY <1>1 DEF schedVars, deferVars
  <2>2. Scheduled(prstate, queue, prsem) /\ WaitersKept(prstate, queue)
    BY <2>1, NotRescheduled, SameWaiters
  <2> QED
    BY <2>1, <2>2
<1>2. CASE prstate[pid] = "RECV" /\ Ready(pid, prstate, queue, qkey)
  <2>1. Readyable(pid, prstate, queue, prsem)
    BY <1>2, CurrentSchedulable DEF Readyable, Schedulable, Agree, StateOn
  <2>2. /\ Scheduled([prstate EXCEPT ![pid] = "READY"], queue, prsem)
        /\ ndefers' = ndefers
    BY <1>0, <1>2, <2>1, ReadySchedules, CurrentSchedulable
  <2>3. pid # NULLPROC
    BY <1>2, CurrentSchedulable DEF Running
  <2>4. WaitersKept([prstate EXCEPT ![pid] = "READY"], queue)
    BY <2>3, OtherWaiters DEF PrStates
  <2> QED
    BY <2>2, <2>4
<1>3. CASE /\ prstate[pid] = "RECTIM"
           /\ Ready(pid, prstate, getitem(queue, pid),
                    unsleepKey(queue, qkey, pid, sleepq))
  <2> DEFINE qs == getitem(queue, pid)
  <2>1. StateOn(prstate[pid], prsem[pid], sleepq)
    BY <1>3 DEF StateOn
  <2>2. /\ Lists(qs, Qids, Pids)
        /\ \A c \in Qids, p \in Pids :
              Has(qs[c], p) <=> p # pid /\ StateOn(prstate[p], prsem[p], c)
        /\ \A c \in Qids \ {sleepq} : qs[c] = queue[c]
        /\ pid # currpid
    BY <2>1, UnlinkProcess
  <2> HIDE DEF qs
  <2>3. Readyable(pid, prstate, qs, prsem)
    BY <2>2, CurrentSchedulable DEF Readyable, Schedulable
  <2>4. Ready(pid, prstate, qs, unsleepKey(queue, qkey, pid, sleepq))
    BY <1>3 DEF qs
  <2>5. /\ Scheduled([prstate EXCEPT ![pid] = "READY"], qs, prsem)
        /\ ndefers' = ndefers
    BY <1>0, <2>3, <2>4, ReadySchedules, CurrentSchedulable
  <2>6. pid # NULLPROC
    BY <1>3, CurrentSchedulable DEF Running
  <2>7. WaitersKept([prstate EXCEPT ![pid] = "READY"], qs)
    BY <2>2, <2>6, OtherWaiters DEF PrStates
  <2> QED
    BY <2>5, <2>7
<1> QED
  BY <1>1, <1>2, <1>3 DEF Send

\* send keeps the invariant.
LEMMA sendStep ==
  ASSUME IInv, NEW pid \in Pids, NEW msg, send(pid, msg)
  PROVE  IInv'
<1>1. /\ frame[currpid].at = "user" /\ frame' = frame /\ Send(pid, msg)
      /\ TablesKept
  BY DEF send, Caller, InUser, TablesKept, semVars, procVars, lifeVars
<1>2. frame[currpid].at \notin Loops
  BY <1>1 DEF Loops
<1>3. PICK st, qs : Scheduled(st, qs, prsem) /\ WaitersKept(st, qs)
  BY <1>1, SendSteps
<1>4. ndefers' = ndefers
  BY <1>1, SendSteps
<1>5. FramesAfter
  BY <1>1, FramesKept
<1> QED
  BY <1>1, <1>2, <1>3, <1>4, <1>5, PlainStep

\* A call that only changes the frame of the current process.
LEMMA OnlyFrame ==
  ASSUME IInv, frame[currpid].at \notin Loops, NEW f, FrameOK(f, currpid),
         frame' = [frame EXCEPT ![currpid] = f],
         TablesKept, UNCHANGED <<prstate, queue, currpid, ndefers>>
  PROVE  IInv'
<1>1. Scheduled(prstate, queue, prsem) /\ WaitersKept(prstate, queue)
  BY NotRescheduled, SameWaiters
<1>2. FramesAfter
  BY FrameReplaced
<1> QED
  BY <1>1, <1>2, PlainStep

\* Taking a message and returning keeps the invariant.
LEMMA TakeMessageStep ==
  ASSUME IInv, frame[currpid].at \notin Loops, TablesKept, TakeMessage
  PROVE  IInv'
<1>1. /\ UNCHANGED <<prstate, queue, currpid, ndefers>>
      /\ frame' = [frame EXCEPT ![currpid] = UserFrame]
  BY DEF TakeMessage, Return, schedVars, deferVars
<1>2. FrameOK(UserFrame, currpid)
  BY PlainFrames, CurrentSchedulable
<1> QED
  BY <1>1, <1>2, OnlyFrame

\* A call in which the current process gives up the CPU.
LEMMA BlockStep ==
  ASSUME IInv, frame[currpid].at = "user", currpid # NULLPROC,
         NEW state \in PrStates \ {"WAIT"}, NEW qs, NEW ks, NEW slice,
         Schedulable([prstate EXCEPT ![currpid] = state], qs, prsem),
         \A s \in Sems : qs[s] = queue[s],
         ReschedSlice([prstate EXCEPT ![currpid] = state], qs, ks, slice),
         ndefers' = ndefers, TablesKept, FramesAfter
  PROVE  IInv'
<1> DEFINE st == [prstate EXCEPT ![currpid] = state]
<1>1. Scheduled(st, qs, prsem)
  BY ReschedSchedules, CurrentSchedulable
<1>2. WaitersKept(st, qs)
  BY OtherWaiters, CurrentSchedulable
<1>3. frame[currpid].at \notin Loops
  BY DEF Loops
<1> QED
  BY <1>1, <1>2, <1>3, PlainStep

\* receive and recvtime block in their own frame.
LEMMA receiveStep ==
  ASSUME IInv, receive
  PROVE  IInv'
<1> DEFINE f == Frame("receive", 0, 0, 0)
<1>1. frame[currpid].at = "user" /\ currpid # NULLPROC /\ TablesKept
  BY DEF receive, Caller, InUser, TablesKept, semVars, procVars, lifeVars
<1>2. CASE TakeMessage
  BY <1>1, <1>2, TakeMessageStep DEF Loops
<1>3. CASE AwaitMessage("receive", "RECV", queue, qkey)
  <2>1. /\ Resched([prstate EXCEPT ![currpid] = "RECV"], queue, qkey)
        /\ ndefers' = ndefers
        /\ frame' = [frame EXCEPT ![currpid] = f]
    BY <1>3 DEF AwaitMessage, Block, deferVars
  <2>2. FrameOK(f, currpid)
    BY <1>1, PlainFrames, CurrentSchedulable
  <2>3. FramesAfter
    BY <2>1, <2>2, FrameReplaced
  <2>4. Schedulable([prstate EXCEPT ![currpid] = "RECV"], queue, prsem)
    BY <1>1, BlockOffLists
  <2>5. "RECV" \in PrStates \ {"WAIT"}
    BY DEF PrStates
  <2> QED
    BY <1>1, <2>1, <2>3, <2>4, <2>5, BlockStep DEF Resched
<1> QED
  BY <1>2, <1>3 DEF receive

\* recvtime keeps the invariant: it takes a message or joins the sleep queue.
LEMMA recvtimeStep ==
  ASSUME IInv, NEW maxwait, recvtime(maxwait)
  PROVE  IInv'
<1> DEFINE f == Frame("recvtime", 0, 0, 0)
           qs == insertd(queue, qkey, currpid, sleepq, maxwait)
           ks == insertdKey(queue, qkey, currpid, sleepq, maxwait)
<1>1. frame[currpid].at = "user" /\ currpid # NULLPROC /\ TablesKept
  BY DEF recvtime, Caller, InUser, TablesKept, semVars, procVars, lifeVars
<1>2. CASE TakeMessage
  BY <1>1, <1>2, TakeMessageStep DEF Loops
<1>3. CASE AwaitMessage("recvtime", "RECTIM", qs, ks)
  <2>1. /\ Resched([prstate EXCEPT ![currpid] = "RECTIM"], qs, ks)
        /\ ndefers' = ndefers
        /\ frame' = [frame EXCEPT ![currpid] = f]
    BY <1>3 DEF AwaitMessage, Block, deferVars
  <2>2. FrameOK(f, currpid)
    BY <1>1, PlainFrames, CurrentSchedulable
  <2>3. FramesAfter
    BY <2>1, <2>2, FrameReplaced
  <2>4. /\ Schedulable([prstate EXCEPT ![currpid] = "RECTIM"], qs, prsem)
        /\ \A s \in Sems : qs[s] = queue[s]
    BY <1>1, BlockAsleep
  <2>5. "RECTIM" \in PrStates \ {"WAIT"}
    BY DEF PrStates
  <2> HIDE DEF qs, ks
  <2> QED
    BY <1>1, <2>1, <2>3, <2>4, <2>5, BlockStep DEF Resched
<1> QED
  BY <1>2, <1>3 DEF recvtime

\* The ends of receive and recvtime, and recvclr, keep the invariant.
LEMMA TakingSteps ==
  ASSUME IInv, receiveResumed \/ recvtimeResumed \/ recvclr
  PROVE  IInv'
<1>1. frame[currpid].at \notin Loops /\ TablesKept /\ TakeMessage
  BY DEF receiveResumed, recvtimeResumed, recvclr, Caller, InUser, InFrame, Loops,
         TablesKept, semVars, procVars, lifeVars
<1> QED
  BY <1>1, TakeMessageStep

----------------------------------------------------------------------------
\* The clock.

\* yield keeps the invariant.
LEMMA yieldStep ==
  ASSUME IInv, yield
  PROVE  IInv'
<1>1. /\ frame[currpid].at = "user" /\ frame' = frame
      /\ Resched(prstate, queue, qkey) /\ ndefers' = ndefers /\ TablesKept
  BY DEF yield, Caller, InUser, TablesKept, deferVars, semVars, procVars, lifeVars
<1>2. Scheduled(prstate, queue, prsem)
  BY <1>1, ReschedSchedules, CurrentSchedulable DEF Resched
<1>3. FramesAfter
  BY <1>1, FramesKept
<1> QED
  BY <1>1, <1>2, <1>3, SameWaiters, PlainStep DEF Loops

\* sleepms keeps the invariant: the caller yields or joins the sleep queue.
LEMMA sleepmsStep ==
  ASSUME IInv, NEW delay, sleepms(delay)
  PROVE  IInv'
<1> DEFINE qs == insertd(queue, qkey, currpid, sleepq, delay)
           ks == insertdKey(queue, qkey, currpid, sleepq, delay)
<1>1. CASE yield
  BY <1>1, yieldStep
<1>2. CASE /\ Caller /\ Block("SLEEP", qs, ks)
           /\ UNCHANGED <<semVars, msgVars, procVars, prsem, lifeVars, frame>>
  <2>1. /\ frame[currpid].at = "user" /\ currpid # NULLPROC /\ frame' = frame
        /\ Resched([prstate EXCEPT ![currpid] = "SLEEP"], qs, ks)
        /\ ndefers' = ndefers /\ TablesKept
    BY <1>2 DEF Caller, InUser, Block, TablesKept, deferVars, semVars, procVars, lifeVars
  <2>2. FramesAfter
    BY <2>1, FramesKept
  <2>3. /\ Schedulable([prstate EXCEPT ![currpid] = "SLEEP"], qs, prsem)
        /\ \A s \in Sems : qs[s] = queue[s]
    BY <2>1, BlockAsleep
  <2>4. "SLEEP" \in PrStates \ {"WAIT"}
    BY DEF PrStates
  <2> HIDE DEF qs, ks
  <2> QED
    BY <2>1, <2>2, <2>3, <2>4, BlockStep DEF Resched
<1> QED
  BY <1>1, <1>2 DEF sleepms

\* The end of clkhandler keeps the invariant.
LEMMA EndOfTickStep ==
  ASSUME IInv, NEW ks, frame[currpid].at \notin Loops, TablesKept, EndOfTick(ks)
  PROVE  IInv'
<1>1. frame' = [frame EXCEPT ![currpid] = UserFrame] /\ ndefers' = ndefers
  BY DEF EndOfTick, Return, deferVars
<1>2. FramesAfter
  BY <1>1, FrameReplaced, PlainFrames, CurrentSchedulable
<1>3. CASE ReschedSlice(prstate, queue, ks, QUANTUM)
  <2>1. Scheduled(prstate, queue, prsem)
    BY <1>3, ReschedSchedules, CurrentSchedulable
  <2> QED
    BY <1>1, <1>2, <2>1, SameWaiters, PlainStep
<1>4. CASE UNCHANGED <<prstate, queue, currpid>>
  BY <1>1, <1>2, <1>4, NotRescheduled, SameWaiters, PlainStep
<1> QED
  BY <1>3, <1>4 DEF EndOfTick

\* The clock interrupt keeps the invariant, in a user process or the null one.
LEMMA clkhandlerStep ==
  ASSUME IInv, clkhandler
  PROVE  IInv'
<1> USE Identifiers
<1> DEFINE f == Frame("wakeup", 0, 0, 0)
<1>1. /\ ~halted /\ frame[currpid].at = "user" /\ halted' = halted /\ TablesKept
  BY DEF clkhandler, InUser, TablesKept, semVars, procVars, lifeVars
<1>2. CASE \E ks : EndOfTick(ks)
  BY <1>1, <1>2, EndOfTickStep DEF Loops
<1>3. CASE /\ DeferStart
           /\ frame' = [frame EXCEPT ![currpid] = f]
           /\ UNCHANGED <<prstate, queue, currpid>>
  <2>1. /\ ndefers = 0
        /\ \A s \in Sems : CountOK(queue, scount, s)
        /\ \A s \in Sems : sstate[s] = "FREE" => queue[s] = << >>
    BY <1>1, OutsideLoops DEF Loops
  <2>2. ndefers' = 1
    BY <1>3, <2>1 DEF DeferStart
  <2>3. f \in FrameType /\ f.at = "wakeup" /\ f.at \in Loops
    BY ProcTabAssumption DEF Frame, FrameType, Ats, Loops, Sems, Pids
  <2> HIDE DEF f
  <2>4. LoopFrameAfter(f)
    BY <1>1, <1>3, <2>2, <2>3 DEF LoopFrameAfter
  <2>5. Scheduled(prstate, queue, prsem')
    BY <1>1, <1>3, NotRescheduled DEF TablesKept
  <2>6. TypesAfter
    BY <1>1 DEF TypesAfter, TablesKept, IInv, StateTypes
  <2>7. LoopSemsAfter(prstate, queue, f)
    BY <1>1, <2>1, CurrentSchedulable DEF LoopSemsAfter, TablesKept, IInv, WaitInv
  <2> QED
    BY <2>4, <2>5, <2>6, <2>7, StepInLoop
<1> QED
  BY <1>2, <1>3 DEF clkhandler

\* Each turn of wakeup's loop, and its end, keep the invariant.
LEMMA wakeupStep ==
  ASSUME IInv, wakeup
  PROVE  IInv'
<1> USE Identifiers
<1> DEFINE f == frame[currpid]
<1>0. /\ ~halted /\ f.at = "wakeup" /\ f.at \in Loops /\ currpid \in Pids
      /\ halted' = halted /\ TablesKept
  BY DEF wakeup, InFrame, Loops, IInv, StateTypes, TablesKept, semVars, procVars, lifeVars
<1>1. /\ ndefers = 1 /\ f \in FrameType
      /\ \A s \in Sems : CountOK(queue, scount, s)
      /\ \A s \in Sems : sstate[s] = "FREE" => queue[s] = << >>
  BY <1>0, InsideLoops
<1>2. CASE /\ queue[sleepq] # << >>
           /\ Ready(Head(queue[sleepq]), prstate, dequeue(queue, sleepq), qkey)
           /\ UNCHANGED frame
  <2> DEFINE st == ReleaseState(sleepq)
             qs == dequeue(queue, sleepq)
  <2>1. /\ Scheduled(st, qs, prsem)
        /\ ndefers' = ndefers
        /\ ndefers > 0 => currpid' = currpid
        /\ st[NULLPROC] \in Running
        /\ \A p \in Pids : st[p] = "WAIT" => prsem[p] \in Sems
        /\ \A c \in Qids \ {sleepq} : qs[c] = queue[c]
    BY <1>2, ReleaseFirst
  <2> HIDE DEF st, qs
  <2>2. LoopFrameAfter(f)
    BY <1>0, <1>1, <1>2, <2>1 DEF LoopFrameAfter, IInv, StateTypes
  <2>3. TypesAfter
    BY <1>0 DEF TypesAfter, TablesKept, IInv, StateTypes
  <2>4. LoopSemsAfter(st, qs, f)
    BY <1>0, <1>1, <2>1 DEF LoopSemsAfter, TablesKept, CountOK
  <2>5. Scheduled(st, qs, prsem')
    BY <1>0, <2>1 DEF TablesKept
  <2> QED
    BY <2>2, <2>3, <2>4, <2>5, StepInLoop
<1>3. CASE DeferStop /\ frame' = [frame EXCEPT ![currpid] = Frame("clkrest", 0, 0, 0)]
  <2>1. Scheduled(prstate, queue, prsem) /\ ndefers' = 0
    BY <1>0, <1>3, DeferStopSchedules
  <2>2. FramesAfter
    BY <1>0, <1>3, PlainFrames, FrameReplaced
  <2>3. TypesAfter
    BY <1>0 DEF TypesAfter, TablesKept, IInv, StateTypes
  <2>4. SemsAfter(prstate, queue)
    BY <1>0, <1>1, CurrentSchedulable DEF SemsAfter, TablesKept, IInv, WaitInv
  <2>5. Scheduled(prstate, queue, prsem')
    BY <1>0, <2>1 DEF TablesKept
  <2> QED
    BY <2>1, <2>2, <2>3, <2>4, <2>5, StepOutsideLoops
<1> QED
  BY <1>2, <1>3 DEF wakeup, Due

\* The rest of clkhandler, run when its process is resumed, keeps the invariant.
LEMMA clkhandlerResumedStep ==
  ASSUME IInv, clkhandlerResumed
  PROVE  IInv'
<1>1. frame[currpid].at \notin Loops /\ TablesKept /\ EndOfTick(qkey)
  BY DEF clkhandlerResumed, InFrame, Loops, TablesKept, semVars, procVars, lifeVars
<1> QED
  BY <1>1, EndOfTickStep

----------------------------------------------------------------------------
\* Processes.

\* newpid finds a free entry, neither the null process's nor the caller's.
LEMMA NewPidIsFree ==
  ASSUME IInv, ~TableFull
  PROVE  /\ NewPid \in Pids \ {NULLPROC, currpid}
         /\ prstate[NewPid] = "FREE"
         /\ NewPid + 1 \in 1..NPROC
<1> DEFINE K == {k \in 0..(NPROC - 1) : FreePidAt(k)}
           m == Min(K)
<1>1. K \subseteq Nat /\ K # {}
  BY ProcTabAssumption DEF TableFull
<1>2. m \in K
  <2> HIDE DEF K
  <2> QED
    BY <1>1, LeastNat
<1>3. m \in 0..(NPROC - 1) /\ prstate[(nextpid + m) % NPROC] = "FREE"
  BY <1>2 DEF FreePidAt
<1>4. NewPid = (nextpid + m) % NPROC
  BY DEF NewPid
<1> HIDE DEF m
<1>5. nextpid + m \in Nat
  BY <1>3, ProcTabAssumption DEF IInv, StateTypes
<1>6. NewPid \in Pids
  BY <1>4, <1>5, ProcTabAssumption DEF Pids
<1>7. NewPid # NULLPROC /\ NewPid # currpid
  BY <1>3, <1>4, CurrentSchedulable DEF Running
<1>8. NewPid + 1 \in 1..NPROC
  BY <1>6, ProcTabAssumption DEF Pids
<1> QED
  BY <1>3, <1>4, <1>6, <1>7, <1>8

\* The entry of a new process in state state: on list qs if it is ready.
LEMMA NewEntrySteps ==
  ASSUME IInv, NEW pid \in Pids \ {NULLPROC, currpid}, prstate[pid] = "FREE",
         pid + 1 \in 1..NPROC, NEW prio, NEW par \in Pids, NewEntry(pid, prio, par),
         UNCHANGED semVars
  PROVE  /\ TypesAfter
         /\ prsem' = [prsem EXCEPT ![pid] = -1]
         /\ halted' = halted
         /\ UNCHANGED <<sstate, scount>>
  BY DEF NewEntry, TypesAfter, IInv, StateTypes, semVars

\* A process that was free becomes suspended, ...
LEMMA AdmitSuspended ==
  ASSUME IInv, NEW pid \in Pids \ {NULLPROC, currpid}, prstate[pid] = "FREE",
         NEW st, st = [prstate EXCEPT ![pid] = "SUSP"],
         prsem' = [prsem EXCEPT ![pid] = -1]
  PROVE  /\ \A p \in Pids : st[p] = "WAIT" => prsem'[p] \in Sems
         /\ st \in [Pids -> PrStates]
         /\ Agree(st, queue, prsem')
<1>1. /\ prsem' \in [Pids -> Sems \cup {-1}]
      /\ \A p \in Pids \ {pid} : prsem'[p] = prsem[p]
  BY DEF IInv, StateTypes
<1>2. /\ st \in [Pids -> PrStates] /\ st[pid] = "SUSP"
      /\ \A p \in Pids \ {pid} : st[p] = prstate[p]
  BY DEF IInv, StateTypes, PrStates
<1>3. Agree(st, queue, prsem')
  BY <1>1, <1>2 DEF IInv, Agree, StateOn
<1> QED
  BY <1>1, <1>2, <1>3 DEF IInv, WaitInv

\* ... or ready and linked into the ready list.
LEMMA AdmitReady ==
  ASSUME IInv, NEW pid \in Pids \ {NULLPROC, currpid}, prstate[pid] = "FREE",
         NEW st, st = [prstate EXCEPT ![pid] = "READY"],
         prsem' = [prsem EXCEPT ![pid] = -1],
         NEW qs, Linked(qs, queue, Qids, Pids, readylist, pid)
  PROVE  /\ \A p \in Pids : st[p] = "WAIT" => prsem'[p] \in Sems
         /\ Schedulable(st, qs, prsem')
         /\ \A s \in Sems : qs[s] = queue[s]
<1> USE Identifiers
<1>1. /\ prsem' \in [Pids -> Sems \cup {-1}]
      /\ \A p \in Pids \ {pid} : prsem'[p] = prsem[p]
  BY DEF IInv, StateTypes
<1>2. /\ st \in [Pids -> PrStates] /\ st[pid] = "READY"
      /\ \A p \in Pids \ {pid} : st[p] = prstate[p]
  BY DEF IInv, StateTypes, PrStates
<1>3. ASSUME NEW q \in Qids, NEW p \in Pids
      PROVE  Has(qs[q], p) <=> StateOn(st[p], prsem'[p], q)
  <2>1. Has(queue[q], p) <=> StateOn(prstate[p], prsem[p], q)
    BY DEF IInv, Agree
  <2>2. Has(qs[q], p) <=> Has(queue[q], p) \/ (q = readylist /\ p = pid)
    BY DEF Linked
  <2> QED
    BY <1>1, <1>2, <2>1, <2>2 DEF StateOn
<1>4. Agree(st, qs, prsem')
  BY <1>3 DEF Agree, Linked
<1>5. Schedulable(st, qs, prsem')
  BY <1>1, <1>2, <1>4, CurrentSchedulable DEF Schedulable
<1>6. \A s \in Sems : qs[s] = queue[s]
  BY DEF Linked
<1> QED
  BY <1>1, <1>2, <1>5, <1>6 DEF IInv, WaitInv

\* create keeps the invariant: the new process is suspended and on no list.
LEMMA createStep ==
  ASSUME IInv, NEW prio, create(prio)
  PROVE  IInv'
<1> USE Identifiers
<1> DEFINE pid == NewPid
           st == [prstate EXCEPT ![pid] = "SUSP"]
<1>1. /\ frame[currpid].at = "user" /\ ~TableFull
      /\ NewEntry(pid, prio, currpid)
      /\ prstate' = st
      /\ frame' = [frame EXCEPT ![pid] = UserFrame]
      /\ UNCHANGED <<queue, currpid, ndefers>> /\ UNCHANGED semVars
  BY DEF create, Caller, InUser, deferVars
<1>2. /\ pid \in Pids \ {NULLPROC, currpid} /\ prstate[pid] = "FREE"
      /\ pid + 1 \in 1..NPROC
  BY <1>1, NewPidIsFree
<1> HIDE DEF pid
<1>3. currpid \in Pids
  BY CurrentSchedulable
<1>4. /\ TypesAfter
      /\ prsem' = [prsem EXCEPT ![pid] = -1]
      /\ UNCHANGED <<sstate, scount>>
  BY <1>1, <1>2, <1>3, NewEntrySteps
<1>5. /\ \A p \in Pids : st[p] = "WAIT" => prsem'[p] \in Sems
      /\ st \in [Pids -> PrStates]
      /\ Agree(st, queue, prsem')
  BY <1>2, <1>4, AdmitSuspended
<1>6. st[pid] = "SUSP" /\ \A p \in Pids \ {pid} : st[p] = prstate[p]
  BY <1>2 DEF IInv, StateTypes
<1> HIDE DEF st
<1>7. /\ \A s \in Sems : CountOK(queue, scount, s)
      /\ \A s \in Sems : sstate[s] = "FREE" => queue[s] = << >>
      /\ ndefers = 0
  BY <1>1, OutsideLoops DEF Loops
<1>8. Scheduled(st, queue, prsem')
  BY <1>1, <1>2, <1>3, <1>5, <1>6, CurrentSchedulable DEF Scheduled
<1>9. SemsAfter(st, queue)
  BY <1>2, <1>4, <1>5, <1>6, <1>7, CurrentSchedulable DEF SemsAfter
<1>10. FramesAfter
  BY <1>1, <1>2, PlainFrames
     DEF IInv, StateTypes, FrameInv, FrameOK, FramesAfter, Loops
<1> QED
  BY <1>1, <1>4, <1>7, <1>8, <1>9, <1>10, StepOutsideLoops

\* create on a full table keeps the invariant.
LEMMA createFullStep ==
  ASSUME IInv, createFull
  PROVE  IInv'
<1>1. /\ frame[currpid].at = "user" /\ frame' = frame /\ TablesKept
      /\ UNCHANGED <<prstate, queue, currpid, ndefers>>
  BY DEF createFull, Caller, InUser, TablesKept, schedVars, deferVars, semVars, procVars
<1>2. FramesAfter
  BY <1>1, FramesKept
<1> QED
  BY <1>1, <1>2, NotRescheduled, SameWaiters, PlainStep DEF Loops

\* create with a priority that is refused keeps the invariant.
LEMMA createRefusedStep ==
  ASSUME IInv, createRefused
  PROVE  IInv'
<1>1. /\ frame[currpid].at = "user" /\ frame' = frame
      /\ UNCHANGED <<prstate, queue, currpid, ndefers>>
      /\ UNCHANGED <<prsem, prparent, sstate, scount, nextsem>>
      /\ nextpid' = NewPid + 1 /\ ~TableFull
  BY DEF createRefused, Caller, InUser, schedVars, deferVars, semVars, procVars
<1>2. nextpid' \in 1..NPROC
  BY <1>1, NewPidIsFree
<1>3. FramesAfter
  BY <1>1, FramesKept
<1>4. TypesAfter
  BY <1>1, <1>2 DEF TypesAfter, IInv, StateTypes
<1>5. /\ ndefers' = 0
      /\ \A s \in Sems : CountOK(queue, scount, s)
      /\ \A s \in Sems : sstate[s] = "FREE" => queue[s] = << >>
  BY <1>1, OutsideLoops DEF Loops
<1>6. SemsAfter(prstate, queue)
  BY <1>1, <1>5, SameWaiters DEF SemsAfter, WaitersKept, CountOK, IInv, WaitInv
<1>7. Scheduled(prstate, queue, prsem')
  BY <1>1, NotRescheduled
<1> QED
  BY <1>1, <1>3, <1>4, <1>5, <1>6, <1>7, StepOutsideLoops DEF Loops

\* The end of nulluser keeps the invariant.
LEMMA bootStep ==
  ASSUME IInv, boot
  PROVE  IInv'
<1> USE Identifiers
<1> DEFINE pid == NewPid
           st == [prstate EXCEPT ![pid] = "READY"]
           qs == insert(queue, qkey, pid, readylist, InitPrio)
           ks == insertKey(qkey, pid, InitPrio)
<1>1. /\ frame[currpid].at = "boot"
      /\ NewEntry(pid, InitPrio, NULLPROC)
      /\ Resched(st, qs, ks)
      /\ frame' = [frame EXCEPT ![NULLPROC] = UserFrame]
      /\ ndefers' = ndefers /\ UNCHANGED semVars
  BY DEF boot, InFrame, deferVars
<1>2. currpid = NULLPROC /\ ~TableFull
  BY <1>1 DEF IInv, FrameInv, FrameOK, Loops
<1>3. /\ pid \in Pids \ {NULLPROC, currpid} /\ prstate[pid] = "FREE"
      /\ pid + 1 \in 1..NPROC
  BY <1>2, NewPidIsFree
<1> HIDE DEF pid
<1>4. /\ TypesAfter
      /\ prsem' = [prsem EXCEPT ![pid] = -1]
      /\ UNCHANGED <<sstate, scount>>
  BY <1>1, <1>3, NewEntrySteps
<1>5. /\ \A p \in Pids : st[p] = "WAIT" => prsem'[p] \in Sems
      /\ Schedulable(st, qs, prsem')
      /\ \A s \in Sems : qs[s] = queue[s]
  <2>1. \A q \in Qids : ~Has(queue[q], pid)
    BY <1>3 DEF IInv, Agree, StateOn
  <2>2. Linked(qs, queue, Qids, Pids, readylist, pid)
    BY <1>3, <2>1, insertLists DEF IInv, Agree
  <2>3. st = [prstate EXCEPT ![pid] = "READY"]
    OBVIOUS
  <2> HIDE DEF st, qs
  <2> QED
    BY <1>3, <1>4, <2>2, <2>3, AdmitReady
<1> HIDE DEF qs, ks, st
<1>6. Scheduled(st, qs, prsem')
  BY <1>1, <1>5, ReschedSchedules, CurrentSchedulable DEF Resched
<1>7. /\ \A s \in Sems : CountOK(queue, scount, s)
      /\ \A s \in Sems : sstate[s] = "FREE" => queue[s] = << >>
      /\ ndefers = 0
  BY <1>1, OutsideLoops DEF Loops
<1>8. SemsAfter(st, qs)
  BY <1>4, <1>5, <1>7 DEF SemsAfter, Schedulable, CountOK
<1>9. FramesAfter
  BY <1>1, <1>2, PlainFrames, FrameReplaced
<1> QED
  BY <1>1, <1>4, <1>6, <1>7, <1>8, <1>9, StepOutsideLoops

\* resume keeps the invariant.
LEMMA resumeStep ==
  ASSUME IInv, NEW pid \in Pids, resume(pid)
  PROVE  IInv'
<1>1. /\ frame[currpid].at = "user" /\ frame' = frame /\ TablesKept
      /\ prstate[pid] = "SUSP" /\ Ready(pid, prstate, queue, qkey)
  BY DEF resume, Caller, InUser, TablesKept, semVars, procVars, lifeVars
<1>2. Readyable(pid, prstate, queue, prsem)
  BY <1>1, CurrentSchedulable DEF Readyable, Schedulable, Agree, StateOn
<1>3. ndefers \in Nat
  BY DEF IInv, FrameInv
<1>4. /\ Scheduled([prstate EXCEPT ![pid] = "READY"], queue, prsem)
      /\ ndefers' = ndefers
  BY <1>1, <1>2, <1>3, ReadySchedules, CurrentSchedulable
<1>5. pid # NULLPROC
  BY <1>1, CurrentSchedulable DEF Running
<1>6. WaitersKept([prstate EXCEPT ![pid] = "READY"], queue)
  BY <1>5, OtherWaiters DEF PrStates
<1>7. FramesAfter
  BY <1>1, FramesKept
<1> QED
  BY <1>1, <1>4, <1>6, <1>7, PlainStep DEF Loops

\* Process pid leaves the list it is on and becomes suspended or free.
LEMMA LeaveList ==
  ASSUME IInv, NEW pid \in Pids \ {NULLPROC}, NEW q \in Qids,
         StateOn(prstate[pid], prsem[pid], q), NEW state \in {"SUSP", "FREE"},
         prstate' = [prstate EXCEPT ![pid] = state],
         queue' = getitem(queue, pid), currpid' = currpid
  PROVE  /\ Scheduled(prstate', queue', prsem)
         /\ \A c \in Qids \ {q} : queue'[c] = queue[c]
         /\ Len(queue'[q]) = Len(queue[q]) - 1
<1>1. /\ Lists(queue', Qids, Pids)
      /\ \A c \in Qids, p \in Pids :
            Has(queue'[c], p) <=> p # pid /\ StateOn(prstate[p], prsem[p], c)
      /\ \A c \in Qids \ {q} : queue'[c] = queue[c]
      /\ Len(queue'[q]) = Len(queue[q]) - 1
      /\ pid # currpid
  BY UnlinkProcess
<1>2. /\ prstate' \in [Pids -> PrStates] /\ prstate'[pid] = state
      /\ \A p \in Pids \ {pid} : prstate'[p] = prstate[p]
  BY DEF IInv, StateTypes, PrStates
<1>3. Agree(prstate', queue', prsem)
  BY <1>1, <1>2 DEF Agree, StateOn
<1>4. \A p \in Pids : prstate'[p] = "CURR" <=> p = currpid'
  BY <1>1, <1>2, CurrentSchedulable
<1>5. Scheduled(prstate', queue', prsem)
  BY <1>2, <1>3, <1>4, CurrentSchedulable DEF Scheduled
<1> QED
  BY <1>1, <1>5

\* suspend keeps the invariant, of a ready process and of the caller.
LEMMA suspendStep ==
  ASSUME IInv, NEW pid \in Pids, suspend(pid)
  PROVE  IInv'
<1> USE Identifiers
<1>1. /\ frame[currpid].at = "user" /\ frame' = frame /\ TablesKept
      /\ pid # NULLPROC
  BY DEF suspend, Exempt, Caller, InUser, TablesKept, semVars, procVars, lifeVars
<1>2. FramesAfter
  BY <1>1, FramesKept
<1>3. CASE /\ prstate[pid] = "READY"
           /\ queue' = getitem(queue, pid)
           /\ prstate' = [prstate EXCEPT ![pid] = "SUSP"]
           /\ UNCHANGED <<qkey, currpid, preempt, deferVars>>
  <2>1. StateOn(prstate[pid], prsem[pid], readylist)
    BY <1>3 DEF StateOn
  <2>2. /\ Scheduled(prstate', queue', prsem)
        /\ \A c \in Qids \ {readylist} : queue'[c] = queue[c]
    BY <1>1, <1>3, <2>1, LeaveList
  <2>3. WaitersKept(prstate', queue')
    <3>1. \A s \in Sems : queue'[s] = queue[s]
      BY <2>2
    <3>2. "SUSP" \in PrStates \ {"WAIT"}
      BY DEF PrStates
    <3>3. WaitersKept([prstate EXCEPT ![pid] = "SUSP"], queue')
      BY <1>1, <3>1, <3>2, OtherWaiters
    <3> QED
      BY <1>3, <3>3
  <2>4. ndefers' = ndefers
    BY <1>3 DEF deferVars
  <2> QED
    BY <1>1, <1>2, <2>2, <2>3, <2>4, PlainStep DEF Loops
<1>4. CASE prstate[pid] = "CURR" /\ Block("SUSP", queue, qkey)
  <2>1. pid = currpid
    BY <1>4, CurrentSchedulable
  <2>2. /\ Resched([prstate EXCEPT ![currpid] = "SUSP"], queue, qkey)
        /\ ndefers' = ndefers
    BY <1>4 DEF Block, deferVars
  <2>3. Schedulable([prstate EXCEPT ![currpid] = "SUSP"], queue, prsem)
    BY <1>1, <2>1, BlockOffLists
  <2>4. "SUSP" \in PrStates \ {"WAIT"}
    BY DEF PrStates
  <2> QED
    BY <1>1, <1>2, <2>1, <2>2, <2>3, <2>4, BlockStep DEF Resched
<1> QED
  BY <1>3, <1>4 DEF suspend

\* chprio keeps the invariant.
LEMMA chprioStep ==
  ASSUME IInv, NEW pid \in Pids, NEW prio, chprio(pid, prio)
  PROVE  IInv'
<1>1. /\ frame[currpid].at = "user" /\ frame' = frame /\ TablesKept
      /\ UNCHANGED <<prstate, queue, currpid, ndefers>>
  BY DEF chprio, Caller, InUser, TablesKept, schedVars, deferVars, semVars, lifeVars
<1>2. FramesAfter
  BY <1>1, FramesKept
<1> QED
  BY <1>1, <1>2, NotRescheduled, SameWaiters, PlainStep DEF Loops

\* kill, up to the switch to the parent, keeps the invariant.
LEMMA killStep ==
  ASSUME IInv, NEW pid \in Pids, kill(pid)
  PROVE  IInv'
<1>1. /\ frame[currpid].at = "user" /\ currpid # NULLPROC /\ pid # NULLPROC
      /\ frame' = [frame EXCEPT ![currpid] = Frame("kill", 0, 0, pid)]
      /\ TablesKept
  BY DEF kill, Exempt, Caller, InUser, TablesKept, semVars, procVars
<1>2. FramesAfter
  BY <1>1, PlainFrames, FrameReplaced, CurrentSchedulable
<1>3. CASE UNCHANGED <<schedVars, deferVars>>
  <2>1. UNCHANGED <<prstate, queue, currpid, ndefers>>
    BY <1>3 DEF schedVars, deferVars
  <2> QED
    BY <1>1, <1>2, <2>1, NotRescheduled, SameWaiters, PlainStep DEF Loops
<1>4. CASE Send(prparent[pid], pid)
  <2>1. prparent[pid] \in Pids
    BY DEF IInv, StateTypes
  <2>2. PICK st, qs : Scheduled(st, qs, prsem) /\ WaitersKept(st, qs)
    BY <1>4, <2>1, SendSteps
  <2>3. ndefers' = ndefers
    BY <1>4, <2>1, SendSteps
  <2> QED
    BY <1>1, <1>2, <2>2, <2>3, PlainStep DEF Loops
<1> QED
  BY <1>3, <1>4 DEF kill

\* The rest of kill keeps the invariant whatever has become of its victim since.
LEMMA killResumedStep ==
  ASSUME IInv, killResumed
  PROVE  IInv'
<1> USE Identifiers
<1> DEFINE pid == frame[currpid].pid
           st == [prstate EXCEPT ![pid] = "FREE"]
<1>1. /\ frame[currpid].at = "kill"
      /\ frame' = [frame EXCEPT ![currpid] = UserFrame]
      /\ UNCHANGED <<ndefers, sstate, nextsem, prsem, prparent, nextpid>>
  BY DEF killResumed, InFrame, Return, deferVars, procVars
<1>2. FramesAfter
  BY <1>1, PlainFrames, FrameReplaced, CurrentSchedulable
<1>3. pid \in Pids \ {NULLPROC} /\ frame[currpid].at \notin Loops
  BY <1>1, CurrentSchedulable DEF IInv, StateTypes, FrameType, FrameInv, FrameOK, Loops
<1>4. /\ ndefers = 0
      /\ \A s \in Sems : CountOK(queue, scount, s)
      /\ \A s \in Sems : sstate[s] = "FREE" => queue[s] = << >>
  BY <1>3, OutsideLoops
<1>5. \/ prstate[pid] = "CURR" /\ Resched(st, queue, qkey) /\ UNCHANGED scount
      \/ /\ prstate[pid] \in {"SLEEP", "RECTIM", "READY"}
         /\ prstate' = st /\ queue' = getitem(queue, pid)
         /\ UNCHANGED <<scount, currpid>>
      \/ /\ prstate[pid] = "WAIT"
         /\ prstate' = st /\ queue' = getitem(queue, pid)
         /\ scount' = [scount EXCEPT ![prsem[pid]] = @ + 1]
         /\ UNCHANGED currpid
      \/ /\ prstate[pid] \in {"RECV", "SUSP", "FREE"}
         /\ prstate' = st
         /\ UNCHANGED <<scount, queue, currpid>>
  BY DEF killResumed, CountWithout
<1> HIDE DEF pid
<1>6. \A qs : (\A s \in Sems : qs[s] = queue[s]) => WaitersKept(st, qs)
  BY <1>3, OtherWaiters DEF PrStates
<1>7. CASE prstate[pid] = "CURR" /\ Resched(st, queue, qkey) /\ UNCHANGED scount
  <2>1. pid = currpid
    BY <1>3, <1>7, CurrentSchedulable
  <2>2. Schedulable(st, queue, prsem)
    BY <1>3, <2>1, BlockOffLists
  <2> HIDE DEF st
  <2>3. Scheduled(st, queue, prsem)
    BY <1>7, <2>2, ReschedSchedules, CurrentSchedulable DEF Resched
  <2>4. WaitersKept(st, queue)
    BY <1>6
  <2> QED
    BY <1>1, <1>2, <1>3, <1>7, <2>3, <2>4, PlainStep DEF TablesKept
<1>8. CASE /\ prstate[pid] \in {"SLEEP", "RECTIM", "READY"}
           /\ prstate' = st /\ queue' = getitem(queue, pid)
           /\ UNCHANGED <<scount, currpid>>
  <2>1. PICK q \in {sleepq, readylist} : StateOn(prstate[pid], prsem[pid], q)
    BY <1>8 DEF StateOn
  <2>2. /\ Scheduled(prstate', queue', prsem)
        /\ \A c \in Qids \ {q} : queue'[c] = queue[c]
    BY <1>3, <1>8, <2>1, LeaveList
  <2>3. \A s \in Sems : queue'[s] = queue[s]
    BY <2>1, <2>2
  <2>4. WaitersKept(prstate', queue')
    BY <1>6, <1>8, <2>3
  <2> QED
    BY <1>1, <1>2, <1>3, <1>8, <2>2, <2>4, PlainStep DEF TablesKept
<1>9. CASE /\ prstate[pid] = "WAIT"
           /\ prstate' = st /\ queue' = getitem(queue, pid)
           /\ scount' = [scount EXCEPT ![prsem[pid]] = @ + 1]
           /\ UNCHANGED currpid
  <2> DEFINE sem == prsem[pid]
  <2>1. sem \in Sems
    BY <1>3, <1>9 DEF IInv, WaitInv
  <2>2. StateOn(prstate[pid], prsem[pid], sem)
    BY <1>9 DEF StateOn
  <2>3. /\ Scheduled(prstate', queue', prsem)
        /\ \A c \in Qids \ {sem} : queue'[c] = queue[c]
        /\ Len(queue'[sem]) = Len(queue[sem]) - 1
    BY <1>3, <1>9, <2>1, <2>2, LeaveList
  <2>4. Has(queue[sem], pid)
    BY <1>3, <2>1, <2>2 DEF IInv, Agree
  <2> HIDE DEF sem
  <2>5. /\ scount' \in [Sems -> Int] /\ scount[sem] \in Int
        /\ scount'[sem] = scount[sem] + 1
        /\ \A s \in Sems \ {sem} : scount'[s] = scount[s]
    BY <1>9, <2>1 DEF IInv, StateTypes, sem
  <2>6. Len(queue[sem]) # 0
    BY <2>4 DEF Has
  <2>7. Len(queue[sem]) = -scount[sem] /\ scount[sem] < 0
    BY <1>4, <2>1, <2>5, <2>6 DEF CountOK
  <2>8. CountOK(queue', scount', sem)
    BY <2>3, <2>5, <2>7 DEF CountOK
  <2>9. \A s \in Sems : CountOK(queue', scount', s)
    BY <1>4, <2>3, <2>5, <2>8 DEF CountOK
  <2>10. queue[sem] # << >>
    BY <2>6
  <2>11. \A s \in Sems : sstate'[s] = "FREE" => queue'[s] = << >>
    BY <1>1, <1>4, <2>3, <2>10
  <2>12. /\ prstate'[NULLPROC] \in Running
         /\ \A p \in Pids : prstate'[p] = "WAIT" => prsem'[p] \in Sems
    BY <1>1, <1>3, <1>9, CurrentSchedulable DEF IInv, StateTypes, WaitInv
  <2>13. SemsAfter(prstate', queue')
    BY <2>9, <2>11, <2>12 DEF SemsAfter
  <2>14. TypesAfter
    BY <1>1, <2>5 DEF TypesAfter, IInv, StateTypes
  <2>15. Scheduled(prstate', queue', prsem')
    BY <1>1, <2>3
  <2> QED
    BY <1>1, <1>2, <1>4, <2>13, <2>14, <2>15, StepOutsideLoops
<1>10. CASE /\ prstate[pid] \in {"RECV", "SUSP", "FREE"}
            /\ prstate' = st
            /\ UNCHANGED <<scount, queue, currpid>>
  <2>1. /\ prstate' \in [Pids -> PrStates] /\ prstate'[pid] = "FREE"
        /\ \A p \in Pids \ {pid} : prstate'[p] = prstate[p]
    BY <1>3, <1>10 DEF IInv, StateTypes, PrStates
  <2>2. Agree(prstate', queue', prsem)
    BY <1>3, <1>10, <2>1 DEF IInv, Agree, StateOn
  <2>3. \A p \in Pids : prstate'[p] = "CURR" <=> p = currpid'
    BY <1>3, <1>10, <2>1, CurrentSchedulable
  <2>4. Scheduled(prstate', queue', prsem)
    BY <1>10, <2>1, <2>2, <2>3, CurrentSchedulable DEF Scheduled
  <2>5. WaitersKept(prstate', queue')
    BY <1>6, <1>10
  <2> QED
    BY <1>1, <1>2, <1>3, <1>10, <2>4, <2>5, PlainStep DEF TablesKept
<1> QED
  BY <1>5, <1>7, <1>8, <1>9, <1>10

----------------------------------------------------------------------------
\* One modulo n is one, for n above one.
LEMMA OneModulo ==
  ASSUME NEW n \in Nat, n > 1
  PROVE  1 % n = 1
<1> DEFINE q == 1 \div n
           r == 1 % n
<1>1. q \in Int /\ r \in 0..(n - 1) /\ 1 = n * q + r
  OBVIOUS
<1> HIDE DEF q, r
<1>2. q = 0
  <2>1. CASE q >= 1
    BY <1>1, <2>1
  <2>2. CASE q <= -1
    BY <1>1, <2>2
  <2> QED
    BY <1>1, <2>1, <2>2
<1>3. r = 1
  BY <1>1, <1>2
<1> QED
  BY <1>3 DEF r

\* The state sysinit leaves satisfies the invariant.
LEMMA InitIInv == Init => IInv
<1> SUFFICES ASSUME Init PROVE IInv
  OBVIOUS
<1> USE Identifiers, ProcTabAssumption DEF Init
<1>1. Frame("boot", 0, 0, 0) \in FrameType /\ UserFrame \in FrameType
  BY DEF Frame, UserFrame, FrameType, Ats, Pids, Sems
<1>2. StateTypes
  BY <1>1 DEF StateTypes, PrStates, Sems, Pids
<1>3. Agree(prstate, queue, prsem)
  <2>1. Lists(queue, Qids, Pids) /\ \A q \in Qids : \A p : ~Has(queue[q], p)
    BY DEF Lists, Distinct, Has
  <2> QED
    BY <2>1 DEF Agree, StateOn
<1>4. CurrInv
  BY DEF CurrInv
<1>5. SemInv /\ FreeSemInv
  BY DEF SemInv, FreeSemInv
<1>6. WaitInv
  BY DEF WaitInv
<1>7. FrameInv
  <2>1. ~TableFull
    <3>1. 0 \in 0..(NPROC - 1) /\ (nextpid + 0) % NPROC = 1 /\ 1 \in Pids
      <4>1. NPROC \in Nat /\ NPROC > 1
        OBVIOUS
      <4>2. 1 % NPROC = 1
        BY <4>1, OneModulo
      <4>3. nextpid + 0 = 1
        OBVIOUS
      <4> QED
        BY <4>1, <4>2, <4>3 DEF Pids
    <3>2. FreePidAt(0)
      BY <3>1 DEF FreePidAt, NULLPROC
    <3> QED
      BY <3>1, <3>2 DEF TableFull
  <2>2. frame[currpid].at = "boot" /\ "boot" \notin Loops
    BY DEF Frame, Loops
  <2>3. \A p \in Pids \ {currpid} : FrameOK(frame[p], p)
    BY PlainFrames
  <2> QED
    BY <2>1, <2>2, <2>3 DEF FrameInv
<1> QED
  BY <1>2, <1>3, <1>4, <1>5, <1>6, <1>7 DEF IInv

\* A step that changes nothing keeps the invariant.
LEMMA Stuttering ==
  ASSUME IInv, UNCHANGED vars
  PROVE  IInv'
<1> USE DEF vars, schedVars, deferVars, semVars, msgVars, procVars, lifeVars, stkVars
<1>1. StateTypes' /\ WaitInv' /\ FreeSemInv' /\ SemInv' /\ CurrInv'
  BY DEF IInv, StateTypes, WaitInv, FreeSemInv, SemInv, CurrInv
<1>2. Agree(prstate, queue, prsem)'
  BY DEF IInv, Agree
<1>3. TableFull' = TableFull
  BY DEF TableFull, FreePidAt
<1>4. FrameInv'
  BY <1>3 DEF IInv, FrameInv
<1> QED
  BY <1>1, <1>2, <1>4 DEF IInv

\* Every step keeps the invariant.
LEMMA NextIInv ==
  ASSUME IInv, [Next]_vars
  PROVE  IInv'
<1>1. CASE SemaphoreCall
  BY <1>1, semcreateStep, waitStep, signalStep, signalnStep, semresetStep,
     semdeleteStep DEF SemaphoreCall
<1>2. CASE MessageCall
  BY <1>2, sendStep, receiveStep, recvtimeStep, TakingSteps DEF MessageCall
<1>3. CASE TimeCall
  BY <1>3, yieldStep, sleepmsStep DEF TimeCall
<1>4. CASE ProcessCall
  BY <1>4, createStep, createFullStep, createRefusedStep, resumeStep, suspendStep,
     chprioStep, killStep
     DEF ProcessCall
<1>5. CASE Continue
  BY <1>5, signalnLoopStep, semresetLoopStep, semdeleteLoopStep, TakingSteps,
     wakeupStep, clkhandlerResumedStep, killResumedStep, bootStep DEF Continue
<1>6. CASE Tick
  BY <1>6, clkhandlerStep DEF Tick
<1>7. CASE UNCHANGED vars
  BY <1>7, Stuttering
<1> QED
  BY <1>1, <1>2, <1>3, <1>4, <1>5, <1>6, <1>7 DEF Next, Halted

\* The invariant holds in every state the kernel reaches.
THEOREM Invariance == Spec => []IInv
  BY InitIInv, NextIInv, PTL DEF Spec

\* Every process is on exactly the list its state tells, and once, whatever the
\* programs do: kill of a process that is in the middle of a call, a timeout
\* that meets a message and a signal inside a deferred loop included.
THEOREM QueuesAgree == Spec => []QueueInv
<1>1. IInv => QueueInv
  BY DEF IInv, Agree, Lists, Distinct, Has, StateOn, QueueInv, OnList
<1> QED
  BY <1>1, Invariance, PTL

\* resched always leaves exactly one current process, the null process is never
\* blocked, and so resched always finds a process to run.
THEOREM OneCurrent == Spec => []CurrInv
<1>1. IInv => CurrInv
  BY DEF IInv
<1> QED
  BY <1>1, Invariance, PTL

\* The count of a semaphore tells how many processes wait, also while several
\* are being released and when one that waits is killed.
THEOREM CountsAgree == Spec => []SemInv
<1>1. IInv => SemInv
  BY DEF IInv
<1> QED
  BY <1>1, Invariance, PTL

\* Rescheduling is deferred exactly while the current process is in one of the
\* loops that defer it.
THEOREM DeferralEnds == Spec => []DeferInv
<1>1. IInv => DeferInv
  BY DEF IInv, FrameInv, DeferInv
<1> QED
  BY <1>1, Invariance, PTL

----------------------------------------------------------------------------
\* The ready list and the process that runs.

\* No program changes a priority: chprio leaves a ready process where it is.
FixedPrios == \A P \in Programs : \A p \in Pids : "chprio" \notin P[p]

\* The ready list of qs is in order of the keys ks, and these are the
\* priorities pr.
ReadyList(qs, ks, pr) ==
    /\ ks \in [Pids -> Int]
    /\ Ordered(qs[readylist], ks)
    /\ FixedPrios => \A p \in Pids : Has(qs[readylist], p) => ks[p] = pr[p]

\* No ready process is above process cur.
Top(st, pr, cur) ==
    FixedPrios => \A p \in Pids : st[p] = "READY" => pr[p] <= pr[cur]

\* The sleep queue is the one of qs, and so are its keys in ks.
SleepKept(qs, ks) ==
    /\ queue'[sleepq] = qs[sleepq]
    /\ \A p \in Pids : Has(qs[sleepq], p) => qkey'[p] = ks[p]

\* A switch keeps the ready list in order and runs the first process of it.
LEMMA SwitchOrders ==
  ASSUME NEW st, NEW qs, NEW ks, NEW sm, NEW pr \in [Pids -> Nat],
         currpid \in Pids, prprio[currpid] = pr[currpid],
         Schedulable(st, qs, sm), Switch(st, qs, ks), ReadyList(qs, ks, pr)
  PROVE  /\ ReadyList(queue', qkey', pr) /\ Top(prstate', pr, currpid')
         /\ SleepKept(qs, ks)
<1> USE Identifiers
<1> DEFINE stay == st[currpid] = "CURR"
           prio == prprio[currpid]
           qs1 == IF stay THEN insert(qs, ks, currpid, readylist, prio) ELSE qs
           ks1 == IF stay THEN insertKey(ks, currpid, prio) ELSE ks
           s == qs1[readylist]
<1>1. currpid' = Head(s) /\ queue' = dequeue(qs1, readylist) /\ qkey' = ks1
  BY Zenon DEF Switch
<1>2. Scheduled(st, qs, sm)
  BY SwitchSchedules
<1>3. /\ qs \in [Qids -> Seq(Pids)] /\ qs[readylist] \in Seq(Pids)
      /\ \A p \in Pids : Has(qs[readylist], p) <=> st[p] = "READY"
      /\ st[NULLPROC] \in Running
      /\ \A p \in Pids : st[p] = "CURR" => p = currpid
  BY DEF Schedulable, Agree, Lists, StateOn
<1>4. /\ s \in Seq(Pids) /\ s # << >> /\ qs1 \in [Qids -> Seq(Pids)]
      /\ ReadyList(qs1, ks1, pr)
      /\ qs1[sleepq] = qs[sleepq]
      /\ \A p \in Pids : Has(qs[sleepq], p) => ks1[p] = ks[p]
  <2>1. CASE stay
    <3> DEFINE t == InsertAt(qs[readylist], InsertPos(qs[readylist], ks, prio), currpid)
    <3>1. qs1 = [qs EXCEPT ![readylist] = t] /\ ks1 = [ks EXCEPT ![currpid] = prio]
      BY <2>1 DEF insert, insertKey
    <3>2. ~Has(qs[readylist], currpid)
      BY <1>3, <2>1
    <3>3. prio \in Int /\ ks \in [Pids -> Int] /\ Ordered(qs[readylist], ks)
      BY DEF ReadyList
    <3>4. Ordered(t, [ks EXCEPT ![currpid] = prio])
      <4> DEFINE r == qs[readylist]
      <4>1. r \in Seq(Pids) /\ ~Has(r, currpid) /\ Ordered(r, ks)
        BY <1>3, <3>2, <3>3
      <4> HIDE DEF r, prio
      <4>2. Ordered(InsertAt(r, InsertPos(r, ks, prio), currpid),
                    [ks EXCEPT ![currpid] = prio])
        BY <3>3, <4>1, InsertOrdered
      <4> QED
        BY <4>2 DEF r
    <3>5. /\ t \in Seq(Pids) /\ t # << >>
          /\ \A p : Has(t, p) <=> Has(qs[readylist], p) \/ p = currpid
      <4> DEFINE r == qs[readylist]
                 i == InsertPos(r, ks, prio)
      <4>1. r \in Seq(Pids) /\ i \in 1..(Len(r) + 1)
        <5>1. r \in Seq(Pids)
          BY <1>3
        <5> HIDE DEF r
        <5> QED
          BY <5>1, PositionInList
      <4> HIDE DEF r, i
      <4>2. /\ InsertAt(r, i, currpid) \in Seq(Pids)
            /\ InsertAt(r, i, currpid) # << >>
            /\ \A p : Has(InsertAt(r, i, currpid), p) <=> Has(r, p) \/ p = currpid
        BY <4>1, InsertMembers
      <4> QED
        BY <4>2 DEF r, i
    <3> HIDE DEF t
    <3>6. s = t /\ qs1 \in [Qids -> Seq(Pids)] /\ qs1[sleepq] = qs[sleepq]
      BY <1>3, <3>1, <3>5, ZenonT(60)
    <3>7. /\ ks1 \in [Pids -> Int] /\ ks1[currpid] = pr[currpid]
          /\ \A p \in Pids \ {currpid} : ks1[p] = ks[p]
      BY <3>1, <3>3
    <3>8. ~Has(qs[sleepq], currpid)
      BY <2>1 DEF Schedulable, Agree, StateOn
    <3> HIDE DEF qs1, ks1, prio
    <3> QED
      BY <3>1, <3>4, <3>5, <3>6, <3>7, <3>8 DEF ReadyList
  <2>2. CASE ~stay
    <3>1. qs1 = qs /\ ks1 = ks
      BY <2>2
    <3>2. Has(qs[readylist], NULLPROC)
      BY <1>3, <2>2 DEF Running
    <3>3. Len(qs[readylist]) # 0
      BY <3>2 DEF Has
    <3>4. qs[readylist] # << >>
      BY <3>3
    <3> QED
      BY <1>3, <3>1, <3>4
  <2> QED
    BY <2>1, <2>2
<1> HIDE DEF qs1, ks1
<1>5. queue'[readylist] = Tail(s)
  BY <1>1, <1>4 DEF dequeue
<1> HIDE DEF s
<1>6. /\ Ordered(Tail(s), ks1)
      /\ \A p : Has(Tail(s), p) => ks1[Head(s)] >= ks1[p]
      /\ Has(s, Head(s)) /\ Head(s) \in Pids
      /\ \A p : Has(Tail(s), p) => Has(s, p)
  <2>1. ks1 \in [Pids -> Int] /\ Ordered(s, ks1)
    BY <1>4 DEF ReadyList, s
  <2>2. Has(s, Head(s)) /\ Head(s) \in Pids
    <3>1. Head(s) = s[1] /\ 1 \in 1..Len(s)
      BY <1>4, HeadTailProperties, EmptySeq
    <3> QED
      BY <1>4, <3>1, ElementOfSeq DEF Has
  <2>3. \A p : Has(Tail(s), p) => Has(s, p)
    <3>1. /\ Len(Tail(s)) = Len(s) - 1 /\ Len(s) \in Nat
          /\ \A i \in 1..(Len(s) - 1) : Tail(s)[i] = s[i + 1]
      BY <1>4, HeadTailProperties, LenProperties
    <3>2. \A i \in 1..(Len(s) - 1) : i + 1 \in 1..Len(s)
      BY <3>1
    <3> QED
      BY <3>1, <3>2 DEF Has
  <2> QED
    BY <1>4, <2>1, <2>2, <2>3, TailOrdered
<1>7. ReadyList(queue', qkey', pr)
  BY <1>1, <1>4, <1>5, <1>6 DEF ReadyList, s
<1>8. ASSUME FixedPrios, NEW p \in Pids, prstate'[p] = "READY"
      PROVE  pr[p] <= pr[currpid']
  <2>1. Has(queue'[readylist], p)
    BY <1>2, <1>8 DEF Scheduled, Agree, StateOn
  <2>2. ks1[Head(s)] >= ks1[p] /\ ks1[p] = pr[p] /\ ks1[Head(s)] = pr[Head(s)]
    BY <1>4, <1>5, <1>6, <1>8, <2>1 DEF ReadyList, s
  <2> QED
    BY <1>1, <1>6, <2>2
<1>9. SleepKept(qs, ks)
  BY <1>1, <1>4 DEF SleepKept, dequeue
<1> QED
  BY <1>7, <1>8, <1>9 DEF Top

\* The same for resched, which leaves the slice as it was or a fresh one.
LEMMA ReschedOrders ==
  ASSUME NEW st, NEW qs, NEW ks, NEW sm, NEW slice, NEW pr \in [Pids -> Nat],
         currpid \in Pids, prprio[currpid] = pr[currpid],
         Schedulable(st, qs, sm), ReschedSlice(st, qs, ks, slice),
         ReadyList(qs, ks, pr)
  PROVE  /\ ReadyList(queue', qkey', pr) /\ Top(prstate', pr, currpid')
         /\ preempt' \in {slice, QUANTUM}
         /\ SleepKept(qs, ks)
<1>1. CASE Switch(st, qs, ks)
  <2>1. preempt' = QUANTUM
    BY <1>1, Zenon DEF Switch
  <2> QED
    BY <1>1, <2>1, SwitchOrders
<1>2. CASE /\ KeepsCpu(st, qs, ks)
           /\ prstate' = st /\ queue' = qs /\ qkey' = ks /\ preempt' = slice
           /\ UNCHANGED currpid
  <2>1. ASSUME FixedPrios, NEW p \in Pids, st[p] = "READY"
        PROVE  pr[p] <= pr[currpid]
    <3> DEFINE s == qs[readylist]
    <3>1. Has(s, p) /\ s \in Seq(Pids)
      BY <2>1, Identifiers DEF Schedulable, Agree, StateOn, Lists
    <3>2. PICK i \in 1..Len(s) : s[i] = p
      BY <3>1 DEF Has
    <3>3. s # << >> /\ Head(s) = s[1] /\ 1 \in 1..Len(s) /\ Len(s) \in Nat
      <4>1. Len(s) \in Nat /\ Len(s) # 0
        BY <3>1, <3>2, LenProperties
      <4>2. s # << >>
        BY <4>1
      <4> QED
        BY <3>1, <4>1, <4>2, HeadTailProperties
    <3>4. pr[currpid] > ks[s[1]]
      BY <1>2, <3>3 DEF KeepsCpu, firstkey
    <3>5. ks[s[1]] >= ks[p]
      <4>1. CASE i = 1
        BY <3>2, <4>1, <3>1 DEF ReadyList
      <4>2. CASE i # 1
        BY <3>2, <3>3, <4>2 DEF ReadyList, Ordered
      <4> QED
        BY <4>1, <4>2
    <3>6. ks[p] = pr[p] /\ ks[s[1]] \in Int /\ pr[currpid] \in Nat /\ pr[p] \in Nat
      BY <2>1, <3>1, <3>3, ElementOfSeq DEF ReadyList
    <3> QED
      BY <3>4, <3>5, <3>6
  <2> QED
    BY <1>2, <2>1 DEF Top, SleepKept
<1> QED
  BY <1>1, <1>2 DEF ReschedSlice

\* A process that joins a ready list is put in its place.
LEMMA InsertedReadyList ==
  ASSUME NEW pid \in Pids, NEW qs \in [Qids -> Seq(Pids)], NEW ks, NEW pr0,
         NEW pr \in [Pids -> Nat], ReadyList(qs, ks, pr0), ~Has(qs[readylist], pid),
         \A p \in Pids \ {pid} : pr[p] = pr0[p],
         \A p : Has(insert(qs, ks, pid, readylist, pr[pid])[readylist], p)
                   <=> Has(qs[readylist], p) \/ p = pid
  PROVE  ReadyList(insert(qs, ks, pid, readylist, pr[pid]), insertKey(ks, pid, pr[pid]), pr)
<1> USE Identifiers
<1> DEFINE s == qs[readylist]
           prio == pr[pid]
           t == InsertAt(s, InsertPos(s, ks, prio), pid)
           qs1 == insert(qs, ks, pid, readylist, prio)
           ks1 == insertKey(ks, pid, prio)
<1>1. s \in Seq(Pids) /\ ~Has(s, pid) /\ prio \in Int /\ ks \in [Pids -> Int] /\ Ordered(s, ks)
  BY DEF ReadyList
<1>2. qs1[readylist] = t /\ ks1 = [ks EXCEPT ![pid] = prio]
  BY <1>1 DEF insert, insertKey
<1>3. Ordered(t, ks1)
  <2> HIDE DEF s, prio
  <2>1. Ordered(InsertAt(s, InsertPos(s, ks, prio), pid), [ks EXCEPT ![pid] = prio])
    BY <1>1, InsertOrdered
  <2> QED
    BY <1>2, <2>1
<1>4. /\ ks1 \in [Pids -> Int] /\ ks1[pid] = prio
      /\ \A p \in Pids \ {pid} : ks1[p] = ks[p]
  BY <1>1, <1>2
<1>5. \A p : Has(qs1[readylist], p) <=> Has(s, p) \/ p = pid
  OBVIOUS
<1> HIDE DEF qs1, ks1, t
<1>6. ReadyList(qs1, ks1, pr)
  BY <1>2, <1>3, <1>4, <1>5 DEF ReadyList
<1> QED
  BY <1>6 DEF qs1, ks1

\* The same for ready.  While rescheduling is deferred the attempt is recorded.
LEMMA ReadyOrders ==
  ASSUME NEW pid, NEW st, NEW qs, NEW ks, NEW sm, prprio \in [Pids -> Nat],
         currpid \in Pids, ndefers \in Nat,
         Readyable(pid, st, qs, sm), Ready(pid, st, qs, ks), ReadyList(qs, ks, prprio)
  PROVE  /\ ReadyList(queue', qkey', prprio)
         /\ Top(prstate', prprio, currpid') \/ (ndefers > 0 /\ attempt')
         /\ preempt' \in {preempt, QUANTUM}
         /\ attempt' \in {attempt, TRUE}
         /\ SleepKept(qs, ks)
<1> USE Identifiers
<1> DEFINE st1 == [st EXCEPT ![pid] = "READY"]
           qs1 == insert(qs, ks, pid, readylist, prprio[pid])
           ks1 == insertKey(ks, pid, prprio[pid])
<1>1. Linked(qs1, qs, Qids, Pids, readylist, pid)
  BY insertLists DEF Readyable
<1>2. /\ st1 \in [Pids -> PrStates] /\ st1[pid] = "READY"
      /\ \A p \in Pids \ {pid} : st1[p] = st[p]
  BY DEF Readyable, PrStates
<1>3. ReadyList(qs1, ks1, prprio)
  <2>1. /\ qs \in [Qids -> Seq(Pids)] /\ ~Has(qs[readylist], pid) /\ pid \in Pids
        /\ \A p : Has(qs1[readylist], p) <=> Has(qs[readylist], p) \/ p = pid
    BY <1>1 DEF Readyable, Lists, Linked
  <2> QED
    BY <2>1, InsertedReadyList
<1>4. IF ndefers > 0 THEN Deferred(st1, qs1, ks1)
      ELSE Resched(st1, qs1, ks1) /\ UNCHANGED deferVars
  BY Zenon DEF Ready
<1> HIDE DEF st1, qs1, ks1
<1>5. Schedulable(st1, qs1, sm)
  <2>1. Agree(st1, qs1, sm)
    <3>1. ASSUME NEW q \in Qids, NEW p \in Pids
          PROVE  Has(qs1[q], p) <=> StateOn(st1[p], sm[p], q)
      <4>1. CASE p = pid
        BY <1>1, <1>2, <4>1 DEF Readyable, StateOn, Linked
      <4>2. CASE p # pid
        <5>1. Has(qs1[q], p) <=> Has(qs[q], p)
          BY <1>1, <4>2 DEF Linked
        <5> QED
          BY <5>1, <1>2, <4>2 DEF Readyable
      <4> QED
        BY <4>1, <4>2
    <3> QED
      BY <1>1, <3>1 DEF Agree, Linked
  <2>2. \A p \in Pids : st1[p] = "CURR" <=> p = currpid
    BY <1>2 DEF Readyable
  <2> QED
    BY <1>2, <2>1, <2>2 DEF Readyable, Schedulable, Running
<1>8. /\ qs1[sleepq] = qs[sleepq]
      /\ \A p \in Pids : Has(qs[sleepq], p) => ks1[p] = ks[p]
  <2>1. qs1[sleepq] = qs[sleepq]
    BY <1>1 DEF Linked
  <2>2. ~Has(qs[sleepq], pid) /\ \A p \in Pids \ {pid} : ks1[p] = ks[p]
    BY DEF Readyable, ReadyList, ks1, insertKey
  <2> QED
    BY <2>1, <2>2
<1>6. CASE ndefers > 0
  BY <1>3, <1>4, <1>6, <1>8 DEF Deferred, SleepKept
<1>7. CASE ~(ndefers > 0)
  <2>1. /\ ReadyList(queue', qkey', prprio) /\ Top(prstate', prprio, currpid')
        /\ preempt' \in {preempt, QUANTUM} /\ SleepKept(qs1, ks1)
        /\ attempt' = attempt
    BY <1>3, <1>4, <1>5, <1>7, ReschedOrders DEF Resched, deferVars
  <2> QED
    BY <2>1, <1>8 DEF SleepKept
<1> QED
  BY <1>6, <1>7

----------------------------------------------------------------------------
\* Types that IInv leaves out.
MsgTypes == prmsg \in [Pids -> Int] /\ prhasmsg \in [Pids -> BOOLEAN]

LifeTypes ==
    /\ prprio \in [Pids -> Nat]
    /\ prcount \in Nat
    /\ ~halted => prcount >= 1
    /\ prstkbase \in [Pids -> Stacks \cup {0}]
    /\ stkfree \subseteq Stacks
    /\ halted \in BOOLEAN

RestTypes == MsgTypes /\ LifeTypes

SliceTypes == preempt \in 1..QUANTUM /\ attempt \in BOOLEAN

\* No ready process is above the running one, unless that one is in a loop that
\* has still to do the resched it was asked for.
TopInv == Top(prstate, prprio, currpid) \/ (ndefers > 0 /\ attempt)

\* Until nulluser ends, nothing has been taken.
BootInv ==
    /\ program \in Programs
    /\ frame[currpid].at = "boot" =>
        /\ stkfree = Stacks
        /\ \A p \in Pids \ {NULLPROC} : frame[p] = UserFrame /\ prstate[p] = "FREE"

\* The order of the processes.
OrderInv ==
    /\ RestTypes
    /\ SliceTypes
    /\ ReadyList(queue, qkey, prprio)
    /\ TopInv

\* What a call leaves behind when it reschedules from the states st, the lists
\* qs and the keys ks, or leaves these and does not reschedule.
After(st, qs, ks) ==
    /\ Scheduled(st, qs, prsem')
    /\ ReadyList(queue', qkey', prprio')
    /\ Top(prstate', prprio', currpid') \/ (ndefers' > 0 /\ attempt')
    /\ SleepKept(qs, ks)
    /\ SliceTypes'

\* Without deferral the running process is the highest one.
LEMMA TopWithoutDeferral ==
  ASSUME OrderInv, ndefers = 0
  PROVE  Top(prstate, prprio, currpid)
  BY DEF OrderInv, TopInv

\* The ready list of other lists and keys, when neither has changed there.
LEMMA SameReadyList ==
  ASSUME NEW qs, NEW ks \in [Pids -> Int], NEW qs0, NEW ks0, NEW pr,
         ReadyList(qs0, ks0, pr), qs[readylist] = qs0[readylist],
         \A p \in Pids : Has(qs[readylist], p) => ks[p] = ks0[p],
         qs[readylist] \in Seq(Pids)
  PROVE  ReadyList(qs, ks, pr)
<1> DEFINE s == qs[readylist]
<1>1. Ordered(s, ks0) /\ s \in Seq(Pids)
  BY DEF ReadyList
<1>2. \A p : Has(s, p) => p \in Pids
  BY <1>1, ElementOfSeq DEF Has
<1>3. Ordered(s, ks)
  BY <1>1, <1>2, OrderedKeys
<1> QED
  BY <1>3 DEF ReadyList

\* A call that does not touch the scheduler.
LEMMA StayAfter ==
  ASSUME IInv, OrderInv, UNCHANGED <<prstate, queue, currpid, prsem, prprio>>,
         UNCHANGED deferVars \/ ndefers = 0, SliceTypes',
         qkey' \in [Pids -> Int],
         \A p \in Pids : Has(queue[readylist], p) => qkey'[p] = qkey[p]
  PROVE  After(prstate, queue, qkey')
<1>1. Scheduled(prstate, queue, prsem')
  BY NotRescheduled
<1>2. ReadyList(queue', qkey', prprio')
  <2>1. queue[readylist] \in Seq(Pids)
    BY Identifiers DEF IInv, Agree, Lists
  <2> QED
    BY <2>1, SameReadyList DEF OrderInv
<1>3. Top(prstate', prprio', currpid') \/ (ndefers' > 0 /\ attempt')
  BY TopWithoutDeferral DEF OrderInv, TopInv, deferVars
<1>4. SleepKept(queue, qkey')
  BY DEF SleepKept
<1> QED
  BY <1>1, <1>2, <1>3, <1>4 DEF After

\* A call that reschedules.
LEMMA ReschedAfter ==
  ASSUME IInv, OrderInv, NEW st, NEW qs, NEW ks, NEW slice \in 1..QUANTUM,
         Schedulable(st, qs, prsem'), ReadyList(qs, ks, prprio'),
         prprio' \in [Pids -> Nat], prprio'[currpid] = prprio[currpid],
         ReschedSlice(st, qs, ks, slice), attempt' = attempt
  PROVE  After(st, qs, ks)
<1>1. currpid \in Pids
  BY CurrentSchedulable
<1>2. Scheduled(st, qs, prsem')
  BY <1>1, ReschedSchedules
<1>3. /\ ReadyList(queue', qkey', prprio') /\ Top(prstate', prprio', currpid')
      /\ preempt' \in {slice, QUANTUM} /\ SleepKept(qs, ks)
  BY <1>1, ReschedOrders
<1>4. SliceTypes'
  BY <1>3, ProcTabAssumption DEF SliceTypes, OrderInv
<1> QED
  BY <1>2, <1>3, <1>4 DEF After

\* A call that makes a process ready.
LEMMA ReadyAfter ==
  ASSUME IInv, OrderInv, NEW pid, NEW st, NEW qs, NEW ks,
         Readyable(pid, st, qs, prsem), Ready(pid, st, qs, ks),
         ReadyList(qs, ks, prprio), UNCHANGED <<prsem, prprio>>
  PROVE  After([st EXCEPT ![pid] = "READY"], qs, ks)
<1>1. currpid \in Pids /\ ndefers \in Nat /\ prprio \in [Pids -> Nat]
  BY CurrentSchedulable DEF IInv, FrameInv, OrderInv, RestTypes, LifeTypes
<1>2. Scheduled([st EXCEPT ![pid] = "READY"], qs, prsem) /\ ndefers' = ndefers
  BY <1>1, ReadySchedules
<1>3. /\ ReadyList(queue', qkey', prprio)
      /\ Top(prstate', prprio, currpid') \/ (ndefers > 0 /\ attempt')
      /\ preempt' \in {preempt, QUANTUM} /\ attempt' \in {attempt, TRUE}
      /\ SleepKept(qs, ks)
  BY <1>1, ReadyOrders
<1>4. SliceTypes'
  <2>1. preempt' \in 1..QUANTUM
    BY <1>3, ProcTabAssumption DEF SliceTypes, OrderInv
  <2>2. attempt' \in BOOLEAN
    BY <1>3, Zenon DEF SliceTypes, OrderInv
  <2> QED
    BY <2>1, <2>2 DEF SliceTypes
<1> QED
  BY <1>2, <1>3, <1>4 DEF After

\* The end of a loop: the deferred resched is done, or was not asked for.
LEMMA DeferStopAfter ==
  ASSUME IInv, OrderInv, frame[currpid].at \in Loops, DeferStop,
         UNCHANGED <<prsem, prprio>>
  PROVE  After(prstate, queue, qkey)
<1>1. ndefers = 1 /\ ndefers' = 0 /\ attempt' = attempt
  BY DEF IInv, FrameInv, DeferStop
<1>2. CASE attempt
  <2>1. ReschedSlice(prstate, queue, qkey, preempt)
    BY <1>1, <1>2 DEF DeferStop, Resched
  <2>2. /\ Schedulable(prstate, queue, prsem') /\ ReadyList(queue, qkey, prprio')
        /\ prprio' \in [Pids -> Nat] /\ preempt \in 1..QUANTUM
    BY CurrentSchedulable DEF OrderInv, RestTypes, LifeTypes, SliceTypes
  <2> QED
    BY <1>1, <2>1, <2>2, ReschedAfter
<1>3. CASE ~attempt
  <2>1. UNCHANGED schedVars
    BY <1>1, <1>3 DEF DeferStop
  <2>2. Scheduled(prstate, queue, prsem')
    BY <2>1, NotRescheduled DEF schedVars
  <2> QED
    BY <1>1, <1>3, <2>1, <2>2
       DEF After, schedVars, OrderInv, TopInv, SleepKept, SliceTypes
<1> QED
  BY <1>2, <1>3

----------------------------------------------------------------------------
\* What one step does to a process: the kinds of step there are.
MsgSame(p) == prhasmsg'[p] = prhasmsg[p] /\ prmsg'[p] = prmsg[p]
FrameFit(p) == frame'[p].at \in {"receive", "boot"} => frame'[p].at = frame[p].at
Carries(p) == prstate'[p] = prstate[p] \/ {prstate'[p], prstate[p]} \subseteq Running

CarriesOn(p) == Carries(p) /\ MsgSame(p) /\ FrameFit(p)

Takes(p) == p = currpid /\ Carries(p) /\ ~prhasmsg'[p] /\ frame'[p].at = "user"

Gets(p) ==
    /\ prstate[p] # "FREE" /\ ~prhasmsg[p] /\ prhasmsg'[p] /\ FrameFit(p)
    /\ IF prstate[p] \in {"RECV", "RECTIM"} THEN prstate'[p] \in Running ELSE Carries(p)

Released(p) ==
    /\ prstate[p] \in {"SUSP", "WAIT", "SLEEP", "RECTIM"} /\ prstate'[p] \in Running
    /\ prstate[p] \in {"SLEEP", "RECTIM"} => Due(qkey) /\ p = Head(queue[sleepq])
    /\ MsgSame(p) /\ FrameFit(p)

Blocks(p) ==
    /\ prstate[p] \in Running /\ prstate'[p] \in {"WAIT", "SLEEP"}
    /\ MsgSame(p) /\ frame[p].at = "user" /\ frame'[p] = frame[p]

Awaits(p) ==
    /\ prstate[p] \in Running /\ MsgSame(p) /\ ~prhasmsg[p]
    /\ \/ prstate'[p] = "RECV" /\ frame'[p].at = "receive"
       \/ prstate'[p] = "RECTIM" /\ frame'[p].at = "recvtime"

Stopped(p) ==
    /\ prstate[p] \in Running /\ prstate'[p] = "SUSP" /\ MsgSame(p) /\ FrameFit(p)

Dies(p) == prstate'[p] = "FREE" /\ MsgSame(p) /\ FrameFit(p)

Admitted(p) ==
    /\ prstate[p] = "FREE" /\ prstate'[p] \in Running \cup {"SUSP"}
    /\ ~prhasmsg'[p] /\ frame'[p].at = "user"

PStep(p) ==
    \/ CarriesOn(p) \/ Takes(p) \/ Gets(p) \/ Released(p)
    \/ Blocks(p) \/ Awaits(p) \/ Stopped(p) \/ Dies(p) \/ Admitted(p)

\* What it does to the queue of semaphore s.
QMove(s, t) ==
    \/ t = queue[s]
    \/ ~Has(queue[s], currpid) /\ t = Append(queue[s], currpid)
    \/ queue[s] # << >> /\ t = Tail(queue[s])
    \/ \E i \in 1..Len(queue[s]) :
          t = RemoveAt(queue[s], i) /\ prstate'[queue[s][i]] = "FREE"

\* What it does to the sleep queue and the keys there.
SleepMove(t, kt) ==
    LET s == queue[sleepq] IN
    \/ /\ t = s
       /\ \A p \in Pids : Has(s, p) => kt[p] = qkey[p]
    \/ /\ t = s /\ clkhandler
       /\ \A p \in Pids : Has(s, p) => kt[p] = Ticked[p]
    \/ \E key \in Nat :
          /\ ~Has(s, currpid) /\ frame[currpid].at = "user"
          /\ t = InsertAt(s, InsertdPos(s, qkey, key), currpid)
          /\ \A p \in Pids : Has(t, p) =>
                kt[p] = insertdKey(queue, qkey, currpid, sleepq, key)[p]
    \/ \E i \in 1..Len(s) :
          /\ t = RemoveAt(s, i) /\ frame[currpid].at # "wakeup"
          /\ \A p \in Pids : Has(t, p) =>
                kt[p] = unsleepKey(queue, qkey, s[i], sleepq)[p]
    \/ /\ Due(qkey) /\ frame[currpid].at = "wakeup"
       /\ t = Tail(s)
       /\ \A p \in Pids : Has(t, p) => kt[p] = qkey[p]

\* All of it.
KStep ==
    /\ OrderInv'
    /\ \A p \in Pids : PStep(p)
    /\ \A s \in Sems : QMove(s, queue'[s])
    /\ SleepMove(queue'[sleepq], qkey')

\* A step in which no process is born, begins to kill or dies.
Calm ==
    /\ UNCHANGED lifeVars
    /\ \A p \in Pids : prstate'[p] = "FREE" <=> prstate[p] = "FREE"
    /\ \A p \in Pids : frame'[p].at = "kill" \/ frame[p].at = "kill"
                          => frame'[p] = frame[p]

\* A step in which no process but p is born or dies.
OnlyLife(p) == \A r \in Pids \ {p} : prstate'[r] = "FREE" <=> prstate[r] = "FREE"

\* A stack is lost.
StackLost ==
    /\ stkfree' \subseteq stkfree /\ UNCHANGED <<prcount, prstkbase, frame, prstate>>

\* Process pid is born with stack stk, which was free.
Born(pid, stk) ==
    /\ pid # NULLPROC /\ prstate[pid] = "FREE" /\ prstate'[pid] # "FREE" /\ OnlyLife(pid)
    /\ stk \in stkfree /\ stkfree' = stkfree \ {stk}
    /\ prstkbase' = [prstkbase EXCEPT ![pid] = stk]
    /\ prcount' = prcount + 1
    /\ frame'[pid] = UserFrame
    /\ \A p \in Pids \ {pid} : frame'[p].at = "kill" \/ frame[p].at = "kill"
                                 => frame'[p] = frame[p]

\* The current process begins to kill process pid.
Attacks(pid) ==
    /\ pid # NULLPROC /\ prstate[pid] # "FREE"
    /\ \A p \in Pids : prstate'[p] = "FREE" <=> prstate[p] = "FREE"
    /\ prcount' = prcount - 1
    /\ UNCHANGED stkVars
    /\ frame[currpid].at = "user"
    /\ frame' = [frame EXCEPT ![currpid] = Frame("kill", 0, 0, pid)]

\* Process pid, which the current process was killing, is gone.
Gone(pid) ==
    /\ frame[currpid].at = "kill" /\ frame[currpid].pid = pid
    /\ prstate'[pid] = "FREE" /\ OnlyLife(pid)
    /\ stkfree' = stkfree \cup {prstkbase[pid]}
    /\ UNCHANGED <<prcount, prstkbase>>
    /\ frame' = [frame EXCEPT ![currpid] = UserFrame]

\* What a step does to the life of processes.
LifeStep ==
    \/ Calm
    \/ StackLost
    \/ \E pid \in Pids, stk \in Stacks : Born(pid, stk)
    \/ \E pid \in Pids : Attacks(pid)
    \/ \E pid \in Pids : Gone(pid)

\* The step as a whole, from what the call leaves to resched.
LEMMA StepFrom ==
  ASSUME NEW st, NEW qs, NEW ks, After(st, qs, ks), RestTypes',
         \A p \in Pids : PStep(p), \A s \in Sems : QMove(s, qs[s]),
         SleepMove(qs[sleepq], ks)
  PROVE  KStep
<1>1. OrderInv'
  BY DEF After, OrderInv, TopInv
<1>2. \A s \in Sems : QMove(s, queue'[s])
  BY DEF After, Scheduled
<1>3. SleepMove(queue'[sleepq], qkey')
  BY DEF SleepMove, After, SleepKept
<1> QED
  BY <1>1, <1>2, <1>3 DEF KStep

\* One process changes its state before the resched: the others carry on.
LEMMA OthersCarryOn ==
  ASSUME IInv, NEW pid \in Pids, NEW x, NEW qs, NEW sm,
         Scheduled([prstate EXCEPT ![pid] = x], qs, sm)
  PROVE  /\ \A p \in Pids \ {pid} : Carries(p)
         /\ prstate'[pid] = x \/ {prstate'[pid], x} \subseteq Running
         /\ \A p \in Pids \ {pid} : prstate'[p] = "FREE" <=> prstate[p] = "FREE"
<1> DEFINE st == [prstate EXCEPT ![pid] = x]
<1>1. st[pid] = x /\ \A p \in Pids \ {pid} : st[p] = prstate[p]
  BY DEF IInv, StateTypes
<1> QED
  BY <1>1 DEF Scheduled, Carries, Running

\* No process changes its state.
LEMMA AllCarryOn ==
  ASSUME NEW qs, NEW sm, Scheduled(prstate, qs, sm)
  PROVE  /\ \A p \in Pids : Carries(p)
         /\ \A p \in Pids : prstate'[p] = "FREE" <=> prstate[p] = "FREE"
  BY DEF Scheduled, Carries, Running

\* A step that moves nothing.
LEMMA StayMoves ==
    /\ \A s \in Sems : QMove(s, queue[s])
    /\ SleepMove(queue[sleepq], qkey)
  BY DEF QMove, SleepMove

\* Frames that are left alone, and a new frame for the current process.
LEMMA FramesFit ==
  ASSUME IInv
  PROVE  /\ frame' = frame => \A p \in Pids : FrameFit(p)
         /\ \A f : frame' = [frame EXCEPT ![currpid] = f] =>
               /\ frame'[currpid] = f
               /\ \A p \in Pids \ {currpid} : frame'[p] = frame[p] /\ FrameFit(p)
               /\ f.at \notin {"receive", "boot"} => FrameFit(currpid)
<1>1. ASSUME NEW f, frame' = [frame EXCEPT ![currpid] = f]
      PROVE  frame'[currpid] = f /\ \A p \in Pids \ {currpid} : frame'[p] = frame[p]
  BY <1>1, CurrentSchedulable DEF IInv, StateTypes
<1> QED
  BY <1>1 DEF FrameFit

\* A step that leaves the scheduler alone.
LEMMA StayMovesOn ==
  ASSUME IInv, OrderInv, UNCHANGED <<prstate, queue, qkey, currpid, prsem, prprio>>,
         UNCHANGED deferVars \/ ndefers = 0, SliceTypes', RestTypes',
         \A p \in Pids : Carries(p) => PStep(p)
  PROVE  KStep
<1>1. After(prstate, queue, qkey)
  <2>1. qkey' \in [Pids -> Int]
    BY DEF OrderInv, ReadyList
  <2>2. After(prstate, queue, qkey')
    BY <2>1, StayAfter
  <2> QED
    BY <2>2
<1>2. \A p \in Pids : Carries(p)
  BY DEF Carries
<1> QED
  BY <1>1, <1>2, StepFrom, StayMoves

\* The first process of a semaphore's queue or of the sleep queue is released.
LEMMA ReleaseMoves ==
  ASSUME IInv, OrderInv, NEW q \in Sems \cup {sleepq}, queue[q] # << >>,
         Ready(Head(queue[q]), prstate, dequeue(queue, q), qkey),
         q = sleepq => Due(qkey) /\ frame[currpid].at = "wakeup",
         UNCHANGED <<msgVars, procVars, prsem, lifeVars>>,
         \A p \in Pids : FrameFit(p)
  PROVE  /\ KStep
         /\ \A p \in Pids : prstate'[p] = "FREE" <=> prstate[p] = "FREE"
<1> USE Identifiers
<1> DEFINE pid == Head(queue[q])
           qs == dequeue(queue, q)
           st == [prstate EXCEPT ![pid] = "READY"]
<1>1. /\ pid \in Pids /\ Has(queue[q], pid)
      /\ Unlinked(qs, queue, Qids, Pids, q, pid)
      /\ Readyable(pid, prstate, qs, prsem)
  BY FirstReadyable
<1>2. qs[q] = Tail(queue[q]) /\ \A c \in Qids \ {q} : qs[c] = queue[c]
  BY DEF dequeue, IInv, Agree, Lists
<1>3. StateOn(prstate[pid], prsem[pid], q)
  BY <1>1 DEF IInv, Agree
<1> HIDE DEF pid, qs
<1>4. ReadyList(qs, qkey, prprio)
  <2>1. qs[readylist] = queue[readylist] /\ qs[readylist] \in Seq(Pids)
    BY <1>1, <1>2 DEF Unlinked, Lists
  <2>2. ReadyList(queue, qkey, prprio) /\ qkey \in [Pids -> Int]
    BY DEF OrderInv, ReadyList
  <2> QED
    BY <2>1, <2>2, SameReadyList
<1>5. After(st, qs, qkey)
  <2>1. Ready(pid, prstate, qs, qkey) /\ UNCHANGED <<prsem, prprio>>
    BY DEF pid, qs, procVars
  <2> QED
    BY <1>1, <1>4, <2>1, ReadyAfter
<1>6. /\ \A p \in Pids \ {pid} : Carries(p)
      /\ prstate'[pid] \in Running
      /\ \A p \in Pids \ {pid} : prstate'[p] = "FREE" <=> prstate[p] = "FREE"
  <2>1. Scheduled(st, qs, prsem')
    BY <1>5 DEF After
  <2> QED
    BY <1>1, <2>1, OthersCarryOn DEF Running
<1>7. \A p \in Pids : MsgSame(p)
  BY DEF MsgSame, msgVars
<1>8. Released(pid)
  <2>1. prstate[pid] \in {"SLEEP", "RECTIM"} => q = sleepq
    BY <1>3 DEF StateOn
  <2>2. prstate[pid] \in {"WAIT", "SLEEP", "RECTIM"}
    BY <1>3 DEF StateOn
  <2> QED
    BY <1>1, <1>6, <1>7, <2>1, <2>2 DEF Released, pid
<1>9. \A p \in Pids : PStep(p)
  BY <1>6, <1>7, <1>8 DEF PStep, CarriesOn
<1>10. \A s \in Sems : QMove(s, qs[s])
  BY <1>2 DEF QMove
<1>11. SleepMove(qs[sleepq], qkey)
  BY <1>2 DEF SleepMove
<1>12. RestTypes'
  BY DEF OrderInv, RestTypes, MsgTypes, LifeTypes, msgVars, procVars, lifeVars, stkVars
<1>13. KStep
  BY <1>5, <1>9, <1>10, <1>11, <1>12, StepFrom
<1>14. prstate[pid] # "FREE"
  BY <1>3 DEF StateOn
<1> QED
  BY <1>6, <1>13, <1>14 DEF Running

\* A process that does not wait for a semaphore becomes ready.
LEMMA ReadyMoves ==
  ASSUME IInv, OrderInv, NEW pid \in Pids, prstate[pid] \in {"RECV", "SUSP"},
         Ready(pid, prstate, queue, qkey),
         UNCHANGED <<prsem, prprio>>, RestTypes',
         \A p \in Pids \ {pid} : Carries(p) => PStep(p),
         prstate'[pid] \in Running => PStep(pid)
  PROVE  /\ KStep
         /\ \A p \in Pids : prstate'[p] = "FREE" <=> prstate[p] = "FREE"
<1> DEFINE st == [prstate EXCEPT ![pid] = "READY"]
<1>1. Readyable(pid, prstate, queue, prsem)
  BY CurrentSchedulable, Identifiers DEF Readyable, Schedulable, Agree, StateOn
<1>2. After(st, queue, qkey)
  BY <1>1, ReadyAfter DEF OrderInv
<1>3. /\ \A p \in Pids \ {pid} : Carries(p)
      /\ prstate'[pid] \in Running
      /\ \A p \in Pids \ {pid} : prstate'[p] = "FREE" <=> prstate[p] = "FREE"
  <2>1. Scheduled(st, queue, prsem')
    BY <1>2 DEF After
  <2> QED
    BY <2>1, OthersCarryOn DEF Running
<1>4. \A p \in Pids : PStep(p)
  BY <1>3
<1>5. KStep
  BY <1>2, <1>4, StepFrom, StayMoves
<1> QED
  BY <1>3, <1>5 DEF Running

\* The current process gives up the CPU and is on no list.
LEMMA BlockMoves ==
  ASSUME IInv, OrderInv, currpid # NULLPROC, NEW state \in {"RECV", "SUSP", "FREE"},
         Resched([prstate EXCEPT ![currpid] = state], queue, qkey),
         UNCHANGED deferVars, UNCHANGED <<prsem, prprio>>, RestTypes',
         \A p \in Pids \ {currpid} : Carries(p) => PStep(p),
         prstate'[currpid] = state => PStep(currpid)
  PROVE  /\ KStep
         /\ prstate'[currpid] = state
         /\ \A p \in Pids \ {currpid} : prstate'[p] = "FREE" <=> prstate[p] = "FREE"
<1> DEFINE st == [prstate EXCEPT ![currpid] = state]
<1>1. Schedulable(st, queue, prsem') /\ currpid \in Pids
  BY BlockOffLists, CurrentSchedulable
<1>2. After(st, queue, qkey)
  <2>1. /\ preempt \in 1..QUANTUM /\ prprio' \in [Pids -> Nat]
        /\ ReadyList(queue, qkey, prprio') /\ attempt' = attempt
        /\ ReschedSlice(st, queue, qkey, preempt)
    BY DEF OrderInv, SliceTypes, RestTypes, LifeTypes, deferVars, Resched
  <2> HIDE DEF st
  <2> QED
    BY <1>1, <2>1, ReschedAfter
<1>3. /\ \A p \in Pids \ {currpid} : Carries(p)
      /\ prstate'[currpid] = state
      /\ \A p \in Pids \ {currpid} : prstate'[p] = "FREE" <=> prstate[p] = "FREE"
  <2>1. Scheduled(st, queue, prsem')
    BY <1>2 DEF After
  <2> QED
    BY <1>1, <2>1, OthersCarryOn DEF Running
<1>4. \A p \in Pids : PStep(p)
  BY <1>3
<1> QED
  BY <1>2, <1>3, <1>4, StepFrom, StayMoves

\* The current process gives up the CPU and joins the sleep queue.
LEMMA SleepMoves ==
  ASSUME IInv, OrderInv, currpid # NULLPROC, frame[currpid].at = "user",
         NEW state \in {"SLEEP", "RECTIM"}, NEW key \in Nat,
         Resched([prstate EXCEPT ![currpid] = state],
                 insertd(queue, qkey, currpid, sleepq, key),
                 insertdKey(queue, qkey, currpid, sleepq, key)),
         UNCHANGED deferVars, UNCHANGED <<prsem, prprio>>, RestTypes',
         \A p \in Pids \ {currpid} : Carries(p) => PStep(p),
         prstate'[currpid] = state => PStep(currpid)
  PROVE  /\ KStep
         /\ \A p \in Pids : prstate'[p] = "FREE" <=> prstate[p] = "FREE"
<1> USE Identifiers
<1> DEFINE st == [prstate EXCEPT ![currpid] = state]
           s == queue[sleepq]
           t == InsertAt(s, InsertdPos(s, qkey, key), currpid)
           qs == insertd(queue, qkey, currpid, sleepq, key)
           ks == insertdKey(queue, qkey, currpid, sleepq, key)
<1>1. /\ Schedulable(st, qs, prsem') /\ currpid \in Pids
      /\ \A c \in Sems : qs[c] = queue[c]
  BY BlockAsleep, CurrentSchedulable
<1>2. ~Has(s, currpid) /\ Lists(queue, Qids, Pids)
  BY CurrentSchedulable DEF Schedulable, Agree, StateOn
<1>3. qs[sleepq] = t /\ qs[readylist] = queue[readylist]
      /\ queue[readylist] \in Seq(Pids)
  BY <1>2 DEF insertd, Lists
<1>4. ks \in [Pids -> Int] /\ \A p \in Pids : p # currpid /\ ~Has(s, p) => ks[p] = qkey[p]
  BY <1>1, <1>2, insertdKeys DEF OrderInv, ReadyList
<1>5. \A p \in Pids : Has(queue[readylist], p) => p # currpid /\ ~Has(s, p)
  BY CurrentSchedulable DEF Schedulable, Agree, StateOn
<1> HIDE DEF qs, ks, t
<1>6. ReadyList(qs, ks, prprio')
  BY <1>3, <1>4, <1>5, SameReadyList DEF OrderInv
<1>7. After(st, qs, ks)
  <2>1. /\ preempt \in 1..QUANTUM /\ prprio' \in [Pids -> Nat] /\ attempt' = attempt
        /\ ReschedSlice(st, qs, ks, preempt)
    BY DEF OrderInv, SliceTypes, RestTypes, LifeTypes, deferVars, Resched, qs, ks
  <2> HIDE DEF st
  <2> QED
    BY <1>1, <1>6, <2>1, ReschedAfter
<1>8. /\ \A p \in Pids \ {currpid} : Carries(p)
      /\ prstate'[currpid] = state
      /\ \A p \in Pids \ {currpid} : prstate'[p] = "FREE" <=> prstate[p] = "FREE"
  <2>1. Scheduled(st, qs, prsem')
    BY <1>7 DEF After
  <2> QED
    BY <1>1, <2>1, OthersCarryOn DEF Running
<1>9. \A p \in Pids : PStep(p)
  BY <1>8
<1>10. \A c \in Sems : QMove(c, qs[c])
  BY <1>1 DEF QMove
<1>11. SleepMove(qs[sleepq], ks)
  BY <1>2, <1>3 DEF SleepMove, t, ks
<1>12. KStep
  BY <1>7, <1>9, <1>10, <1>11, StepFrom
<1>13. prstate[currpid] # "FREE"
  BY CurrentSchedulable
<1> QED
  BY <1>8, <1>12, <1>13

\* getitem removes the process from its place on the list it is on.
LEMMA getitemRemoves ==
  ASSUME NEW qs, NEW q \in DOMAIN qs, NEW pid, Has(qs[q], pid)
  PROVE  \E i \in 1..Len(qs[q]) :
            qs[q][i] = pid /\ getitem(qs, pid)[q] = RemoveAt(qs[q], i)
  BY DEF getitem, Has

\* What the lists and the keys are once a sleeper has been taken off.
LEMMA UnsleepMoves ==
  ASSUME IInv, OrderInv, NEW pid \in Pids, prstate[pid] \in {"SLEEP", "RECTIM"},
         frame[currpid].at # "wakeup"
  PROVE  LET qs == getitem(queue, pid)
             ks == unsleepKey(queue, qkey, pid, sleepq)
         IN  /\ ReadyList(qs, ks, prprio)
             /\ SleepMove(qs[sleepq], ks)
             /\ \A c \in Qids \ {sleepq} : qs[c] = queue[c]
             /\ ks \in [Pids -> Int]
<1> USE Identifiers
<1> DEFINE qs == getitem(queue, pid)
           ks == unsleepKey(queue, qkey, pid, sleepq)
<1>1. StateOn(prstate[pid], prsem[pid], sleepq)
  BY DEF StateOn
<1>2. /\ Lists(qs, Qids, Pids) /\ Lists(queue, Qids, Pids)
      /\ \A c \in Qids \ {sleepq} : qs[c] = queue[c]
  BY <1>1, UnlinkProcess DEF IInv, Agree
<1>3. Has(queue[sleepq], pid)
  BY <1>1 DEF IInv, Agree
<1>4. PICK i \in 1..Len(queue[sleepq]) :
         queue[sleepq][i] = pid /\ qs[sleepq] = RemoveAt(queue[sleepq], i)
  BY <1>2, <1>3, getitemRemoves DEF Lists
<1>5. ks \in [Pids -> Int] /\ \A p \in Pids : ~Has(queue[sleepq], p) => ks[p] = qkey[p]
  <2>1. qkey \in [Pids -> Int] /\ Lists(queue, Qids, Pids) /\ sleepq \in Qids
    BY <1>2 DEF OrderInv, ReadyList
  <2> HIDE DEF qs
  <2> QED
    BY ONLY <2>1, unsleepKeys, pid \in Pids
<1>6. \A p \in Pids : Has(queue[readylist], p) => ~Has(queue[sleepq], p)
  BY DEF IInv, Agree, StateOn
<1> HIDE DEF qs
<1>7. SleepMove(qs[sleepq], ks)
  BY <1>4 DEF SleepMove
<1> HIDE DEF ks
<1>8. ReadyList(qs, ks, prprio)
  <2>1. qs[readylist] = queue[readylist] /\ qs[readylist] \in Seq(Pids)
    BY <1>2 DEF Lists
  <2> QED
    BY <1>5, <1>6, <2>1, SameReadyList DEF OrderInv
<1> QED
  BY <1>2, <1>5, <1>7, <1>8 DEF qs, ks

\* A process that waits with a timeout gets a message.
LEMMA AwakeMoves ==
  ASSUME IInv, OrderInv, NEW pid \in Pids, prstate[pid] = "RECTIM",
         frame[currpid].at # "wakeup",
         Ready(pid, prstate, getitem(queue, pid), unsleepKey(queue, qkey, pid, sleepq)),
         UNCHANGED <<prsem, prprio>>, RestTypes',
         \A p \in Pids \ {pid} : Carries(p) => PStep(p),
         prstate'[pid] \in Running => PStep(pid)
  PROVE  /\ KStep
         /\ \A p \in Pids : prstate'[p] = "FREE" <=> prstate[p] = "FREE"
<1> USE Identifiers
<1> DEFINE qs == getitem(queue, pid)
           ks == unsleepKey(queue, qkey, pid, sleepq)
           st == [prstate EXCEPT ![pid] = "READY"]
<1>1. /\ ReadyList(qs, ks, prprio) /\ SleepMove(qs[sleepq], ks)
      /\ \A c \in Qids \ {sleepq} : qs[c] = queue[c]
  BY UnsleepMoves
<1>2. StateOn(prstate[pid], prsem[pid], sleepq)
  BY DEF StateOn
<1>3. /\ Lists(qs, Qids, Pids)
      /\ \A c \in Qids, p \in Pids :
            Has(qs[c], p) <=> p # pid /\ StateOn(prstate[p], prsem[p], c)
      /\ pid # currpid
  BY <1>2, UnlinkProcess
<1>4. Ready(pid, prstate, qs, ks)
  OBVIOUS
<1> HIDE DEF qs, ks
<1>5. Readyable(pid, prstate, qs, prsem)
  BY <1>3, CurrentSchedulable DEF Readyable, Schedulable
<1>6. After(st, qs, ks)
  BY <1>1, <1>4, <1>5, ReadyAfter
<1>7. /\ \A p \in Pids \ {pid} : Carries(p)
      /\ prstate'[pid] \in Running
      /\ \A p \in Pids \ {pid} : prstate'[p] = "FREE" <=> prstate[p] = "FREE"
  <2>1. Scheduled(st, qs, prsem')
    BY <1>6 DEF After
  <2> QED
    BY <2>1, OthersCarryOn DEF Running
<1>8. \A p \in Pids : PStep(p)
  BY <1>7
<1>9. \A s \in Sems : QMove(s, qs[s])
  BY <1>1 DEF QMove
<1>10. KStep
  BY <1>1, <1>6, <1>8, <1>9, StepFrom
<1> QED
  BY <1>7, <1>10 DEF Running

\* send's body.
LEMMA SendMoves ==
  ASSUME IInv, OrderInv, NEW pid \in Pids, NEW msg \in Int, Send(pid, msg),
         UNCHANGED <<prsem, prprio>>, LifeTypes', frame[currpid].at # "wakeup",
         \A p \in Pids : FrameFit(p)
  PROVE  /\ KStep
         /\ \A p \in Pids : prstate'[p] = "FREE" <=> prstate[p] = "FREE"
<1>1. CASE UNCHANGED <<msgVars, schedVars, deferVars>>
  <2>1. RestTypes' /\ SliceTypes'
    BY <1>1 DEF OrderInv, RestTypes, MsgTypes, SliceTypes, msgVars, schedVars, deferVars
  <2>2. \A p \in Pids : Carries(p) => PStep(p)
    BY <1>1 DEF PStep, CarriesOn, MsgSame, msgVars
  <2> QED
    BY <1>1, <2>1, <2>2, StayMovesOn DEF schedVars
<1>2. CASE /\ ~Refused(pid)
           /\ prmsg' = [prmsg EXCEPT ![pid] = msg]
           /\ prhasmsg' = [prhasmsg EXCEPT ![pid] = TRUE]
  <2>1. /\ prmsg' \in [Pids -> Int] /\ prhasmsg' \in [Pids -> BOOLEAN]
        /\ prhasmsg'[pid] /\ \A p \in Pids \ {pid} : MsgSame(p)
    BY <1>2 DEF OrderInv, RestTypes, MsgTypes, MsgSame
  <2>2. RestTypes'
    BY <2>1 DEF RestTypes, MsgTypes
  <2>3. prstate[pid] # "FREE" /\ ~prhasmsg[pid]
    BY <1>2 DEF Refused, isbadpid
  <2>4. \A p \in Pids \ {pid} : Carries(p) => PStep(p)
    BY <2>1 DEF PStep, CarriesOn
  <2>5. CASE prstate[pid] = "RECV" /\ Ready(pid, prstate, queue, qkey)
    <3>1. prstate'[pid] \in Running => PStep(pid)
      BY <2>1, <2>3, <2>5 DEF PStep, Gets
    <3> QED
      BY <2>2, <2>4, <2>5, <3>1, ReadyMoves
  <2>6. CASE /\ prstate[pid] = "RECTIM"
             /\ Ready(pid, prstate, getitem(queue, pid),
                      unsleepKey(queue, qkey, pid, sleepq))
    <3>1. prstate'[pid] \in Running => PStep(pid)
      BY <2>1, <2>3, <2>6 DEF PStep, Gets
    <3> QED
      BY <2>2, <2>4, <2>6, <3>1, AwakeMoves
  <2>7. CASE prstate[pid] \notin {"RECV", "RECTIM"} /\ UNCHANGED <<schedVars, deferVars>>
    <3>1. Carries(pid) => PStep(pid)
      BY <2>1, <2>3, <2>7 DEF PStep, Gets
    <3>2. \A p \in Pids : Carries(p) => PStep(p)
      BY <2>4, <3>1
    <3>3. SliceTypes'
      BY <2>7 DEF OrderInv, SliceTypes, schedVars, deferVars
    <3> QED
      BY <2>2, <2>7, <3>2, <3>3, StayMovesOn DEF schedVars
  <2> QED
    BY <1>2, <2>5, <2>6, <2>7 DEF Send
<1> QED
  BY <1>1, <1>2 DEF Send

\* Process pid is taken off the list it is on and is suspended or freed.
LEMMA LeaveMoves ==
  ASSUME IInv, OrderInv, NEW pid \in Pids \ {NULLPROC}, NEW q \in Qids,
         StateOn(prstate[pid], prsem[pid], q), NEW x \in {"SUSP", "FREE"},
         q # readylist => x = "FREE",
         prstate' = [prstate EXCEPT ![pid] = x], queue' = getitem(queue, pid),
         qkey' = IF q = sleepq THEN unsleepKey(queue, qkey, pid, sleepq) ELSE qkey,
         UNCHANGED <<currpid, preempt, prsem, prprio>>, UNCHANGED deferVars,
         frame[currpid].at \notin Loops, RestTypes',
         \A p \in Pids \ {pid} : Carries(p) => PStep(p),
         prstate'[pid] = x => PStep(pid)
  PROVE  /\ KStep
         /\ prstate'[pid] = x
         /\ \A p \in Pids \ {pid} : prstate'[p] = "FREE" <=> prstate[p] = "FREE"
<1> USE Identifiers
<1>1. /\ Scheduled(prstate', queue', prsem')
      /\ \A c \in Qids \ {q} : queue'[c] = queue[c]
  BY LeaveList
<1>2. prstate'[pid] = x /\ \A p \in Pids \ {pid} : prstate'[p] = prstate[p]
  BY DEF IInv, StateTypes
<1>3. PICK i \in 1..Len(queue[q]) :
         queue[q][i] = pid /\ queue'[q] = RemoveAt(queue[q], i)
  BY getitemRemoves DEF IInv, Agree, Lists
<1>4. queue[q] \in Seq(Pids) /\ queue[readylist] \in Seq(Pids)
  BY DEF IInv, Agree, Lists
<1>5. frame[currpid].at # "wakeup"
  BY DEF Loops
<1>6. ReadyList(queue', qkey', prprio')
  <2>1. CASE q = sleepq
    <3>1. prstate[pid] \in {"SLEEP", "RECTIM"}
      BY <2>1 DEF StateOn, IInv, WaitInv
    <3> QED
      BY <1>5, <2>1, <3>1, UnsleepMoves
  <2>2. CASE q = readylist
    <3>1. ReadyList(queue, qkey, prprio) /\ qkey' = qkey
      BY <2>2 DEF OrderInv
    <3> DEFINE s == queue[readylist]
    <3>2. s \in Seq(Pids) /\ i \in 1..Len(s) /\ queue'[readylist] = RemoveAt(s, i)
      BY <1>3, <1>4, <2>2
    <3> HIDE DEF s
    <3>3. \A kt : Ordered(s, kt) => Ordered(RemoveAt(s, i), kt)
      BY <3>2, RemoveOrdered
    <3>4. \A p \in Pids : Has(queue'[readylist], p) => Has(s, p)
      BY <1>1, <1>2 DEF Scheduled, Agree, StateOn, IInv, s
    <3> QED
      BY <3>1, <3>2, <3>3, <3>4 DEF ReadyList, s
  <2>3. CASE q \notin {sleepq, readylist}
    <3>1. queue'[readylist] = queue[readylist] /\ qkey' = qkey
      BY <1>1, <2>3
    <3> QED
      BY <3>1 DEF ReadyList, OrderInv
  <2> QED
    BY <2>1, <2>2, <2>3
<1>7. Top(prstate', prprio', currpid')
  <2>1. Top(prstate, prprio, currpid)
    BY OutsideLoops, TopWithoutDeferral
  <2> QED
    BY <1>2, <2>1 DEF Top
<1>8. SliceTypes'
  BY DEF OrderInv, SliceTypes, deferVars
<1>9. After(prstate', queue', qkey')
  BY <1>1, <1>6, <1>7, <1>8 DEF After, SleepKept
<1>10. \A p \in Pids : PStep(p)
  BY <1>2 DEF Carries
<1>11. \A s \in Sems : QMove(s, queue'[s])
  <2>1. ASSUME NEW s \in Sems PROVE QMove(s, queue'[s])
    <3>1. CASE s = q
      <4>1. x = "FREE"
        BY <3>1
      <4> QED
        BY <1>2, <1>3, <3>1, <4>1 DEF QMove
    <3>2. CASE s # q
      BY <1>1, <3>2 DEF QMove
    <3> QED
      BY <3>1, <3>2
  <2> QED
    BY <2>1
<1>12. SleepMove(queue'[sleepq], qkey')
  <2>1. CASE q = sleepq
    BY <1>3, <1>5, <2>1 DEF SleepMove
  <2>2. CASE q # sleepq
    BY <1>1, <2>2 DEF SleepMove
  <2> QED
    BY <2>1, <2>2
<1> QED
  BY <1>2, <1>9, <1>10, <1>11, <1>12, StepFrom

----------------------------------------------------------------------------
\* Semaphores.

\* Types and frames when a call leaves them alone.
LEMMA RestKept ==
  ASSUME IInv, OrderInv, UNCHANGED <<msgVars, procVars, lifeVars>>
  PROVE  /\ RestTypes' /\ LifeTypes'
         /\ UNCHANGED prprio
         /\ \A p \in Pids : MsgSame(p)
  BY DEF OrderInv, RestTypes, MsgTypes, LifeTypes, MsgSame,
         msgVars, procVars, lifeVars, stkVars

\* A step that leaves the scheduler, messages and processes alone.
LEMMA QuietStep ==
  ASSUME IInv, OrderInv, UNCHANGED <<schedVars, msgVars, procVars, prsem, lifeVars>>,
         UNCHANGED deferVars \/ (ndefers = 0 /\ attempt' \in BOOLEAN),
         \A p \in Pids : FrameFit(p)
  PROVE  /\ KStep
         /\ \A p \in Pids : prstate'[p] = "FREE" <=> prstate[p] = "FREE"
<1>1. RestTypes' /\ UNCHANGED prprio /\ \A p \in Pids : MsgSame(p)
  BY RestKept
<1>2. \A p \in Pids : Carries(p) => PStep(p)
  BY <1>1 DEF PStep, CarriesOn
<1>3. SliceTypes'
  BY DEF OrderInv, SliceTypes, schedVars, deferVars
<1> QED
  BY <1>1, <1>2, <1>3, StayMovesOn DEF schedVars

\* Frames of a step that only gives the current process frame f.
LEMMA CalmFrames ==
  ASSUME IInv, frame[currpid].at # "kill"
  PROVE  /\ frame' = frame \/ (\E f : frame' = [frame EXCEPT ![currpid] = f]
                                      /\ f.at # "kill")
            => \A p \in Pids : frame'[p].at = "kill" \/ frame[p].at = "kill"
                                  => frame'[p] = frame[p]
  BY FramesFit

\* semcreate.
LEMMA semcreateMoves ==
  ASSUME IInv, OrderInv, NEW count, semcreate(count)
  PROVE  KStep /\ Calm
<1>1. /\ frame[currpid].at = "user" /\ frame' = frame
      /\ UNCHANGED <<schedVars, msgVars, procVars, prsem, lifeVars>>
      /\ UNCHANGED deferVars /\ UNCHANGED lifeVars
  BY DEF semcreate, Caller, InUser
<1> QED
  BY <1>1, QuietStep, FramesFit, CalmFrames DEF Calm

\* wait: the caller joins the queue at its end, or goes on.
LEMMA waitMoves ==
  ASSUME IInv, OrderInv, NEW sem \in Sems, wait(sem)
  PROVE  KStep /\ Calm
<1> USE Identifiers
<1>1. /\ frame[currpid].at = "user" /\ frame' = frame /\ currpid # NULLPROC
      /\ UNCHANGED <<msgVars, procVars, lifeVars>>
      /\ UNCHANGED lifeVars
  BY DEF wait, Caller, InUser
<1>2. RestTypes' /\ UNCHANGED prprio /\ \A p \in Pids : MsgSame(p) /\ FrameFit(p)
  BY <1>1, RestKept, FramesFit
<1>3. CASE ~MustWait(sem)
  <2>1. UNCHANGED <<prsem, schedVars, deferVars>>
    BY <1>3 DEF wait
  <2>2. /\ KStep
        /\ \A p \in Pids : prstate'[p] = "FREE" <=> prstate[p] = "FREE"
    BY <1>1, <1>2, <2>1, QuietStep
  <2> QED
    BY <1>1, <2>2, CalmFrames DEF Calm
<1>4. CASE MustWait(sem)
  <2> DEFINE st == [prstate EXCEPT ![currpid] = "WAIT"]
             qs == enqueue(queue, currpid, sem)
  <2>1. /\ prsem' = [prsem EXCEPT ![currpid] = sem]
        /\ Resched(st, qs, qkey) /\ UNCHANGED deferVars
    BY <1>4 DEF wait, Block
  <2>2. /\ prsem' \in [Pids -> Sems \cup {-1}] /\ prsem'[currpid] = sem
        /\ \A p \in Pids \ {currpid} : prsem'[p] = prsem[p]
        /\ st \in [Pids -> PrStates] /\ st[currpid] = "WAIT"
        /\ \A p \in Pids \ {currpid} : st[p] = prstate[p]
    BY <2>1, CurrentSchedulable DEF IInv, StateTypes, PrStates
  <2>3. \A q \in Qids : ~Has(queue[q], currpid)
    BY CurrentSchedulable DEF Schedulable, Agree, StateOn
  <2>4. /\ Linked(qs, queue, Qids, Pids, sem, currpid)
        /\ qs[sem] = Append(queue[sem], currpid)
        /\ \A q \in Qids \ {sem} : qs[q] = queue[q]
    <3>1. Linked(qs, queue, Qids, Pids, sem, currpid)
      BY <2>3, enqueueLists, CurrentSchedulable DEF Schedulable, Agree
    <3> QED
      BY <3>1 DEF enqueue, IInv, Agree, Lists, Linked
  <2> HIDE DEF qs
  <2>5. Agree(st, qs, prsem')
    <3> HIDE DEF st
    <3>1. Lists(qs, Qids, Pids)
      BY <2>4 DEF Linked
    <3>2. ASSUME NEW q \in Qids, NEW p \in Pids
          PROVE  Has(qs[q], p) <=> StateOn(st[p], prsem'[p], q)
      <4>1. Has(queue[q], p) <=> StateOn(prstate[p], prsem[p], q)
        BY CurrentSchedulable DEF Schedulable, Agree
      <4>2. Has(qs[q], p) <=> Has(queue[q], p) \/ (q = sem /\ p = currpid)
        BY <2>4 DEF Linked
      <4>3. CASE p = currpid
        BY <2>2, <2>3, <4>2, <4>3 DEF StateOn
      <4>4. CASE p # currpid
        BY <2>2, <4>1, <4>2, <4>4
      <4> QED
        BY <4>3, <4>4
    <3> QED
      BY <3>1, <3>2 DEF Agree
  <2>6. Schedulable(st, qs, prsem')
    BY <2>2, <2>5, <1>1, CurrentSchedulable DEF Schedulable
  <2>7. ReadyList(qs, qkey, prprio')
    <3>1. qs[readylist] = queue[readylist]
      BY <2>4
    <3> QED
      BY <1>2, <3>1 DEF OrderInv, ReadyList
  <2>8. After(st, qs, qkey)
    <3>1. /\ preempt \in 1..QUANTUM /\ prprio' \in [Pids -> Nat] /\ attempt' = attempt
          /\ ReschedSlice(st, qs, qkey, preempt)
      BY <1>2, <2>1 DEF OrderInv, SliceTypes, RestTypes, LifeTypes, deferVars, Resched
    <3> HIDE DEF st
    <3> QED
      BY <1>2, <2>6, <2>7, <3>1, ReschedAfter
  <2>9. /\ \A p \in Pids \ {currpid} : Carries(p)
        /\ prstate'[currpid] = "WAIT"
        /\ \A p \in Pids \ {currpid} : prstate'[p] = "FREE" <=> prstate[p] = "FREE"
        /\ prstate[currpid] = "CURR" /\ currpid \in Pids
    <3>1. Scheduled(st, qs, prsem')
      BY <2>8 DEF After
    <3> QED
      BY <3>1, CurrentSchedulable, OthersCarryOn DEF Running
  <2>10. \A p \in Pids : PStep(p)
    <3>1. Blocks(currpid)
      BY <1>1, <1>2, <2>9 DEF Blocks, Running
    <3> QED
      BY <1>2, <2>9, <3>1 DEF PStep, CarriesOn
  <2>11. \A s \in Sems : QMove(s, qs[s])
    BY <2>3, <2>4 DEF QMove
  <2>12. SleepMove(qs[sleepq], qkey)
    BY <2>4 DEF SleepMove
  <2>13. KStep
    BY <1>2, <2>8, <2>10, <2>11, <2>12, StepFrom
  <2>14. \A p \in Pids : prstate'[p] = "FREE" <=> prstate[p] = "FREE"
    BY <2>9
  <2> QED
    BY <1>1, <2>13, <2>14, CalmFrames DEF Calm
<1> QED
  BY <1>3, <1>4

\* One turn of signal.
LEMMA SignalOnceMoves ==
  ASSUME IInv, OrderInv, NEW sem \in Sems, SignalOnce(sem), CountOK(queue, scount, sem),
         \A p \in Pids : FrameFit(p)
  PROVE  /\ KStep
         /\ \A p \in Pids : prstate'[p] = "FREE" <=> prstate[p] = "FREE"
<1>1. UNCHANGED <<prsem, msgVars, procVars, lifeVars>>
  BY DEF SignalOnce
<1>2. CASE scount[sem] < 0
  <2>1. Ready(Head(queue[sem]), prstate, dequeue(queue, sem), qkey)
    BY <1>2 DEF SignalOnce
  <2>2. queue[sem] # << >>
    BY <1>2 DEF CountOK, IInv, StateTypes
  <2> QED
    BY <1>1, <2>1, <2>2, Identifiers, ReleaseMoves
<1>3. CASE ~(scount[sem] < 0)
  <2>1. UNCHANGED <<schedVars, deferVars>>
    BY <1>3 DEF SignalOnce
  <2> QED
    BY <1>1, <2>1, QuietStep
<1> QED
  BY <1>2, <1>3

\* signal.
LEMMA signalMoves ==
  ASSUME IInv, OrderInv, NEW sem \in Sems, signal(sem)
  PROVE  KStep /\ Calm
<1>1. /\ frame[currpid].at = "user" /\ frame' = frame /\ SignalOnce(sem)
      /\ UNCHANGED lifeVars
  BY DEF signal, SignalOnce, Caller, InUser
<1>2. CountOK(queue, scount, sem)
  BY <1>1, OutsideLoops DEF Loops
<1> QED
  BY <1>1, <1>2, FramesFit, CalmFrames, SignalOnceMoves DEF Calm

\* A call begins its loop.
LEMMA EnterLoopMoves ==
  ASSUME IInv, OrderInv, NEW at \in {"signaln", "semreset", "semdelete"},
         NEW sem, NEW cnt, EnterLoop(at, sem, cnt)
  PROVE  KStep /\ Calm
<1> DEFINE f == Frame(at, sem, cnt, 0)
<1>1. /\ frame[currpid].at = "user" /\ DeferStart
      /\ frame' = [frame EXCEPT ![currpid] = f]
      /\ UNCHANGED <<schedVars, msgVars, procVars, prsem, lifeVars>>
      /\ UNCHANGED lifeVars
  BY DEF EnterLoop, Caller, InUser
<1>2. f.at = at
  BY DEF Frame
<1> HIDE DEF f
<1>3. ndefers = 0 /\ attempt' \in BOOLEAN
  BY <1>1, OutsideLoops DEF Loops, DeferStart
<1>4. \A p \in Pids : FrameFit(p)
  BY <1>1, <1>2, FramesFit
<1> QED
  BY <1>1, <1>2, <1>3, <1>4, QuietStep, CalmFrames DEF Calm

\* A loop ends.
LEMMA EndLoopMoves ==
  ASSUME IInv, OrderInv, frame[currpid].at \in Loops, DeferStop,
         NEW at \in {"user", "clkrest"},
         frame' = [frame EXCEPT ![currpid] = Frame(at, 0, 0, 0)],
         UNCHANGED <<msgVars, procVars, prsem, lifeVars>>
  PROVE  KStep /\ Calm
<1> DEFINE f == Frame(at, 0, 0, 0)
<1>0. f.at = at /\ frame' = [frame EXCEPT ![currpid] = f]
  BY DEF Frame
<1> HIDE DEF f
<1>1. RestTypes' /\ UNCHANGED prprio /\ \A p \in Pids : MsgSame(p)
  BY RestKept
<1>2. \A p \in Pids : FrameFit(p)
  BY <1>0, FramesFit
<1>3. After(prstate, queue, qkey)
  BY <1>1, DeferStopAfter
<1>4. /\ \A p \in Pids : Carries(p)
      /\ \A p \in Pids : prstate'[p] = "FREE" <=> prstate[p] = "FREE"
  BY <1>3, AllCarryOn DEF After
<1>5. \A p \in Pids : PStep(p)
  BY <1>1, <1>2, <1>4 DEF PStep, CarriesOn
<1>6. frame[currpid].at # "kill"
  BY DEF Loops
<1> QED
  BY <1>0, <1>1, <1>3, <1>4, <1>5, <1>6, StayMoves, StepFrom, CalmFrames DEF Calm

\* The calls that begin a loop.
LEMMA BeginMoves ==
  ASSUME IInv, OrderInv, NEW sem, NEW count,
         signaln(sem, count) \/ semreset(sem, count) \/ semdelete(sem)
  PROVE  KStep /\ Calm
  BY EnterLoopMoves DEF signaln, semreset, semdelete

\* LeaveLoop is the end of a loop.
LEMMA LeaveLoopMoves ==
  ASSUME IInv, OrderInv, frame[currpid].at \in Loops, LeaveLoop
  PROVE  KStep /\ Calm
<1>1. /\ DeferStop /\ frame' = [frame EXCEPT ![currpid] = Frame("user", 0, 0, 0)]
      /\ UNCHANGED <<msgVars, procVars, prsem, lifeVars>>
  BY DEF LeaveLoop, Return, UserFrame
<1> QED
  BY <1>1, EndLoopMoves

\* Each turn of signaln's loop.
LEMMA signalnLoopMoves ==
  ASSUME IInv, OrderInv, signalnLoop
  PROVE  KStep /\ Calm
<1> DEFINE f == frame[currpid]
<1>1. ~halted /\ f.at = "signaln" /\ f.at \in Loops
  BY DEF signalnLoop, InFrame, Loops
<1>2. f \in FrameType /\ f.sem \in Sems /\ CountOK(queue, scount, f.sem)
  BY <1>1, InsideLoops DEF FrameType
<1>3. CASE SignalOnce(f.sem) /\ frame' = [frame EXCEPT ![currpid].cnt = @ - 1]
  <2> DEFINE g == [f EXCEPT !.cnt = @ - 1]
  <2>1. frame' = [frame EXCEPT ![currpid] = g]
    BY <1>3, Zenon
  <2>2. g.at = "signaln"
    BY <1>1, <1>2 DEF FrameType
  <2> HIDE DEF g
  <2>3. \A p \in Pids : FrameFit(p)
    BY <2>1, <2>2, FramesFit
  <2>4. UNCHANGED lifeVars
    BY <1>3 DEF SignalOnce
  <2> QED
    BY <1>1, <1>2, <1>3, <2>1, <2>2, <2>3, <2>4, SignalOnceMoves, CalmFrames DEF Calm
<1>4. CASE LeaveLoop
  BY <1>1, <1>4, LeaveLoopMoves
<1> QED
  BY <1>3, <1>4 DEF signalnLoop

\* Each turn of semreset's loop.
LEMMA semresetLoopMoves ==
  ASSUME IInv, OrderInv, semresetLoop
  PROVE  KStep /\ Calm
<1> DEFINE f == frame[currpid]
<1>1. ~halted /\ f.at = "semreset" /\ f.at \in Loops
  BY DEF semresetLoop, InFrame, Loops
<1>2. f.sem \in Sems
  BY <1>1, InsideLoops DEF FrameType
<1>3. CASE /\ queue[f.sem] # << >>
           /\ Ready(Head(queue[f.sem]), prstate, dequeue(queue, f.sem), qkey)
           /\ UNCHANGED <<semVars, frame, msgVars, procVars, prsem, lifeVars>>
  <2>1. \A p \in Pids : FrameFit(p)
    BY <1>3, FramesFit
  <2>2. /\ KStep
        /\ \A p \in Pids : prstate'[p] = "FREE" <=> prstate[p] = "FREE"
    BY <1>2, <1>3, <2>1, Identifiers, ReleaseMoves
  <2>3. UNCHANGED lifeVars /\ frame' = frame
    BY <1>3
  <2> QED
    BY <1>1, <2>2, <2>3, CalmFrames DEF Calm
<1>4. CASE LeaveLoop
  BY <1>1, <1>4, LeaveLoopMoves
<1> QED
  BY <1>3, <1>4 DEF semresetLoop

\* Each turn of semdelete's loop.
LEMMA semdeleteLoopMoves ==
  ASSUME IInv, OrderInv, semdeleteLoop
  PROVE  KStep /\ Calm
<1> DEFINE sem == frame[currpid].sem
<1>1. ~halted /\ frame[currpid].at = "semdelete" /\ frame[currpid].at \in Loops
  BY DEF semdeleteLoop, InFrame, Loops
<1>2. sem \in Sems /\ CountOK(queue, scount, sem) /\ scount[sem] \in Int
  BY <1>1, InsideLoops DEF FrameType, IInv, StateTypes
<1>3. CASE /\ scount[sem] < 0
           /\ Ready(Head(queue[sem]), prstate, dequeue(queue, sem), qkey)
           /\ UNCHANGED <<sstate, nextsem, msgVars, procVars, prsem, lifeVars, frame>>
  <2>1. \A p \in Pids : FrameFit(p)
    BY <1>3, FramesFit
  <2>2. queue[sem] # << >>
    BY <1>2, <1>3 DEF CountOK
  <2> HIDE DEF sem
  <2>3. /\ KStep
        /\ \A p \in Pids : prstate'[p] = "FREE" <=> prstate[p] = "FREE"
    BY <1>2, <1>3, <2>1, <2>2, Identifiers, ReleaseMoves
  <2>4. UNCHANGED lifeVars /\ frame' = frame
    BY <1>3
  <2> QED
    BY <1>1, <2>3, <2>4, CalmFrames DEF Calm
<1>4. CASE LeaveLoop
  BY <1>1, <1>4, LeaveLoopMoves
<1> QED
  BY <1>3, <1>4 DEF semdeleteLoop

----------------------------------------------------------------------------
\* Messages.

\* send.
LEMMA sendMoves ==
  ASSUME IInv, OrderInv, NEW pid \in Pids, NEW msg \in Int, send(pid, msg)
  PROVE  KStep /\ Calm
<1>1. /\ frame[currpid].at = "user" /\ frame' = frame /\ Send(pid, msg)
      /\ UNCHANGED <<prsem, procVars>> /\ UNCHANGED lifeVars
  BY DEF send, Caller, InUser
<1>2. LifeTypes' /\ UNCHANGED <<prsem, prprio>>
  BY <1>1 DEF OrderInv, RestTypes, LifeTypes, procVars, lifeVars, stkVars
<1> QED
  BY <1>1, <1>2, FramesFit, CalmFrames, SendMoves DEF Calm

\* A message is taken and the call returns.
LEMMA TakeMessageMoves ==
  ASSUME IInv, OrderInv, frame[currpid].at \notin Loops \cup {"kill"}, TakeMessage,
         UNCHANGED <<procVars, prsem, lifeVars>>
  PROVE  KStep /\ Calm
<1>1. /\ prhasmsg' = [prhasmsg EXCEPT ![currpid] = FALSE] /\ prmsg' = prmsg
      /\ UNCHANGED <<schedVars, deferVars>>
      /\ frame' = [frame EXCEPT ![currpid] = UserFrame]
      /\ UNCHANGED lifeVars
  BY DEF TakeMessage, Return
<1>2. UserFrame.at = "user"
  BY DEF UserFrame, Frame
<1>3. /\ frame'[currpid] = UserFrame
      /\ \A p \in Pids \ {currpid} : FrameFit(p)
  BY <1>1, FramesFit
<1>4. /\ prhasmsg' \in [Pids -> BOOLEAN] /\ ~prhasmsg'[currpid]
      /\ \A p \in Pids \ {currpid} : MsgSame(p)
  BY <1>1, CurrentSchedulable DEF OrderInv, RestTypes, MsgTypes, MsgSame
<1>5. RestTypes' /\ SliceTypes' /\ UNCHANGED prprio
  BY <1>1, <1>4 DEF OrderInv, RestTypes, MsgTypes, LifeTypes, SliceTypes, schedVars,
                    deferVars, procVars, lifeVars, stkVars
<1>6. \A p \in Pids : Carries(p) => PStep(p)
  BY <1>2, <1>3, <1>4 DEF PStep, CarriesOn, Takes
<1>7. KStep
  BY <1>1, <1>5, <1>6, StayMovesOn DEF schedVars
<1>8. \A p \in Pids : prstate'[p] = "FREE" <=> prstate[p] = "FREE"
  BY <1>1 DEF schedVars
<1> QED
  BY <1>1, <1>2, <1>7, <1>8, CalmFrames DEF Calm

\* receive.
LEMMA receiveMoves ==
  ASSUME IInv, OrderInv, receive
  PROVE  KStep /\ Calm
<1> DEFINE f == Frame("receive", 0, 0, 0)
<1>1. /\ frame[currpid].at = "user" /\ currpid # NULLPROC
      /\ UNCHANGED <<procVars, prsem, lifeVars>> /\ UNCHANGED lifeVars
  BY DEF receive, Caller, InUser
<1>2. CASE TakeMessage
  BY <1>1, <1>2, TakeMessageMoves DEF Loops
<1>3. CASE ~prhasmsg[currpid] /\ AwaitMessage("receive", "RECV", queue, qkey)
  <2>1. /\ Resched([prstate EXCEPT ![currpid] = "RECV"], queue, qkey)
        /\ UNCHANGED deferVars
        /\ frame' = [frame EXCEPT ![currpid] = f]
        /\ UNCHANGED <<msgVars, procVars, lifeVars>> /\ UNCHANGED <<prsem, prprio>>
    BY <1>1, <1>3 DEF AwaitMessage, Block, procVars
  <2>2. f.at = "receive"
    BY DEF Frame
  <2> HIDE DEF f
  <2>3. RestTypes' /\ \A p \in Pids : MsgSame(p)
    BY <2>1, RestKept
  <2>4. /\ frame'[currpid] = f /\ currpid \in Pids /\ prstate[currpid] = "CURR"
        /\ \A p \in Pids \ {currpid} : FrameFit(p)
    BY <2>1, FramesFit, CurrentSchedulable
  <2>5. \A p \in Pids \ {currpid} : Carries(p) => PStep(p)
    BY <2>3, <2>4 DEF PStep, CarriesOn
  <2>6. prstate'[currpid] = "RECV" => PStep(currpid)
    BY <1>3, <2>2, <2>3, <2>4 DEF PStep, Awaits, Running
  <2>7. /\ KStep
        /\ prstate'[currpid] = "RECV"
        /\ \A p \in Pids \ {currpid} : prstate'[p] = "FREE" <=> prstate[p] = "FREE"
    BY <1>1, <2>1, <2>3, <2>5, <2>6, BlockMoves
  <2>8. \A p \in Pids : prstate'[p] = "FREE" <=> prstate[p] = "FREE"
    BY <2>4, <2>7
  <2> QED
    BY <1>1, <2>1, <2>2, <2>7, <2>8, CalmFrames DEF Calm
<1> QED
  BY <1>2, <1>3 DEF receive

\* recvtime.
LEMMA recvtimeMoves ==
  ASSUME IInv, OrderInv, NEW maxwait \in Nat, recvtime(maxwait)
  PROVE  KStep /\ Calm
<1> DEFINE f == Frame("recvtime", 0, 0, 0)
<1>1. /\ frame[currpid].at = "user" /\ currpid # NULLPROC
      /\ UNCHANGED <<procVars, prsem, lifeVars>> /\ UNCHANGED lifeVars
  BY DEF recvtime, Caller, InUser
<1>2. CASE TakeMessage
  BY <1>1, <1>2, TakeMessageMoves DEF Loops
<1>3. CASE /\ ~prhasmsg[currpid]
           /\ AwaitMessage("recvtime", "RECTIM",
                           insertd(queue, qkey, currpid, sleepq, maxwait),
                           insertdKey(queue, qkey, currpid, sleepq, maxwait))
  <2>1. /\ Resched([prstate EXCEPT ![currpid] = "RECTIM"],
                   insertd(queue, qkey, currpid, sleepq, maxwait),
                   insertdKey(queue, qkey, currpid, sleepq, maxwait))
        /\ UNCHANGED deferVars
        /\ frame' = [frame EXCEPT ![currpid] = f]
        /\ UNCHANGED <<msgVars, procVars, lifeVars>> /\ UNCHANGED <<prsem, prprio>>
    BY <1>1, <1>3 DEF AwaitMessage, Block, procVars
  <2>2. f.at = "recvtime"
    BY DEF Frame
  <2> HIDE DEF f
  <2>3. RestTypes' /\ \A p \in Pids : MsgSame(p)
    BY <2>1, RestKept
  <2>4. /\ frame'[currpid] = f /\ currpid \in Pids /\ prstate[currpid] = "CURR"
        /\ \A p \in Pids \ {currpid} : FrameFit(p)
    BY <2>1, FramesFit, CurrentSchedulable
  <2>5. \A p \in Pids \ {currpid} : Carries(p) => PStep(p)
    BY <2>3, <2>4 DEF PStep, CarriesOn
  <2>6. prstate'[currpid] = "RECTIM" => PStep(currpid)
    BY <1>3, <2>2, <2>3, <2>4 DEF PStep, Awaits, Running
  <2>7. /\ KStep
        /\ \A p \in Pids : prstate'[p] = "FREE" <=> prstate[p] = "FREE"
    BY <1>1, <2>1, <2>3, <2>5, <2>6, SleepMoves
  <2> QED
    BY <1>1, <2>1, <2>2, <2>7, CalmFrames DEF Calm
<1> QED
  BY <1>2, <1>3 DEF recvtime

\* The ends of receive and recvtime, and recvclr.
LEMMA TakingMoves ==
  ASSUME IInv, OrderInv, receiveResumed \/ recvtimeResumed \/ recvclr
  PROVE  KStep /\ Calm
<1>1. /\ frame[currpid].at \notin Loops \cup {"kill"} /\ TakeMessage
      /\ UNCHANGED <<procVars, prsem, lifeVars>>
  BY DEF receiveResumed, recvtimeResumed, recvclr, Caller, InUser, InFrame, Loops
<1> QED
  BY <1>1, TakeMessageMoves

----------------------------------------------------------------------------
\* The clock.

\* One tick off the first sleeper's delay.
LEMMA TickedKeys ==
  ASSUME IInv, OrderInv
  PROVE  /\ Ticked \in [Pids -> Int]
         /\ \A p \in Pids : ~Has(queue[sleepq], p) => Ticked[p] = qkey[p]
         /\ \A p \in Pids : Has(queue[readylist], p) => Ticked[p] = qkey[p]
<1> USE Identifiers
<1>1. qkey \in [Pids -> Int] /\ Lists(queue, Qids, Pids)
  BY DEF OrderInv, ReadyList, IInv, Agree
<1>2. \A p \in Pids : Has(queue[readylist], p) => ~Has(queue[sleepq], p)
  BY DEF IInv, Agree, StateOn
<1>3. CASE queue[sleepq] = << >>
  BY <1>1, <1>3 DEF Ticked
<1>4. CASE queue[sleepq] # << >>
  <2> DEFINE h == Head(queue[sleepq])
  <2>1. h \in Pids /\ Has(queue[sleepq], h)
    BY <1>1, <1>4, dequeueLists
  <2>2. Ticked = [qkey EXCEPT ![h] = @ - 1]
    BY <1>4 DEF Ticked
  <2> HIDE DEF h
  <2> QED
    BY <1>1, <1>2, <2>1, <2>2
<1> QED
  BY <1>3, <1>4

\* yield.
LEMMA yieldMoves ==
  ASSUME IInv, OrderInv, yield
  PROVE  KStep /\ Calm
<1>1. /\ frame[currpid].at = "user" /\ frame' = frame
      /\ Resched(prstate, queue, qkey) /\ UNCHANGED deferVars
      /\ UNCHANGED <<msgVars, procVars, prsem, lifeVars>> /\ UNCHANGED lifeVars
  BY DEF yield, Caller, InUser
<1>2. RestTypes' /\ UNCHANGED <<prsem, prprio>> /\ \A p \in Pids : MsgSame(p) /\ FrameFit(p)
  BY <1>1, RestKept, FramesFit
<1>3. After(prstate, queue, qkey)
  <2>1. /\ preempt \in 1..QUANTUM /\ prprio' \in [Pids -> Nat]
        /\ ReadyList(queue, qkey, prprio') /\ attempt' = attempt
        /\ ReschedSlice(prstate, queue, qkey, preempt)
        /\ Schedulable(prstate, queue, prsem')
    BY <1>1, <1>2, CurrentSchedulable
       DEF OrderInv, SliceTypes, RestTypes, LifeTypes, deferVars, Resched
  <2> QED
    BY <1>2, <2>1, ReschedAfter
<1>4. /\ \A p \in Pids : Carries(p)
      /\ \A p \in Pids : prstate'[p] = "FREE" <=> prstate[p] = "FREE"
  BY <1>3, AllCarryOn DEF After
<1>5. \A p \in Pids : PStep(p)
  BY <1>2, <1>4 DEF PStep, CarriesOn
<1> QED
  BY <1>1, <1>2, <1>3, <1>4, <1>5, StayMoves, StepFrom, CalmFrames DEF Calm

\* sleepms.
LEMMA sleepmsMoves ==
  ASSUME IInv, OrderInv, NEW delay \in Nat, sleepms(delay)
  PROVE  KStep /\ Calm
<1>1. CASE yield
  BY <1>1, yieldMoves
<1>2. CASE /\ Caller
           /\ Block("SLEEP", insertd(queue, qkey, currpid, sleepq, delay),
                    insertdKey(queue, qkey, currpid, sleepq, delay))
           /\ UNCHANGED <<semVars, msgVars, procVars, prsem, lifeVars, frame>>
  <2>1. /\ frame[currpid].at = "user" /\ currpid # NULLPROC /\ frame' = frame
        /\ Resched([prstate EXCEPT ![currpid] = "SLEEP"],
                   insertd(queue, qkey, currpid, sleepq, delay),
                   insertdKey(queue, qkey, currpid, sleepq, delay))
        /\ UNCHANGED deferVars
        /\ UNCHANGED <<msgVars, procVars, lifeVars>>
        /\ UNCHANGED <<prsem, prprio>> /\ UNCHANGED lifeVars
    BY <1>2 DEF Caller, InUser, Block, procVars
  <2>2. RestTypes' /\ \A p \in Pids : MsgSame(p) /\ FrameFit(p)
    BY <2>1, RestKept, FramesFit
  <2>3. \A p \in Pids \ {currpid} : Carries(p) => PStep(p)
    BY <2>2 DEF PStep, CarriesOn
  <2>4. prstate'[currpid] = "SLEEP" => PStep(currpid)
    BY <2>1, <2>2, CurrentSchedulable DEF PStep, Blocks, Running
  <2>5. /\ KStep
        /\ \A p \in Pids : prstate'[p] = "FREE" <=> prstate[p] = "FREE"
    BY <2>1, <2>2, <2>3, <2>4, SleepMoves
  <2> QED
    BY <2>1, <2>5, CalmFrames DEF Calm
<1> QED
  BY <1>1, <1>2 DEF sleepms

\* The end of clkhandler.
LEMMA EndOfTickMoves ==
  ASSUME IInv, OrderInv, NEW ks \in [Pids -> Int],
         \A p \in Pids : Has(queue[readylist], p) => ks[p] = qkey[p],
         SleepMove(queue[sleepq], ks), EndOfTick(ks),
         frame[currpid].at \in {"user", "clkrest"},
         UNCHANGED <<msgVars, procVars, prsem, lifeVars>>
  PROVE  KStep /\ Calm
<1>1. /\ frame' = [frame EXCEPT ![currpid] = UserFrame] /\ UNCHANGED deferVars
      /\ UNCHANGED lifeVars /\ UserFrame.at = "user"
  BY DEF EndOfTick, Return, UserFrame, Frame
<1>2. RestTypes' /\ UNCHANGED <<prsem, prprio>> /\ \A p \in Pids : MsgSame(p) /\ FrameFit(p)
  BY <1>1, RestKept, FramesFit
<1>3. queue[readylist] \in Seq(Pids)
  BY Identifiers DEF IInv, Agree, Lists
<1>4. After(prstate, queue, ks)
  <2>1. CASE ReschedSlice(prstate, queue, ks, QUANTUM)
    <3>1. ReadyList(queue, ks, prprio')
      BY <1>2, <1>3, SameReadyList DEF OrderInv
    <3>2. /\ QUANTUM \in 1..QUANTUM /\ prprio' \in [Pids -> Nat] /\ attempt' = attempt
          /\ Schedulable(prstate, queue, prsem')
      BY <1>1, <1>2, ProcTabAssumption, CurrentSchedulable
         DEF OrderInv, RestTypes, LifeTypes, deferVars
    <3> QED
      BY <1>2, <2>1, <3>1, <3>2, ReschedAfter
  <2>2. CASE /\ ~SliceUsed /\ preempt' = preempt - 1
             /\ qkey' = ks /\ UNCHANGED <<prstate, queue, currpid>>
    <3>1. SliceTypes'
      <4>1. preempt' \in 1..QUANTUM
        BY <2>2, ProcTabAssumption DEF OrderInv, SliceTypes, SliceUsed
      <4>2. attempt' \in BOOLEAN
        BY <1>1, Zenon DEF OrderInv, SliceTypes, deferVars
      <4> QED
        BY <4>1, <4>2 DEF SliceTypes
    <3> QED
      BY <1>1, <1>2, <2>2, <3>1, StayAfter
  <2> QED
    BY <2>1, <2>2 DEF EndOfTick
<1>5. /\ \A p \in Pids : Carries(p)
      /\ \A p \in Pids : prstate'[p] = "FREE" <=> prstate[p] = "FREE"
  BY <1>4, AllCarryOn DEF After
<1>6. \A p \in Pids : PStep(p)
  BY <1>2, <1>5 DEF PStep, CarriesOn
<1> QED
  BY <1>1, <1>2, <1>4, <1>5, <1>6, StayMoves, StepFrom, CalmFrames DEF Calm

\* The clock interrupt.
LEMMA clkhandlerMoves ==
  ASSUME IInv, OrderInv, clkhandler
  PROVE  KStep /\ Calm
<1> DEFINE f == Frame("wakeup", 0, 0, 0)
<1>1. /\ frame[currpid].at = "user"
      /\ UNCHANGED <<msgVars, procVars, prsem, lifeVars>> /\ UNCHANGED lifeVars
  BY DEF clkhandler, InUser
<1>2. SleepMove(queue[sleepq], Ticked)
  BY DEF SleepMove
<1>3. CASE EndOfTick(Ticked)
  BY <1>1, <1>2, <1>3, TickedKeys, EndOfTickMoves
<1>4. CASE /\ DeferStart /\ qkey' = Ticked
           /\ frame' = [frame EXCEPT ![currpid] = f]
           /\ UNCHANGED <<prstate, queue, currpid, preempt>>
  <2>1. f.at = "wakeup"
    BY DEF Frame
  <2> HIDE DEF f
  <2>2. RestTypes' /\ UNCHANGED <<prsem, prprio>> /\ \A p \in Pids : MsgSame(p) /\ FrameFit(p)
    BY <1>1, <1>4, <2>1, RestKept, FramesFit
  <2>3. ndefers = 0 /\ attempt' \in BOOLEAN
    BY <1>1, <1>4, OutsideLoops DEF Loops, DeferStart
  <2>4. SliceTypes'
    BY <1>4, <2>3 DEF OrderInv, SliceTypes
  <2>5. After(prstate, queue, qkey')
    BY <1>4, <2>2, <2>3, <2>4, TickedKeys, StayAfter
  <2>6. /\ \A p \in Pids : Carries(p)
        /\ \A p \in Pids : prstate'[p] = "FREE" <=> prstate[p] = "FREE"
    BY <1>4 DEF Carries
  <2>7. \A p \in Pids : PStep(p)
    BY <2>2, <2>6 DEF PStep, CarriesOn
  <2>8. KStep
    BY <1>2, <1>4, <2>2, <2>5, <2>7, StayMoves, StepFrom
  <2> QED
    BY <1>1, <1>4, <2>1, <2>6, <2>8, CalmFrames DEF Calm
<1> QED
  BY <1>3, <1>4 DEF clkhandler

\* Each turn of wakeup's loop.
LEMMA wakeupMoves ==
  ASSUME IInv, OrderInv, wakeup
  PROVE  KStep /\ Calm
<1>1. /\ frame[currpid].at = "wakeup" /\ frame[currpid].at \in Loops
      /\ UNCHANGED <<msgVars, procVars, prsem, lifeVars>> /\ UNCHANGED lifeVars
  BY DEF wakeup, InFrame, Loops
<1>2. CASE /\ Due(qkey)
           /\ Ready(Head(queue[sleepq]), prstate, dequeue(queue, sleepq), qkey)
           /\ frame' = frame
  <2>1. queue[sleepq] # << >>
    BY <1>2 DEF Due
  <2>2. /\ KStep
        /\ \A p \in Pids : prstate'[p] = "FREE" <=> prstate[p] = "FREE"
    BY <1>1, <1>2, <2>1, FramesFit, Identifiers, ReleaseMoves
  <2> QED
    BY <1>1, <1>2, <2>2, CalmFrames DEF Calm
<1>3. CASE DeferStop /\ frame' = [frame EXCEPT ![currpid] = Frame("clkrest", 0, 0, 0)]
  BY <1>1, <1>3, EndLoopMoves
<1> QED
  BY <1>2, <1>3 DEF wakeup

\* The rest of clkhandler.
LEMMA clkhandlerResumedMoves ==
  ASSUME IInv, OrderInv, clkhandlerResumed
  PROVE  KStep /\ Calm
<1>1. /\ frame[currpid].at = "clkrest" /\ EndOfTick(qkey)
      /\ UNCHANGED <<msgVars, procVars, prsem, lifeVars>>
  BY DEF clkhandlerResumed, InFrame
<1>2. qkey \in [Pids -> Int]
  BY DEF OrderInv, ReadyList
<1> QED
  BY <1>1, <1>2, StayMoves, EndOfTickMoves

----------------------------------------------------------------------------
\* Processes.

\* The frames and the states of a step that leaves frames alone.
LEMMA CalmStep ==
  ASSUME IInv, UNCHANGED lifeVars, frame' = frame,
         \A p \in Pids : prstate'[p] = "FREE" <=> prstate[p] = "FREE"
  PROVE  Calm
  BY DEF Calm

\* resume.
LEMMA resumeMoves ==
  ASSUME IInv, OrderInv, NEW pid \in Pids, resume(pid)
  PROVE  KStep /\ Calm
<1>1. /\ prstate[pid] = "SUSP" /\ Ready(pid, prstate, queue, qkey)
      /\ UNCHANGED <<msgVars, procVars, lifeVars>> /\ UNCHANGED lifeVars
      /\ UNCHANGED <<prsem, prprio>> /\ frame' = frame
  BY DEF resume, procVars
<1>2. RestTypes' /\ \A p \in Pids : MsgSame(p) /\ FrameFit(p)
  BY <1>1, RestKept, FramesFit
<1>3. \A p \in Pids \ {pid} : Carries(p) => PStep(p)
  BY <1>2 DEF PStep, CarriesOn
<1>4. prstate'[pid] \in Running => PStep(pid)
  BY <1>1, <1>2 DEF PStep, Released
<1>5. prstate[pid] \in {"RECV", "SUSP"}
  BY <1>1
<1>6. /\ KStep
      /\ \A p \in Pids : prstate'[p] = "FREE" <=> prstate[p] = "FREE"
  BY <1>1, <1>2, <1>3, <1>4, <1>5, ReadyMoves
<1> QED
  BY <1>1, <1>6, CalmStep

\* suspend, of a ready process and of the caller.
LEMMA suspendMoves ==
  ASSUME IInv, OrderInv, NEW pid \in Pids, suspend(pid)
  PROVE  KStep /\ Calm
<1> USE Identifiers
<1>1. /\ frame[currpid].at = "user" /\ pid # NULLPROC /\ prstate[pid] # "FREE"
      /\ UNCHANGED <<msgVars, procVars, lifeVars>> /\ UNCHANGED lifeVars
      /\ UNCHANGED <<prsem, prprio>> /\ frame' = frame
  BY DEF suspend, Exempt, isbadpid, Caller, InUser, procVars
<1>2. RestTypes' /\ \A p \in Pids : MsgSame(p) /\ FrameFit(p)
  BY <1>1, RestKept, FramesFit
<1>3. \A p \in Pids \ {pid} : Carries(p) => PStep(p)
  BY <1>2 DEF PStep, CarriesOn
<1>4. prstate[pid] \in Running /\ prstate'[pid] = "SUSP" => PStep(pid)
  BY <1>2 DEF PStep, Stopped
<1>5. CASE /\ prstate[pid] = "READY"
           /\ queue' = getitem(queue, pid)
           /\ prstate' = [prstate EXCEPT ![pid] = "SUSP"]
           /\ UNCHANGED <<qkey, currpid, preempt, deferVars>>
  <2>1. StateOn(prstate[pid], prsem[pid], readylist) /\ readylist # sleepq
    BY <1>5 DEF StateOn
  <2>2. /\ UNCHANGED <<currpid, preempt, prsem, prprio>> /\ UNCHANGED deferVars
        /\ frame[currpid].at \notin Loops
    BY <1>1, <1>5 DEF Loops
  <2>3. prstate'[pid] = "SUSP" => PStep(pid)
    BY <1>4, <1>5 DEF Running
  <2>4. /\ KStep /\ prstate'[pid] = "SUSP"
        /\ \A p \in Pids \ {pid} : prstate'[p] = "FREE" <=> prstate[p] = "FREE"
    BY <1>1, <1>2, <1>3, <1>5, <2>1, <2>2, <2>3, LeaveMoves
  <2> QED
    BY <1>1, <2>4, CalmStep
<1>6. CASE prstate[pid] = "CURR" /\ Block("SUSP", queue, qkey)
  <2>1. pid = currpid
    BY <1>6, CurrentSchedulable
  <2>2. /\ Resched([prstate EXCEPT ![currpid] = "SUSP"], queue, qkey)
        /\ UNCHANGED deferVars
    BY <1>6 DEF Block
  <2>3. prstate'[currpid] = "SUSP" => PStep(currpid)
    BY <1>4, <1>6, <2>1 DEF Running
  <2>4. /\ KStep /\ prstate'[pid] = "SUSP"
        /\ \A p \in Pids \ {pid} : prstate'[p] = "FREE" <=> prstate[p] = "FREE"
    BY <1>1, <1>2, <1>3, <2>1, <2>2, <2>3, BlockMoves
  <2> QED
    BY <1>1, <2>4, CalmStep
<1> QED
  BY <1>5, <1>6 DEF suspend

\* chprio: the process keeps its place, also on the ready list.
LEMMA chprioMoves ==
  ASSUME IInv, OrderInv, BootInv, NEW pid \in Pids, NEW prio \in Prios,
         chprio(pid, prio), Calling("chprio")
  PROVE  KStep /\ Calm
<1>1. /\ prprio' = [prprio EXCEPT ![pid] = prio]
      /\ UNCHANGED schedVars /\ UNCHANGED deferVars /\ UNCHANGED msgVars
      /\ UNCHANGED lifeVars /\ frame' = frame /\ prsem' = prsem
  BY DEF chprio
<1>2. ~FixedPrios
  BY CurrentSchedulable DEF Calling, FixedPrios, BootInv
<1>3. RestTypes' /\ \A p \in Pids : MsgSame(p) /\ FrameFit(p)
  <2>1. prprio' \in [Pids -> Nat]
    BY <1>1, PrioAssumption DEF OrderInv, RestTypes, LifeTypes
  <2>2. LifeTypes' /\ MsgTypes'
    BY <1>1, <2>1 DEF OrderInv, RestTypes, LifeTypes, MsgTypes, msgVars, lifeVars, stkVars
  <2> QED
    BY <1>1, <2>2, FramesFit DEF RestTypes, MsgSame, msgVars
<1>4. After(prstate, queue, qkey)
  <2>1. Scheduled(prstate, queue, prsem')
    BY <1>1, NotRescheduled DEF schedVars
  <2>2. ReadyList(queue', qkey', prprio') /\ Top(prstate', prprio', currpid')
    BY <1>1, <1>2 DEF OrderInv, ReadyList, Top, schedVars
  <2>3. SliceTypes' /\ SleepKept(queue, qkey)
    BY <1>1 DEF OrderInv, SliceTypes, schedVars, deferVars, SleepKept
  <2> QED
    BY <2>1, <2>2, <2>3 DEF After
<1>5. /\ \A p \in Pids : PStep(p)
      /\ \A p \in Pids : prstate'[p] = "FREE" <=> prstate[p] = "FREE"
  BY <1>1, <1>3 DEF PStep, CarriesOn, Carries, schedVars
<1>6. KStep
  BY <1>3, <1>4, <1>5, StayMoves, StepFrom
<1> QED
  BY <1>1, <1>5, <1>6, CalmStep

\* create on a full table: a stack is gone and nothing else has happened.
LEMMA createFullMoves ==
  ASSUME IInv, OrderInv, createFull
  PROVE  KStep /\ StackLost
<1>1. /\ stkfree' \subseteq stkfree
      /\ UNCHANGED schedVars /\ UNCHANGED deferVars /\ UNCHANGED msgVars
      /\ UNCHANGED <<prprio, prcount, prstkbase, halted>> /\ frame' = frame
      /\ prsem' = prsem
  BY DEF createFull, TakeStack, procVars
<1>2. RestTypes' /\ SliceTypes' /\ \A p \in Pids : MsgSame(p) /\ FrameFit(p)
  <2>1. LifeTypes' /\ MsgTypes' /\ SliceTypes'
    BY <1>1 DEF OrderInv, RestTypes, LifeTypes, MsgTypes, SliceTypes, msgVars,
                schedVars, deferVars
  <2> QED
    BY <1>1, <2>1, FramesFit DEF RestTypes, MsgSame, msgVars
<1>3. \A p \in Pids : Carries(p) => PStep(p)
  BY <1>2 DEF PStep, CarriesOn
<1> QED
  BY <1>1, <1>2, <1>3, StayMovesOn DEF schedVars, StackLost

\* create with a priority that is refused: a stack is gone and the search goes on
\* behind the entry that was found.
LEMMA createRefusedMoves ==
  ASSUME IInv, OrderInv, createRefused
  PROVE  KStep /\ StackLost
<1>1. /\ stkfree' \subseteq stkfree
      /\ UNCHANGED schedVars /\ UNCHANGED deferVars /\ UNCHANGED msgVars
      /\ UNCHANGED <<prprio, prcount, prstkbase, halted>> /\ frame' = frame
      /\ prsem' = prsem
  BY DEF createRefused, TakeStack, procVars
<1>2. RestTypes' /\ SliceTypes' /\ \A p \in Pids : MsgSame(p) /\ FrameFit(p)
  <2>1. LifeTypes' /\ MsgTypes' /\ SliceTypes'
    BY <1>1 DEF OrderInv, RestTypes, LifeTypes, MsgTypes, SliceTypes, msgVars,
                schedVars, deferVars
  <2> QED
    BY <1>1, <2>1, FramesFit DEF RestTypes, MsgSame, msgVars
<1>3. \A p \in Pids : Carries(p) => PStep(p)
  BY <1>2 DEF PStep, CarriesOn
<1> QED
  BY <1>1, <1>2, <1>3, StayMovesOn DEF schedVars, StackLost

\* getstk finds a stack while one is free.
LEMMA GreatestStack ==
  ASSUME NEW T \in SUBSET Stacks, T # {}
  PROVE  Max(T) \in T
<1> DEFINE K == {n \in 0..NSTK : NSTK - n \in T}
<1>1. K \subseteq Nat /\ K # {}
  <2>1. PICK t \in T : TRUE
    OBVIOUS
  <2>2. t \in Int /\ 1 <= t /\ t <= NSTK /\ NSTK \in Nat
    BY ProcTabAssumption DEF Stacks
  <2>3. NSTK - t \in 0..NSTK /\ NSTK - (NSTK - t) = t
    BY <2>2
  <2>4. NSTK - t \in K
    BY <2>1, <2>3
  <2> QED
    BY <2>4, ProcTabAssumption
<1> DEFINE k == Min(K)
<1>2. k \in K /\ \A n \in K : k <= n
  <2> HIDE DEF K
  <2> QED
    BY <1>1, LeastNat
<1> HIDE DEF k
<1>3. NSTK - k \in T
  BY <1>2
<1>4. \A t \in T : NSTK - k >= t
  <2>1. ASSUME NEW t \in T PROVE NSTK - k >= t
    <3>1. t \in Int /\ 1 <= t /\ t <= NSTK /\ NSTK \in Nat
      BY ProcTabAssumption DEF Stacks
    <3>2. NSTK - t \in 0..NSTK /\ NSTK - (NSTK - t) = t
      BY <3>1
    <3>3. NSTK - t \in K
      BY <3>2
    <3>4. k <= NSTK - t /\ k \in Nat
      BY <1>1, <1>2, <3>3
    <3> QED
      BY <3>1, <3>4
  <2> QED
    BY <2>1
<1> QED
  BY <1>3, <1>4 DEF Max

\* What the new entry is.
LEMMA NewEntryIs ==
  ASSUME IInv, OrderInv, NEW pid \in Pids, NEW prio \in Nat, NEW par,
         NewEntry(pid, prio, par), stkfree # {}
  PROVE  /\ RestTypes'
         /\ getstk \in stkfree /\ getstk \in Stacks
         /\ prstkbase' = [prstkbase EXCEPT ![pid] = getstk]
         /\ stkfree' = stkfree \ {getstk}
         /\ prcount' = prcount + 1
         /\ halted' = halted
         /\ prprio'[pid] = prio /\ ~prhasmsg'[pid]
         /\ \A p \in Pids \ {pid} :
               prprio'[p] = prprio[p] /\ MsgSame(p)
<1>1. getstk \in stkfree
  BY GreatestStack DEF getstk, OrderInv, RestTypes, LifeTypes
<1> HIDE DEF getstk
<1>2. /\ prprio' = [prprio EXCEPT ![pid] = prio]
      /\ prhasmsg' = [prhasmsg EXCEPT ![pid] = FALSE]
      /\ prstkbase' = [prstkbase EXCEPT ![pid] = getstk]
      /\ stkfree' = stkfree \ {getstk} /\ prcount' = prcount + 1
      /\ UNCHANGED <<prmsg, halted>>
  BY DEF NewEntry, TakeStack
<1>3. MsgTypes'
  BY <1>2 DEF OrderInv, RestTypes, MsgTypes
<1>4. LifeTypes'
  <2>1. prcount' \in Nat /\ prcount' >= 1
    BY <1>2 DEF OrderInv, RestTypes, LifeTypes
  <2>2. /\ prprio' \in [Pids -> Nat] /\ prstkbase' \in [Pids -> Stacks \cup {0}]
        /\ stkfree' \subseteq Stacks /\ halted' \in BOOLEAN
    BY <1>1, <1>2 DEF OrderInv, RestTypes, LifeTypes
  <2> QED
    BY <2>1, <2>2 DEF LifeTypes
<1> QED
  BY <1>1, <1>2, <1>3, <1>4 DEF RestTypes, MsgSame, OrderInv, MsgTypes, LifeTypes

\* create.
LEMMA createMoves ==
  ASSUME IInv, OrderInv, NEW prio \in Prios, create(prio)
  PROVE  KStep /\ \E pid \in Pids, stk \in Stacks : Born(pid, stk)
<1> USE Identifiers
<1> DEFINE pid == NewPid
           st == [prstate EXCEPT ![pid] = "SUSP"]
<1>1. /\ frame[currpid].at = "user" /\ ~TableFull /\ stkfree # {}
      /\ NewEntry(pid, prio, currpid)
      /\ prstate' = st
      /\ frame' = [frame EXCEPT ![pid] = UserFrame]
      /\ UNCHANGED <<queue, qkey, currpid, preempt>> /\ UNCHANGED deferVars
  BY DEF create, Caller, InUser
<1>2. pid \in Pids \ {NULLPROC, currpid} /\ prstate[pid] = "FREE"
  BY <1>1, NewPidIsFree
<1>3. IInv'
  BY createStep
<1> HIDE DEF pid
<1>4. prio \in Nat
  BY PrioAssumption
<1> DEFINE stk == getstk
<1> HIDE DEF stk
<1>13. /\ stk \in stkfree /\ stk \in Stacks /\ stkfree' = stkfree \ {stk}
       /\ prstkbase' = [prstkbase EXCEPT ![pid] = stk]
       /\ prcount' = prcount + 1
  BY <1>1, <1>2, <1>4, NewEntryIs DEF stk
<1>5. /\ RestTypes' /\ prprio'[pid] = prio /\ ~prhasmsg'[pid]
      /\ \A p \in Pids \ {pid} : prprio'[p] = prprio[p] /\ MsgSame(p)
  BY <1>1, <1>2, <1>4, NewEntryIs
<1>6. /\ st[pid] = "SUSP" /\ \A p \in Pids \ {pid} : st[p] = prstate[p]
      /\ frame'[pid] = UserFrame /\ \A p \in Pids \ {pid} : frame'[p] = frame[p]
  BY <1>1, <1>2 DEF IInv, StateTypes
<1> HIDE DEF st
<1>7. \A p \in Pids : PStep(p)
  <2>1. PStep(pid)
    BY <1>1, <1>2, <1>5, <1>6 DEF PStep, Admitted, UserFrame, Frame
  <2>2. \A p \in Pids \ {pid} : PStep(p)
    BY <1>1, <1>5, <1>6 DEF PStep, CarriesOn, Carries, FrameFit
  <2> QED
    BY <2>1, <2>2
<1>8. Scheduled(prstate', queue', prsem')
  BY <1>3, CurrentSchedulable DEF IInv, StateTypes, CurrInv, Agree, Scheduled
<1>9. ReadyList(queue', qkey', prprio')
  <2>1. ~Has(queue[readylist], pid)
    BY <1>2 DEF IInv, Agree, StateOn
  <2> QED
    BY <1>1, <1>5, <2>1 DEF OrderInv, ReadyList
<1>10. Top(prstate', prprio', currpid')
  <2>1. Top(prstate, prprio, currpid) /\ currpid \in Pids
    BY <1>1, OutsideLoops, TopWithoutDeferral, CurrentSchedulable DEF Loops
  <2> QED
    BY <1>1, <1>2, <1>5, <1>6, <2>1 DEF Top
<1>11. SliceTypes' /\ SleepKept(queue, qkey)
  BY <1>1 DEF OrderInv, SliceTypes, deferVars, SleepKept
<1>12. After(prstate', queue, qkey)
  BY <1>1, <1>8, <1>9, <1>10, <1>11 DEF After
<1>14. Born(pid, stk)
  BY <1>1, <1>2, <1>6, <1>13 DEF Born, OnlyLife
<1> QED
  BY <1>2, <1>5, <1>7, <1>12, <1>13, <1>14, StepFrom, StayMoves

\* The end of nulluser.
LEMMA bootMoves ==
  ASSUME IInv, OrderInv, BootInv, boot
  PROVE  KStep /\ \E pid \in Pids, stk \in Stacks : Born(pid, stk)
<1> USE Identifiers
<1> DEFINE pid == NewPid
           st == [prstate EXCEPT ![pid] = "READY"]
           qs == insert(queue, qkey, pid, readylist, InitPrio)
           ks == insertKey(qkey, pid, InitPrio)
<1>1. /\ frame[currpid].at = "boot"
      /\ NewEntry(pid, InitPrio, NULLPROC)
      /\ Resched(st, qs, ks)
      /\ frame' = [frame EXCEPT ![NULLPROC] = UserFrame]
      /\ UNCHANGED deferVars
  BY DEF boot, InFrame
<1>2. currpid = NULLPROC /\ ~TableFull
  BY <1>1 DEF IInv, FrameInv, FrameOK, Loops
<1>3. pid \in Pids \ {NULLPROC, currpid} /\ prstate[pid] = "FREE"
  BY <1>2, NewPidIsFree
<1>4. stkfree # {} /\ frame[pid] = UserFrame
  BY <1>1, <1>2, <1>3, ProcTabAssumption DEF BootInv, Stacks
<1> HIDE DEF pid
<1>5. InitPrio \in Nat
  BY PrioAssumption
<1> DEFINE stk == getstk
<1> HIDE DEF stk
<1>18. /\ stk \in stkfree /\ stk \in Stacks /\ stkfree' = stkfree \ {stk}
       /\ prstkbase' = [prstkbase EXCEPT ![pid] = stk]
       /\ prcount' = prcount + 1
  BY <1>1, <1>3, <1>4, <1>5, NewEntryIs DEF stk
<1>6. /\ RestTypes' /\ prprio'[pid] = InitPrio /\ ~prhasmsg'[pid]
      /\ \A p \in Pids \ {pid} : prprio'[p] = prprio[p] /\ MsgSame(p)
  BY <1>1, <1>3, <1>4, <1>5, NewEntryIs
<1>7. frame'[NULLPROC] = UserFrame /\ \A p \in Pids \ {NULLPROC} : frame'[p] = frame[p]
  BY <1>1 DEF IInv, StateTypes
<1>8. /\ prsem' = [prsem EXCEPT ![pid] = -1] /\ prprio' \in [Pids -> Nat]
  BY <1>1, <1>6 DEF NewEntry, RestTypes, LifeTypes
<1>9. \A q \in Qids : ~Has(queue[q], pid)
  BY <1>3 DEF IInv, Agree, StateOn
<1>10. Linked(qs, queue, Qids, Pids, readylist, pid)
  BY <1>3, <1>9, insertLists DEF IInv, Agree
<1>11. ReadyList(qs, ks, prprio')
  <2>1. queue \in [Qids -> Seq(Pids)]
    BY DEF IInv, Agree, Lists
  <2>2. \A p : Has(qs[readylist], p) <=> Has(queue[readylist], p) \/ p = pid
    BY <1>10 DEF Linked
  <2>3. ReadyList(insert(queue, qkey, pid, readylist, prprio'[pid]),
                  insertKey(qkey, pid, prprio'[pid]), prprio')
    BY <1>3, <1>6, <1>8, <1>9, <2>1, <2>2, InsertedReadyList DEF OrderInv
  <2> QED
    BY <1>6, <2>3
<1>12. Schedulable(st, qs, prsem') /\ \A s \in Sems : qs[s] = queue[s]
  <2>1. st = [prstate EXCEPT ![pid] = "READY"]
    OBVIOUS
  <2> HIDE DEF st, qs
  <2> QED
    BY <1>3, <1>8, <1>10, <2>1, AdmitReady
<1>13. /\ qs[sleepq] = queue[sleepq]
       /\ \A p \in Pids : Has(queue[sleepq], p) => ks[p] = qkey[p]
  BY <1>9, <1>10 DEF Linked, insertKey, OrderInv, ReadyList
<1>14. /\ st[pid] = "READY" /\ \A p \in Pids \ {pid} : st[p] = prstate[p]
  BY <1>3 DEF IInv, StateTypes
<1> HIDE DEF st, qs, ks
<1>15. After(st, qs, ks)
  <2>1. /\ preempt \in 1..QUANTUM /\ attempt' = attempt
        /\ ReschedSlice(st, qs, ks, preempt) /\ prprio'[currpid] = prprio[currpid]
    BY <1>1, <1>2, <1>3, <1>6 DEF OrderInv, SliceTypes, deferVars, Resched
  <2> QED
    BY <1>8, <1>11, <1>12, <2>1, ReschedAfter
<1>16. \A p \in Pids : PStep(p)
  <2>1. Scheduled(st, qs, prsem')
    BY <1>15 DEF After
  <2>2. PStep(pid)
    BY <1>3, <1>4, <1>6, <1>7, <1>14, <2>1
       DEF PStep, Admitted, Scheduled, Running, UserFrame, Frame
  <2>3. PStep(NULLPROC)
    BY <1>2, <1>3, <1>6, <1>7, <1>14, <2>1, CurrentSchedulable
       DEF PStep, CarriesOn, Carries, Scheduled, Running, FrameFit, UserFrame, Frame
  <2>4. \A p \in Pids \ {pid, NULLPROC} : PStep(p)
    BY <1>6, <1>7, <1>14, <2>1
       DEF PStep, CarriesOn, Carries, Scheduled, Running, FrameFit
  <2> QED
    BY <2>2, <2>3, <2>4
<1>17. (\A s \in Sems : QMove(s, qs[s])) /\ SleepMove(qs[sleepq], ks)
  BY <1>12, <1>13 DEF QMove, SleepMove
<1>19. Born(pid, stk)
  <2>1. Scheduled(st, qs, prsem')
    BY <1>15 DEF After
  <2>2. OnlyLife(pid) /\ prstate'[pid] # "FREE"
    BY <1>3, <1>14, <2>1 DEF OnlyLife, Scheduled, Running
  <2>3. \A p \in Pids \ {pid} : frame'[p].at = "kill" \/ frame[p].at = "kill"
                                   => frame'[p] = frame[p]
    BY <1>1, <1>2, <1>7 DEF UserFrame, Frame
  <2> QED
    BY <1>3, <1>4, <1>7, <1>18, <2>2, <2>3 DEF Born
<1> QED
  BY <1>3, <1>6, <1>15, <1>16, <1>17, <1>18, <1>19, StepFrom

\* kill, up to the message to the parent.
LEMMA killMoves ==
  ASSUME IInv, OrderInv, NEW pid \in Pids, kill(pid)
  PROVE  KStep /\ Attacks(pid)
<1> DEFINE f == Frame("kill", 0, 0, pid)
<1>1. /\ frame[currpid].at = "user" /\ ~halted
      /\ pid # NULLPROC /\ prstate[pid] # "FREE"
      /\ prcount' = prcount - 1
      /\ \/ prcount - 1 <= 1 /\ halted' = TRUE /\ UNCHANGED <<msgVars, schedVars, deferVars>>
         \/ prcount - 1 > 1 /\ halted' = halted /\ Send(prparent[pid], pid)
      /\ frame' = [frame EXCEPT ![currpid] = f]
      /\ UNCHANGED <<prsem, prprio>> /\ UNCHANGED stkVars
  <2>1. prcount \in Nat
    BY DEF OrderInv, RestTypes, LifeTypes
  <2> QED
    BY <2>1 DEF kill, Exempt, isbadpid, Caller, InUser, procVars, OneLess
<1>2. f.at = "kill"
  BY DEF Frame
<1> HIDE DEF f
<1>3. \A p \in Pids : FrameFit(p)
  BY <1>1, <1>2, FramesFit
<1>4. LifeTypes'
  <2>1. prcount \in Nat /\ prcount >= 1
    BY <1>1 DEF OrderInv, RestTypes, LifeTypes
  <2>2. prcount' \in Nat /\ (~halted' => prcount' >= 1)
    BY <1>1, <2>1
  <2>3. halted' \in BOOLEAN
    BY <1>1, Zenon DEF OrderInv, RestTypes, LifeTypes
  <2>4. /\ prprio' \in [Pids -> Nat] /\ prstkbase' \in [Pids -> Stacks \cup {0}]
        /\ stkfree' \subseteq Stacks
    BY <1>1 DEF OrderInv, RestTypes, LifeTypes, stkVars
  <2> QED
    BY <2>2, <2>3, <2>4 DEF LifeTypes
<1>7. ASSUME KStep, \A p \in Pids : prstate'[p] = "FREE" <=> prstate[p] = "FREE"
      PROVE  KStep /\ Attacks(pid)
  BY <1>1, <1>7 DEF Attacks, f
<1>5. CASE UNCHANGED <<msgVars, schedVars, deferVars>>
  <2>1. UNCHANGED <<prstate, queue, qkey, currpid, prsem, prprio>> /\ UNCHANGED deferVars
    BY <1>1, <1>5 DEF schedVars
  <2>2. SliceTypes' /\ RestTypes'
    BY <1>4, <1>5 DEF OrderInv, SliceTypes, RestTypes, MsgTypes, schedVars, deferVars, msgVars
  <2>3. \A p \in Pids : Carries(p) => PStep(p)
    BY <1>3, <1>5 DEF PStep, CarriesOn, MsgSame, msgVars
  <2> QED
    BY <1>7, <2>1, <2>2, <2>3, StayMovesOn
<1>6. CASE Send(prparent[pid], pid)
  <2>1. prparent[pid] \in Pids /\ pid \in Int
    BY DEF IInv, StateTypes, Pids
  <2>2. frame[currpid].at # "wakeup"
    BY <1>1
  <2> QED
    BY <1>1, <1>3, <1>4, <1>6, <1>7, <2>1, <2>2, SendMoves
<1> QED
  BY <1>1, <1>5, <1>6

\* A live process has a stack, and so has the one that a process is killing.
StackGiven ==
    /\ \A p \in Pids \ {NULLPROC} : prstate[p] # "FREE" => prstkbase[p] # 0
    /\ \A k \in Pids : frame[k].at = "kill" => prstkbase[frame[k].pid] # 0

\* A process that is on no list and does not run dies.
LEMMA DropMoves ==
  ASSUME IInv, IInv', OrderInv, NEW pid \in Pids, frame[currpid].at \notin Loops,
         prstate' = [prstate EXCEPT ![pid] = "FREE"],
         UNCHANGED <<queue, qkey, currpid, preempt, prsem, prprio>>, UNCHANGED deferVars,
         RestTypes', \A p \in Pids \ {pid} : Carries(p) => PStep(p),
         prstate'[pid] = "FREE" => PStep(pid)
  PROVE  /\ KStep
         /\ prstate'[pid] = "FREE"
         /\ \A p \in Pids \ {pid} : prstate'[p] = "FREE" <=> prstate[p] = "FREE"
<1>1. prstate'[pid] = "FREE" /\ \A p \in Pids \ {pid} : prstate'[p] = prstate[p]
  BY DEF IInv, StateTypes
<1>2. Scheduled(prstate', queue', prsem')
  BY CurrentSchedulable DEF IInv, StateTypes, CurrInv, Agree, Scheduled
<1>3. Top(prstate', prprio', currpid')
  BY <1>1, OutsideLoops, TopWithoutDeferral DEF Top
<1>4. After(prstate', queue, qkey)
  BY <1>2, <1>3 DEF After, OrderInv, SliceTypes, SleepKept, deferVars
<1>5. \A p \in Pids : PStep(p)
  BY <1>1 DEF Carries
<1> QED
  BY <1>1, <1>4, <1>5, StepFrom, StayMoves

\* The rest of kill.
LEMMA killResumedMoves ==
  ASSUME IInv, OrderInv, StackGiven, killResumed
  PROVE  KStep /\ \E pid \in Pids : Gone(pid)
<1> USE Identifiers
<1> DEFINE pid == frame[currpid].pid
           st == [prstate EXCEPT ![pid] = "FREE"]
<1>1. /\ frame[currpid].at = "kill"
      /\ stkfree' = stkfree \cup {prstkbase[pid]}
      /\ frame' = [frame EXCEPT ![currpid] = UserFrame]
      /\ UNCHANGED <<prsem, prprio, prcount, prstkbase, halted>>
      /\ UNCHANGED deferVars /\ UNCHANGED msgVars
  BY DEF killResumed, InFrame, Return, procVars, freestk
<1>2. pid \in Pids \ {NULLPROC} /\ frame[currpid].at \notin Loops
  BY <1>1, CurrentSchedulable DEF IInv, StateTypes, FrameType, FrameInv, FrameOK, Loops
<1>3. prstkbase[pid] \in Stacks
  BY <1>1, <1>2, CurrentSchedulable DEF StackGiven, OrderInv, RestTypes, LifeTypes
<1>4. IInv'
  BY killResumedStep
<1>5. \/ prstate[pid] = "CURR" /\ Resched(st, queue, qkey)
      \/ /\ prstate[pid] \in {"SLEEP", "RECTIM"}
         /\ prstate' = st /\ queue' = getitem(queue, pid)
         /\ qkey' = unsleepKey(queue, qkey, pid, sleepq)
         /\ UNCHANGED <<currpid, preempt>>
      \/ /\ prstate[pid] \in {"WAIT", "READY"}
         /\ prstate' = st /\ queue' = getitem(queue, pid)
         /\ UNCHANGED <<qkey, currpid, preempt>>
      \/ /\ prstate[pid] \in {"RECV", "SUSP", "FREE"}
         /\ prstate' = st
         /\ UNCHANGED <<queue, qkey, currpid, preempt>>
  BY DEF killResumed
<1>11. frame[currpid].pid = pid
  OBVIOUS
<1> HIDE DEF pid
<1>6. \A p \in Pids : MsgSame(p) /\ FrameFit(p)
  BY <1>1, FramesFit DEF MsgSame, msgVars, UserFrame, Frame
<1>7. RestTypes'
  BY <1>1, <1>3 DEF OrderInv, RestTypes, LifeTypes, MsgTypes, msgVars
<1>8. /\ \A p \in Pids \ {pid} : Carries(p) => PStep(p)
      /\ prstate'[pid] = "FREE" => PStep(pid)
  BY <1>2, <1>6 DEF PStep, CarriesOn, Dies
<1>9. UNCHANGED <<prsem, prprio>>
  BY <1>1
<1>10. /\ KStep
       /\ prstate'[pid] = "FREE"
       /\ \A p \in Pids \ {pid} : prstate'[p] = "FREE" <=> prstate[p] = "FREE"
  <2>1. CASE prstate[pid] = "CURR" /\ Resched(st, queue, qkey)
    <3>1. pid = currpid /\ currpid # NULLPROC
      BY <1>2, <2>1, CurrentSchedulable
    <3>2. /\ Resched([prstate EXCEPT ![currpid] = "FREE"], queue, qkey)
          /\ "FREE" \in {"RECV", "SUSP", "FREE"}
      BY <2>1, <3>1
    <3> QED
      BY <1>1, <1>7, <1>8, <1>9, <3>1, <3>2, BlockMoves
  <2>2. CASE /\ prstate[pid] \in {"SLEEP", "RECTIM"}
             /\ prstate' = st /\ queue' = getitem(queue, pid)
             /\ qkey' = unsleepKey(queue, qkey, pid, sleepq)
             /\ UNCHANGED <<currpid, preempt>>
    <3>1. StateOn(prstate[pid], prsem[pid], sleepq)
      BY <2>2 DEF StateOn
    <3>2. UNCHANGED <<currpid, preempt, prsem, prprio>>
      BY <1>1, <2>2
    <3> QED
      BY <1>1, <1>2, <1>7, <1>8, <2>2, <3>1, <3>2, LeaveMoves
  <2>3. CASE /\ prstate[pid] \in {"WAIT", "READY"}
             /\ prstate' = st /\ queue' = getitem(queue, pid)
             /\ UNCHANGED <<qkey, currpid, preempt>>
    <3>1. PICK q \in Sems \cup {readylist} : StateOn(prstate[pid], prsem[pid], q)
      BY <1>2, <2>3 DEF StateOn, IInv, WaitInv
    <3>2. UNCHANGED <<currpid, preempt, prsem, prprio>> /\ q # sleepq /\ q \in Qids
      BY <1>1, <2>3
    <3> QED
      BY <1>1, <1>2, <1>7, <1>8, <2>3, <3>1, <3>2, LeaveMoves
  <2>4. CASE /\ prstate[pid] \in {"RECV", "SUSP", "FREE"}
             /\ prstate' = st
             /\ UNCHANGED <<queue, qkey, currpid, preempt>>
    <3>1. UNCHANGED <<queue, qkey, currpid, preempt, prsem, prprio>>
      BY <1>1, <2>4
    <3> QED
      BY <1>1, <1>2, <1>4, <1>7, <1>8, <2>4, <3>1, DropMoves
  <2> QED
    BY <1>5, <2>1, <2>2, <2>3, <2>4
<1>12. Gone(pid)
  BY <1>1, <1>10, <1>11 DEF Gone, OnlyLife
<1> QED
  BY <1>2, <1>10, <1>12

----------------------------------------------------------------------------
\* Every step is of these kinds.

\* The types and the order of the processes, of every step but a stutter.
LEMMA NextMoves ==
  ASSUME IInv, OrderInv, BootInv, StackGiven, Next
  PROVE  (KStep /\ LifeStep) \/ UNCHANGED vars
<1>1. CASE SemaphoreCall
  <2>1. KStep /\ Calm
    BY <1>1, semcreateMoves, waitMoves, signalMoves, BeginMoves DEF SemaphoreCall
  <2> QED
    BY <2>1 DEF LifeStep
<1>2. CASE MessageCall
  <2>1. KStep /\ Calm
    BY <1>2, sendMoves, receiveMoves, recvtimeMoves, TakingMoves, MsgAssumption
       DEF MessageCall
  <2> QED
    BY <2>1 DEF LifeStep
<1>3. CASE TimeCall
  <2>1. KStep /\ Calm
    BY <1>3, yieldMoves, sleepmsMoves, ClockAssumption DEF TimeCall
  <2> QED
    BY <2>1 DEF LifeStep
<1>4. CASE ProcessCall
  BY <1>4, createMoves, createFullMoves, createRefusedMoves, resumeMoves, suspendMoves,
     chprioMoves, killMoves
     DEF ProcessCall, LifeStep
<1>5. CASE Continue
  BY <1>5, signalnLoopMoves, semresetLoopMoves, semdeleteLoopMoves, TakingMoves,
     wakeupMoves, clkhandlerResumedMoves, killResumedMoves, bootMoves DEF Continue, LifeStep
<1>6. CASE Tick
  BY <1>6, clkhandlerMoves DEF LifeStep, Tick
<1> QED
  BY <1>1, <1>2, <1>3, <1>4, <1>5, <1>6 DEF Next, Halted

\* Nothing happens before the system has booted.
LEMMA BootFirst ==
  ASSUME Next, frame[currpid].at = "boot"
  PROVE  boot \/ UNCHANGED vars
<1>1. ~Caller /\ ~InUser /\ \A at : InFrame(at) => at = "boot"
  BY DEF Caller, InUser, InFrame
<1>2. ~SemaphoreCall
  <2>1. /\ \A c : ~semcreate(c)
        /\ \A s : ~wait(s) /\ ~signal(s)
        /\ \A s, n : ~signaln(s, n) /\ ~semreset(s, n)
        /\ \A s : ~semdelete(s)
    BY <1>1 DEF semcreate, wait, signal, signaln, semreset, semdelete, EnterLoop
  <2> QED
    BY <2>1 DEF SemaphoreCall
<1>3. ~MessageCall
  BY <1>1 DEF MessageCall, send, receive, recvclr, recvtime
<1>4. ~TimeCall
  BY <1>1 DEF TimeCall, sleepms, yield
<1>5. ~ProcessCall
  BY <1>1 DEF ProcessCall, create, createFull, createRefused, resume, suspend, chprio, kill
<1>6. Continue => boot
  BY <1>1 DEF Continue, signalnLoop, semresetLoop, semdeleteLoop, receiveResumed,
              recvtimeResumed, wakeup, clkhandlerResumed, killResumed
<1>7. ~Tick
  BY <1>1 DEF Tick, clkhandler
<1> QED
  BY <1>2, <1>3, <1>4, <1>5, <1>6, <1>7 DEF Next, Halted

\* The programs stay what they are.
LEMMA ProgramKept ==
  ASSUME Next
  PROVE  program' = program
  BY DEF Next, SemaphoreCall, MessageCall, TimeCall, ProcessCall, Continue, Tick, Calling,
         Halted, vars

\* The boot frame is never entered again.
LEMMA BootOnce ==
  ASSUME IInv, BootInv, Next, KStep
  PROVE  BootInv'
<1>1. SUFFICES ASSUME frame'[currpid'].at = "boot", ~UNCHANGED vars
               PROVE  FALSE
  <2>1. UNCHANGED vars => BootInv'
    BY DEF BootInv, vars, schedVars, lifeVars, stkVars
  <2>2. (program \in Programs)'
    BY ProgramKept DEF BootInv
  <2> QED
    BY <2>1, <2>2 DEF BootInv
<1>2. \A p \in Pids : frame'[p].at = "boot" => frame[p].at = "boot"
  BY DEF KStep, PStep, CarriesOn, Takes, Gets, Released, Blocks, Awaits, Stopped,
         Dies, Admitted, FrameFit
<1>3. currpid' \in Pids
  <2>1. ASSUME IInv' PROVE currpid' \in Pids
    BY <2>1 DEF IInv, StateTypes
  <2> QED
    BY <2>1, NextIInv
<1>4. frame[currpid'].at = "boot"
  BY <1>1, <1>2, <1>3
<1>5. currpid' = currpid /\ currpid = NULLPROC
  BY <1>3, <1>4 DEF IInv, FrameInv, FrameOK, Loops
<1>6. boot
  BY <1>1, <1>4, <1>5, BootFirst
<1>7. frame'[NULLPROC] = UserFrame
  BY <1>6, Identifiers DEF boot, IInv, StateTypes
<1> QED
  BY <1>1, <1>5, <1>7 DEF UserFrame, Frame

\* No process loses its stack while it lives or is being killed.
LEMMA StackKept ==
  ASSUME IInv, LifeTypes, StackGiven, LifeStep
  PROVE  StackGiven'
<1>1. ASSUME \A p \in Pids : prstkbase[p] # 0 => prstkbase'[p] # 0,
             \A p \in Pids : prstate[p] = "FREE" /\ prstate'[p] # "FREE"
                                 => prstkbase'[p] # 0,
             \A p \in Pids : frame'[p].at = "kill" =>
                 frame'[p] = frame[p] \/ prstkbase[frame'[p].pid] # 0,
             \A p \in Pids : frame'[p].at = "kill" => frame'[p].pid \in Pids
      PROVE  StackGiven'
  BY <1>1 DEF StackGiven
<1>2. \A p \in Pids : frame[p].pid \in Pids
  BY DEF IInv, StateTypes, FrameType
<1>3. CASE Calm
  BY <1>1, <1>2, <1>3 DEF Calm, lifeVars, stkVars
<1>4. CASE StackLost
  BY <1>1, <1>2, <1>4 DEF StackLost
<1>5. ASSUME NEW pid \in Pids, NEW stk \in Stacks, Born(pid, stk)
      PROVE  StackGiven'
  <2>1. stk # 0
    BY DEF Stacks
  <2>2. prstkbase'[pid] = stk /\ \A p \in Pids \ {pid} : prstkbase'[p] = prstkbase[p]
    BY <1>5 DEF Born, LifeTypes
  <2> QED
    BY <1>1, <1>2, <1>5, <2>1, <2>2 DEF Born, OnlyLife, UserFrame, Frame
<1>6. ASSUME NEW pid \in Pids, Attacks(pid)
      PROVE  StackGiven'
  <2>1. prstkbase' = prstkbase /\ prstkbase[pid] # 0
    BY <1>6 DEF Attacks, stkVars, StackGiven
  <2>2. frame'[currpid].pid = pid /\ \A p \in Pids \ {currpid} : frame'[p] = frame[p]
    BY <1>6, CurrentSchedulable DEF Attacks, IInv, StateTypes, Frame
  <2> QED
    BY <1>1, <1>2, <1>6, <2>1, <2>2 DEF Attacks
<1>7. ASSUME NEW pid \in Pids, Gone(pid)
      PROVE  StackGiven'
  <2>1. frame'[currpid] = UserFrame /\ \A p \in Pids \ {currpid} : frame'[p] = frame[p]
    BY <1>7, CurrentSchedulable DEF Gone, IInv, StateTypes
  <2> QED
    BY <1>1, <1>2, <1>7, <2>1 DEF Gone, OnlyLife, UserFrame, Frame
<1> QED
  BY <1>3, <1>4, <1>5, <1>6, <1>7 DEF LifeStep

----------------------------------------------------------------------------
\* Messages: MessageInv, and that a process in the middle of receive waits for
\* nothing else.
MsgInv ==
    /\ MessageInv
    /\ \A p \in Pids : frame[p].at = "receive" =>
          prstate[p] \notin {"WAIT", "SLEEP", "RECTIM"}

\* Every kind of step keeps it.
LEMMA MsgInvKept ==
  ASSUME IInv, MsgInv, \A p \in Pids : PStep(p)
  PROVE  MsgInv'
<1> DEFINE M(p) ==
             /\ prstate[p] \in {"RECV", "RECTIM"} => ~prhasmsg[p]
             /\ (prstate[p] \in {"CURR", "READY", "SUSP"} /\ frame[p].at = "receive")
                   => prhasmsg[p]
             /\ frame[p].at = "receive" => prstate[p] \notin {"WAIT", "SLEEP", "RECTIM"}
<1>1. ASSUME NEW p \in Pids PROVE M(p)'
  <2>1. M(p)
    BY DEF MsgInv, MessageInv
  <2>2. CASE CarriesOn(p)
    BY <2>1, <2>2 DEF CarriesOn, Carries, MsgSame, FrameFit, Running
  <2>3. CASE Takes(p)
    BY <2>1, <2>3, CurrentSchedulable DEF Takes, Carries, Running
  <2>4. CASE Gets(p)
    BY <2>1, <2>4 DEF Gets, Carries, FrameFit, Running
  <2>5. CASE Released(p)
    BY <2>1, <2>5 DEF Released, MsgSame, FrameFit, Running
  <2>6. CASE Blocks(p)
    BY <2>1, <2>6 DEF Blocks, MsgSame
  <2>7. CASE Awaits(p)
    BY <2>1, <2>7 DEF Awaits, MsgSame
  <2>8. CASE Stopped(p)
    BY <2>1, <2>8 DEF Stopped, MsgSame, FrameFit, Running
  <2>9. CASE Dies(p)
    BY <2>9 DEF Dies
  <2>10. CASE Admitted(p)
    BY <2>10 DEF Admitted, Running
  <2> QED
    BY <2>2, <2>3, <2>4, <2>5, <2>6, <2>7, <2>8, <2>9, <2>10 DEF PStep
<1>2. \A p \in Pids : M(p)'
  BY <1>1
<1> QED
  BY <1>2 DEF MsgInv, MessageInv

----------------------------------------------------------------------------
\* The invariant of all of this.
KInv == IInv /\ OrderInv /\ BootInv /\ StackGiven /\ MsgInv

\* The state sysinit leaves satisfies it.
LEMMA InitKInv == Init => KInv
<1> SUFFICES ASSUME Init PROVE KInv
  OBVIOUS
<1> USE ProcTabAssumption, Identifiers DEF Init
<1>1. IInv
  BY InitIInv
<1>2. RestTypes /\ SliceTypes
  <2>1. prhasmsg \in [Pids -> BOOLEAN] /\ halted \in BOOLEAN /\ attempt \in BOOLEAN
    BY Zenon
  <2>2. /\ prmsg \in [Pids -> Int] /\ prprio \in [Pids -> Nat] /\ prcount \in Nat
        /\ prcount >= 1 /\ prstkbase \in [Pids -> Stacks \cup {0}]
        /\ stkfree \subseteq Stacks /\ preempt \in 1..QUANTUM
    OBVIOUS
  <2> QED
    BY ONLY <2>1, <2>2 DEF RestTypes, MsgTypes, LifeTypes, SliceTypes
<1>3. ReadyList(queue, qkey, prprio)
  <2>1. queue[readylist] = << >> /\ Len(<< >>) = 0
    OBVIOUS
  <2> QED
    BY <2>1 DEF ReadyList, Ordered, Has
<1>4. TopInv
  BY DEF TopInv, Top
<1>5. BootInv /\ StackGiven
  BY DEF BootInv, StackGiven, Frame, UserFrame
<1>6. MsgInv
  BY DEF MsgInv, MessageInv, Frame, UserFrame
<1> QED
  BY <1>1, <1>2, <1>3, <1>4, <1>5, <1>6 DEF KInv, OrderInv

\* Stuttering keeps it.
LEMMA KInvStutters ==
  ASSUME KInv, UNCHANGED vars
  PROVE  KInv'
<1> USE DEF vars, schedVars, deferVars, semVars, msgVars, procVars, lifeVars, stkVars
<1>1. IInv'
  BY Stuttering DEF KInv
<1>2. OrderInv'
  BY DEF KInv, OrderInv, RestTypes, MsgTypes, LifeTypes, SliceTypes, ReadyList, TopInv, Top
<1>3. BootInv' /\ StackGiven'
  BY DEF KInv, BootInv, StackGiven
<1>4. MsgInv'
  BY DEF KInv, MsgInv, MessageInv
<1> QED
  BY <1>1, <1>2, <1>3, <1>4 DEF KInv

\* Every step keeps it, and is of one of the kinds above or a stutter.
LEMMA NextKInv ==
  ASSUME KInv, [Next]_vars
  PROVE  /\ KInv'
         /\ (KStep /\ LifeStep) \/ UNCHANGED vars
<1>1. CASE UNCHANGED vars
  BY <1>1, KInvStutters
<1>2. CASE Next /\ KStep /\ LifeStep
  <2>1. IInv' /\ OrderInv'
    BY <1>2, NextIInv DEF KInv, KStep
  <2>2. BootInv'
    BY <1>2, BootOnce DEF KInv
  <2>3. StackGiven'
    BY <1>2, StackKept DEF KInv, OrderInv, RestTypes
  <2>4. MsgInv'
    BY <1>2, MsgInvKept DEF KInv, KStep
  <2> QED
    BY <1>2, <2>1, <2>2, <2>3, <2>4 DEF KInv
<1> QED
  BY <1>1, <1>2, NextMoves DEF KInv

\* The invariant holds in every state the kernel reaches.
THEOREM KernelInvariance == Spec => []KInv
  BY InitKInv, NextKInv, PTL DEF Spec

\* No entry of proctab, semtab or queuetab ever leaves its type; the time slice,
\* an unsigned counter, never runs below one, so that clkhandler's decrement
\* never wraps and disables preemption.
THEOREM TypeCorrect == Spec => []TypeOK
<1>1. KInv => TypeOK
  <2> SUFFICES ASSUME KInv PROVE TypeOK
    OBVIOUS
  <2>1. ndefers \in 0..1
    BY DEF KInv, IInv, FrameInv
  <2>2. queue \in [Qids -> Seq(Pids)] /\ qkey \in [Pids -> Int]
    BY DEF KInv, IInv, Agree, Lists, OrderInv, ReadyList
  <2>3. /\ MsgTypes /\ LifeTypes /\ SliceTypes /\ StateTypes
        /\ program \in Programs
    BY DEF KInv, IInv, OrderInv, RestTypes, BootInv
  <2> QED
    BY <2>1, <2>2, <2>3, Zenon
       DEF TypeOK, MsgTypes, LifeTypes, SliceTypes, StateTypes, FrameType
<1> QED
  BY <1>1, KernelInvariance, PTL

\* The ready list stays in descending order of keys, as insert and resched
\* expect, also when priorities change under it.
THEOREM ReadyStaysSorted == Spec => []ReadySorted
<1>1. KInv => ReadySorted
  BY DEF KInv, OrderInv, ReadyList, Ordered, ReadySorted
<1> QED
  BY <1>1, KernelInvariance, PTL

\* send never loses a wakeup: nobody is blocked for a message while holding one,
\* and receive, which does not look again after resched, finds a message.
THEOREM NoLostWakeup == Spec => []MessageInv
<1>1. KInv => MessageInv
  BY DEF KInv, MsgInv
<1> QED
  BY <1>1, KernelInvariance, PTL

\* resched and ready keep the promise that a highest-priority eligible process
\* runs, also after deferral, if no program calls chprio.
THEOREM HighestRuns == ASSUME FixedPrios PROVE Spec => []HighestPriorityRuns
<1>1. KInv => HighestPriorityRuns
  <2> SUFFICES ASSUME KInv, InUser PROVE \A p \in Pids : prstate[p] = "READY"
                                                   => prprio[p] <= prprio[currpid]
    BY DEF HighestPriorityRuns
  <2>1. Top(prstate, prprio, currpid)
    BY OutsideLoops, TopWithoutDeferral DEF KInv, InUser, Loops
  <2> QED
    BY <2>1 DEF Top
<1> QED
  BY <1>1, KernelInvariance, PTL

\* A step that is not a stutter is of the kinds above.
LEMMA StepKinds ==
  ASSUME KInv, [Next]_vars, ~UNCHANGED vars
  PROVE  KStep /\ LifeStep
  BY NextKInv

\* A message that has been sent is not overwritten or dropped before its process
\* takes it, whatever else is sent meanwhile.
THEOREM MessagesKept == Spec => MessageKept
<1>1. ASSUME KInv, [Next]_vars
      PROVE  [\A p \in Pids : prhasmsg[p] /\ prstate[p] # "FREE" =>
                 \/ prhasmsg'[p] /\ prmsg'[p] = prmsg[p]
                 \/ p = currpid /\ ~prhasmsg'[p]]_vars
  <2>1. SUFFICES ASSUME ~UNCHANGED vars, NEW p \in Pids, prhasmsg[p], prstate[p] # "FREE"
                 PROVE  \/ prhasmsg'[p] /\ prmsg'[p] = prmsg[p]
                        \/ p = currpid /\ ~prhasmsg'[p]
    OBVIOUS
  <2>2. PStep(p)
    BY <1>1, <2>1, StepKinds DEF KStep
  <2> QED
    BY <2>1, <2>2 DEF PStep, CarriesOn, Takes, Gets, Released, Blocks, Awaits, Stopped,
                      Dies, Admitted, MsgSame
<1> QED
  BY <1>1, KernelInvariance, PTL DEF Spec, MessageKept

----------------------------------------------------------------------------
\* The order of those who wait.

\* Each move of a semaphore's queue keeps the order of those who stay, unless
\* the later of the two is killed, and lets nobody in but at the end.
LEMMA QueueMoves ==
  ASSUME IInv, NEW s \in Sems, QMove(s, queue'[s]), NEW p \in Pids, NEW q \in Pids
  PROVE  /\ Has(queue[s], p) /\ ~Has(queue[s], q) /\ Has(queue'[s], q)
               => Ahead(queue'[s], p, q)
         /\ Ahead(queue[s], p, q) /\ Has(queue'[s], p)
               => Ahead(queue'[s], p, q) \/ prstate'[q] = "FREE"
<1> DEFINE c == queue[s]
           d == queue'[s]
<1>1. c \in Seq(Pids) /\ Distinct(c) /\ currpid \in Pids
  BY Identifiers, CurrentSchedulable DEF IInv, Agree, Lists
<1>2. \/ d = c
      \/ d = Append(c, currpid)
      \/ c # << >> /\ d = Tail(c)
      \/ \E i \in 1..Len(c) : d = RemoveAt(c, i) /\ prstate'[c[i]] = "FREE"
  BY DEF QMove
<1> HIDE DEF c, d
<1>3. CASE d = c
  BY <1>3 DEF c, d
<1>4. CASE d = Append(c, currpid)
  <2>1. /\ Ahead(c, p, q) => Ahead(Append(c, currpid), p, q)
        /\ Has(c, p) => Ahead(Append(c, currpid), p, currpid)
    BY <1>1, AppendAhead
  <2>2. Has(Append(c, currpid), q) => Has(c, q) \/ q = currpid
    BY <1>1, AppendMembers
  <2> QED
    BY <1>4, <2>1, <2>2 DEF c, d
<1>5. CASE c # << >> /\ d = Tail(c)
  <2>1. Ahead(c, p, q) /\ p # Head(c) => Ahead(Tail(c), p, q)
    BY <1>1, <1>5, TailOrdered
  <2>2. \A r : Has(Tail(c), r) => Has(c, r) /\ r # Head(c)
    BY <1>1, <1>5, TailMembers
  <2> QED
    BY <1>5, <2>1, <2>2 DEF c, d
<1>6. ASSUME NEW i \in 1..Len(c), d = RemoveAt(c, i), prstate'[c[i]] = "FREE"
      PROVE  /\ Has(c, p) /\ ~Has(c, q) /\ Has(d, q) => Ahead(d, p, q)
             /\ Ahead(c, p, q) /\ Has(d, p) => Ahead(d, p, q) \/ prstate'[q] = "FREE"
  <2>1. Ahead(c, p, q) /\ p # c[i] /\ q # c[i] => Ahead(RemoveAt(c, i), p, q)
    BY <1>1, RemoveOrdered
  <2>2. \A r : Has(RemoveAt(c, i), r) => Has(c, r) /\ r # c[i]
    BY <1>1, RemoveMembers
  <2> QED
    BY <1>6, <2>1, <2>2
<1> QED
  BY <1>2, <1>3, <1>4, <1>5, <1>6 DEF c, d

\* Processes waiting for a semaphore are released first come first served, also
\* across the loops that release several of them and the kill of one.
THEOREM FirstServed == Spec => FirstComeFirstServed
<1> DEFINE Fair(s, p, q) ==
             /\ Waiting(p, s) /\ ~Waiting(q, s) =>
                   (Waiting(p, s)' /\ Waiting(q, s)' => Before(p, q, s)')
             /\ Before(p, q, s) /\ Waiting(p, s)' =>
                   Before(p, q, s)' \/ prstate'[q] = "FREE"
<1>1. ASSUME KInv, KInv', [Next]_vars
      PROVE  [\A s \in Sems : \A p, q \in Pids : Fair(s, p, q)]_vars
  <2>1. SUFFICES ASSUME ~UNCHANGED vars, NEW s \in Sems, NEW p \in Pids, NEW q \in Pids
                 PROVE  Fair(s, p, q)
    OBVIOUS
  <2>2. IInv /\ QMove(s, queue'[s])
    BY <1>1, <2>1, StepKinds DEF KStep, KInv
  <2>3. /\ Has(queue[s], p) /\ ~Has(queue[s], q) /\ Has(queue'[s], q)
              => Ahead(queue'[s], p, q)
        /\ Ahead(queue[s], p, q) /\ Has(queue'[s], p)
              => Ahead(queue'[s], p, q) \/ prstate'[q] = "FREE"
    BY <2>2, QueueMoves
  <2>4. queue[s] \in Seq(Pids) /\ queue'[s] \in Seq(Pids)
    BY <1>1, Identifiers DEF KInv, IInv, Agree, Lists
  <2>5. \A c \in Seq(Pids) : \A r : r \in Range(c) <=> Has(c, r)
    BY DEF Range, Has
  <2>6. /\ \A r : (Waiting(r, s) <=> Has(queue[s], r)) /\ (Waiting(r, s)' <=> Has(queue'[s], r))
        /\ Before(p, q, s) <=> Ahead(queue[s], p, q)
        /\ Before(p, q, s)' <=> Ahead(queue'[s], p, q)
    BY <2>4, <2>5 DEF Waiting, Before, Ahead
  <2> HIDE DEF Waiting, Before
  <2> QED
    BY <2>3, <2>6
<1> QED
  BY <1>1, KernelInvariance, PTL DEF Spec, FirstComeFirstServed

----------------------------------------------------------------------------
\* Delays.

\* The first sleeper, when it is due, has no ticks left.
LEMMA HeadIsDue ==
  ASSUME IInv, OrderInv, Due(qkey)
  PROVE  TicksLeft(Head(queue[sleepq])) = 0
<1> DEFINE s == queue[sleepq]
           p == Head(s)
           k == qkey[p]
           i == CHOOSE j \in 1..Len(s) : s[j] = p
<1>1. s \in Seq(Pids) /\ Distinct(s) /\ s # << >> /\ k <= 0
  BY Identifiers DEF IInv, Agree, Lists, Due, firstkey
<1>2. p = s[1] /\ 1 \in 1..Len(s) /\ p \in Pids
  BY <1>1, HeadTailProperties, EmptySeq, ElementOfSeq
<1>3. k \in Int
  BY <1>2 DEF OrderInv, ReadyList
<1>4. i = 1
  BY <1>1, <1>2 DEF Distinct
<1>5. Elapsed(s, qkey, 1) = k
  <2>1. \A j \in 1..1 : qkey[s[j]] \in Int
    BY <1>2, <1>3
  <2>2. \A j \in 1..0 : qkey[s[j]] \in Int
    OBVIOUS
  <2>3. Elapsed(s, qkey, 1) = Elapsed(s, qkey, 1 - 1) + qkey[s[1]]
    BY <2>1, ElapsedSteps
  <2>4. Elapsed(s, qkey, 0) = 0
    BY <2>2, ElapsedSteps
  <2> QED
    BY <1>2, <1>3, <2>3, <2>4
<1>6. Min({k, 0}) = k
  BY <1>1, <1>3 DEF Min
<1>7. TicksLeft(p) = Elapsed(s, qkey, i) - Min({k, 0})
  BY DEF TicksLeft
<1> HIDE DEF s, p, k, i
<1> QED
  BY <1>3, <1>4, <1>5, <1>6, <1>7 DEF p, s

\* No sleeper is released before its delay is over, unless it was waiting with
\* a timeout and got a message, or is killed.
THEOREM NobodyEarly == Spec => NeverEarly
<1> DEFINE Early(p) ==
             Sleeping(p) /\ ~Sleeping(p)' =>
                \/ TicksLeft(p) <= 0
                \/ prstate[p] = "RECTIM" /\ prhasmsg'[p]
                \/ prstate'[p] = "FREE"
<1>1. ASSUME KInv, [Next]_vars
      PROVE  [\A p \in Pids : Early(p)]_vars
  <2>1. SUFFICES ASSUME ~UNCHANGED vars, NEW p \in Pids, Sleeping(p), ~Sleeping(p)'
                 PROVE  \/ TicksLeft(p) <= 0
                        \/ prstate[p] = "RECTIM" /\ prhasmsg'[p]
                        \/ prstate'[p] = "FREE"
    OBVIOUS
  <2>2. PStep(p) /\ prstate[currpid] = "CURR"
    BY <1>1, <2>1, StepKinds, CurrentSchedulable DEF KStep, KInv
  <2>3. CASE Released(p)
    <3>1. Due(qkey) /\ p = Head(queue[sleepq])
      BY <2>1, <2>3 DEF Released, Sleeping
    <3>2. TicksLeft(p) = 0
      BY <1>1, <3>1, HeadIsDue DEF KInv
    <3> QED
      BY <3>2
  <2>4. CASE ~Released(p)
    BY <2>1, <2>2, <2>4 DEF Sleeping, PStep, CarriesOn, Takes, Gets, Blocks, Awaits,
                            Stopped, Dies, Admitted, Carries, Running
  <2> QED
    BY <2>3, <2>4
<1> QED
  BY <1>1, KernelInvariance, PTL DEF Spec, NeverEarly

----------------------------------------------------------------------------
\* The count of processes and their stacks, as long as no process is killed that
\* is being killed or is killing another one.

Counted == {p \in Live : Killers(p) = {}}

\* No live process but the null process is without a stack of its own.
OwnStacks ==
    /\ prstkbase[NULLPROC] = 0
    /\ \A p \in Live \ {NULLPROC} :
          /\ prstkbase[p] \notin stkfree
          /\ \A r \in Live \ {p} : prstkbase[r] # prstkbase[p]

LifeInv == prcount = Cardinality(Counted) /\ OwnStacks

\* The processes that are counted are finitely many.
LEMMA CountedFinite == IsFiniteSet(Counted)
<1>1. IsFiniteSet(Pids)
  BY ProcTabAssumption, FS_Interval DEF Pids
<1>2. Counted \subseteq Pids
  BY DEF Counted, Live
<1> QED
  BY <1>1, <1>2, FS_Subset

\* A step in which nobody is born or dies and that changes no frame of kill
\* counts the same processes.
LEMMA SameCounted ==
  ASSUME \A p \in Pids : prstate'[p] = "FREE" <=> prstate[p] = "FREE",
         \A p \in Pids : frame'[p].at = "kill" \/ frame[p].at = "kill"
                            => frame'[p] = frame[p]
  PROVE  Live' = Live /\ Counted' = Counted /\ \A p : Killers(p)' = Killers(p)
<1>1. Live' = Live
  BY DEF Live
<1>2. \A p : Killers(p)' = Killers(p)
  BY <1>1 DEF Killers, Live
<1> QED
  BY <1>1, <1>2 DEF Counted

\* A process that is born is counted and has a stack of its own.
LEMMA BornCounted ==
  ASSUME KInv, LifeInv, KillsApart, NEW pid \in Pids, NEW stk \in Stacks, Born(pid, stk)
  PROVE  LifeInv'
<1>1. /\ Live' = Live \cup {pid} /\ pid \notin Live /\ pid \in Pids
      /\ \A p \in Live : frame'[p].at = "kill" \/ frame[p].at = "kill"
                            => frame'[p] = frame[p]
      /\ frame'[pid].at = "user"
  BY DEF Live, Born, OnlyLife, UserFrame, Frame
<1>2. \A p : Killers(p)' = Killers(p)
  BY <1>1 DEF Killers
<1>3. Killers(pid) = {}
  BY <1>1 DEF Killers, KillsApart, Live
<1>4. Counted' = Counted \cup {pid} /\ pid \notin Counted
  BY <1>1, <1>2, <1>3 DEF Counted
<1>5. Cardinality(Counted') = Cardinality(Counted) + 1
  BY <1>4, CountedFinite, FS_AddElement
<1>6. prcount' = prcount + 1
  BY DEF Born
<1>7. /\ prstkbase'[pid] = stk /\ \A p \in Pids \ {pid} : prstkbase'[p] = prstkbase[p]
      /\ stkfree' = stkfree \ {stk} /\ stk \in stkfree /\ pid # NULLPROC /\ stk # 0
  BY DEF Born, KInv, OrderInv, RestTypes, LifeTypes, Stacks
<1>8. Live \subseteq Pids
  BY DEF Live
<1>9. OwnStacks'
  <2>1. \A p \in Live : prstkbase[p] # stk
    BY <1>7 DEF LifeInv, OwnStacks
  <2> QED
    BY <1>1, <1>7, <1>8, <2>1, Identifiers DEF LifeInv, OwnStacks
<1> QED
  BY <1>5, <1>6, <1>9 DEF LifeInv

\* A process that another one begins to kill is counted no more.
LEMMA AttackedCounted ==
  ASSUME KInv, LifeInv, KillsApart', NEW pid \in Pids, Attacks(pid)
  PROVE  LifeInv'
<1>1. Live' = Live /\ pid \in Live /\ currpid \in Live /\ currpid \in Pids
  BY CurrentSchedulable DEF Live, Attacks, KInv
<1>2. /\ frame'[currpid].at = "kill" /\ frame'[currpid].pid = pid
      /\ frame[currpid].at = "user"
      /\ \A p \in Pids \ {currpid} : frame'[p] = frame[p]
  BY <1>1 DEF Attacks, KInv, IInv, StateTypes, Frame
<1>3. /\ \A p : p # pid => Killers(p)' = Killers(p)
      /\ Killers(pid)' = Killers(pid) \cup {currpid} /\ currpid \notin Killers(pid)
  BY <1>1, <1>2 DEF Killers, Live
<1>4. Killers(pid)' = {currpid}
  BY <1>1, <1>2 DEF KillsApart
<1>5. Killers(pid) = {}
  BY <1>3, <1>4
<1>6. Counted' = Counted \ {pid} /\ pid \in Counted
  BY <1>1, <1>3, <1>4, <1>5 DEF Counted
<1>7. Cardinality(Counted') = Cardinality(Counted) - 1
  BY <1>6, CountedFinite, FS_RemoveElement
<1> QED
  BY <1>1, <1>7 DEF LifeInv, OwnStacks, Attacks, stkVars

\* A process that is gone leaves the count as it was and its stack to others.
LEMMA GoneCounted ==
  ASSUME KInv, LifeInv, KillsApart, NEW pid \in Pids, Gone(pid)
  PROVE  LifeInv'
<1>1. Live' = Live \ {pid} /\ currpid \in Live /\ Live \subseteq Pids
  BY CurrentSchedulable DEF Live, Gone, OnlyLife, KInv
<1>2. /\ frame'[currpid].at = "user"
      /\ frame[currpid].at = "kill" /\ frame[currpid].pid = pid
      /\ \A p \in Pids \ {currpid} : frame'[p] = frame[p]
  BY <1>1 DEF Gone, KInv, IInv, StateTypes, Frame, UserFrame
<1>3. /\ Killers(pid) = {currpid} /\ pid \in Live /\ (pid # currpid => Killers(currpid) = {})
  BY <1>1, <1>2 DEF KillsApart, Live
<1>4. \A p \in Live \ {pid} : Killers(p)' = Killers(p)
  <2>1. SUFFICES ASSUME NEW p \in Live \ {pid}
                 PROVE  Killers(p)' = Killers(p)
    OBVIOUS
  <2>2. pid \notin Killers(p)
    <3>1. SUFFICES ASSUME pid \in Killers(p) PROVE FALSE
      OBVIOUS
    <3>2. frame[pid].at = "kill" /\ frame[pid].pid = p
      BY <3>1 DEF Killers
    <3>3. Killers(pid) = {}
      BY <1>3, <2>1, <3>2 DEF KillsApart
    <3> QED
      BY <1>3, <3>3
  <2>3. currpid \notin Killers(p)
    BY <1>2, <2>1 DEF Killers
  <2>4. \A k : k \in Killers(p)' <=> k \in Live /\ k # pid /\ frame'[k].at = "kill"
                                       /\ frame'[k].pid = p
    BY <1>1 DEF Killers
  <2>5. \A k \in Live \ {pid, currpid} : frame'[k] = frame[k]
    BY <1>1, <1>2
  <2> QED
    BY <1>1, <1>2, <2>2, <2>3, <2>4, <2>5 DEF Killers
<1>5. Counted' = Counted
  BY <1>1, <1>3, <1>4 DEF Counted
<1>6. OwnStacks'
  <2>1. prstkbase' = prstkbase /\ stkfree' = stkfree \cup {prstkbase[pid]} /\ pid # NULLPROC
    BY <1>2, CurrentSchedulable DEF Gone, KInv, IInv, FrameInv, FrameOK, Loops
  <2> QED
    BY <1>1, <1>3, <2>1 DEF LifeInv, OwnStacks
<1> QED
  BY <1>5, <1>6 DEF LifeInv, Gone

\* Every step keeps the count and the stacks.
LEMMA LifeKept ==
  ASSUME KInv, LifeInv, KillsApart, KillsApart', [Next]_vars
  PROVE  LifeInv'
<1>1. CASE UNCHANGED vars
  BY <1>1 DEF vars, schedVars, lifeVars, stkVars, LifeInv, Counted, Killers, Live, OwnStacks
<1>2. CASE Calm
  <2>1. Live' = Live /\ Counted' = Counted
    BY <1>2, SameCounted DEF Calm
  <2> QED
    BY <1>2, <2>1 DEF Calm, LifeInv, OwnStacks, lifeVars, stkVars
<1>3. CASE StackLost
  <2>1. Live' = Live /\ Counted' = Counted
    BY <1>3, SameCounted DEF StackLost
  <2> QED
    BY <1>3, <2>1 DEF StackLost, LifeInv, OwnStacks
<1> QED
  BY <1>1, <1>2, <1>3, NextKInv, BornCounted, AttackedCounted, GoneCounted DEF LifeStep

\* The state sysinit leaves: the null process, on a stack of its own.
LEMMA InitLife == Init => LifeInv
<1> SUFFICES ASSUME Init PROVE LifeInv
  OBVIOUS
<1>1. Live = {NULLPROC}
  BY Identifiers DEF Init, Live
<1>2. Counted = {NULLPROC}
  BY <1>1, Identifiers DEF Init, Counted, Killers, Frame
<1> QED
  BY <1>1, <1>2, Identifiers, FS_Singleton DEF Init, LifeInv, OwnStacks

\* prcount is the number of live processes, those being killed not counted, also
\* while a parent runs in the middle of kill, as long as kills keep apart.
THEOREM CountExact == Spec /\ []KillsApart => []PrcountExact
<1>1. LifeInv => PrcountExact
  BY DEF LifeInv, PrcountExact, Counted
<1> QED
  BY <1>1, InitLife, LifeKept, KernelInvariance, PTL DEF Spec

\* No live process runs on a stack that is free or that another one has, as long
\* as kills keep apart.
THEOREM StacksOwned == Spec /\ []KillsApart => []StackOwned
<1>1. LifeInv => StackOwned
  BY DEF LifeInv, StackOwned, OwnStacks
<1> QED
  BY <1>1, InitLife, LifeKept, KernelInvariance, PTL DEF Spec

----------------------------------------------------------------------------
\* The delays of sleepers.

\* No sleeper but the first is ever overdue, and the first one only inside
\* wakeup's loop.
SleepInv ==
    LET s == queue[sleepq] IN
    /\ \A j \in 2..Len(s) : qkey[s[j]] >= 0
    /\ frame[currpid].at # "wakeup" => \A j \in 1..Len(s) : qkey[s[j]] >= 0

\* The keys of list t are not negative, and what each sleeper of s that is still on
\* t has left is what it had.
Undisturbed(t, kt) ==
    /\ \A j \in 1..Len(t) : kt[t[j]] >= 0
    /\ \A p : Has(queue[sleepq], p) /\ Has(t, p) =>
          Left(t, kt, p) = Left(queue[sleepq], qkey, p)

\* The sleep queue is a list without repetition, and the keys are integers.
LEMMA SleepTypes ==
  ASSUME IInv, OrderInv
  PROVE  /\ queue[sleepq] \in Seq(Pids) /\ Distinct(queue[sleepq])
         /\ qkey \in [Pids -> Int] /\ IntKeys(queue[sleepq], qkey, Len(queue[sleepq]))
<1>1. /\ queue[sleepq] \in Seq(Pids) /\ Distinct(queue[sleepq])
      /\ qkey \in [Pids -> Int]
  BY Identifiers DEF IInv, Agree, Lists, OrderInv, ReadyList
<1> QED
  BY <1>1, KeysAreInt

\* Keys that stay as they are on a list keep the delays.
LEMMA SameDelays ==
  ASSUME NEW s, NEW ks, NEW kt, Distinct(s), IntKeys(s, ks, Len(s)),
         \A j \in 1..Len(s) : kt[s[j]] = ks[s[j]]
  PROVE  \A p : Has(s, p) => Left(s, kt, p) = Left(s, ks, p)
<1> DEFINE n == Len(s)
           a == 0
           c == 0
<1>1. IntKeys(s, ks, n) /\ IntKeys(s, kt, n) /\ n \in Nat
  BY DEF IntKeys
<1>2. \A j \in 1..n : kt[s[j]] = ks[s[j]]
  OBVIOUS
<1>3. Elapsed(s, kt, 0) = 0 /\ Elapsed(s, ks, 0) = 0
  BY <1>1, ElapsedOf
<1>4. Alike(s, ks, s, kt, a, n) /\ Elapsed(s, kt, a) = Elapsed(s, ks, a) + c /\ c \in Int
  BY <1>1, <1>2, <1>3 DEF Alike
<1>5. \A j \in a..n : Elapsed(s, kt, j) = Elapsed(s, ks, j) + c
  <2> HIDE DEF a, c, n
  <2> QED
    BY ONLY <1>4, ElapsedAlike
<1>6. \A j \in 0..n : Elapsed(s, ks, j) \in Int
  BY <1>1, ElapsedOf
<1>7. \A j \in 0..n : Elapsed(s, kt, j) = Elapsed(s, ks, j)
  BY <1>5, <1>6
<1>8. ASSUME NEW j \in 1..n
      PROVE  Left(s, kt, s[j]) = Left(s, ks, s[j])
  <2>1. /\ Left(s, ks, s[j]) = Elapsed(s, ks, j) - IF ks[s[1]] <= 0 THEN ks[s[1]] ELSE 0
        /\ 1 \in 1..n
    BY <1>1, LeftAt
  <2>2. Left(s, kt, s[j]) = Elapsed(s, kt, j) - IF kt[s[1]] <= 0 THEN kt[s[1]] ELSE 0
    BY <1>1, LeftAt
  <2>3. j \in 0..n /\ kt[s[1]] = ks[s[1]]
    BY <1>1, <1>2, <2>1
  <2> QED
    BY <1>7, <2>1, <2>2, <2>3
<1> QED
  BY <1>2, <1>8 DEF Has

\* The caller of sleepms or recvtime goes to sleep.
LEMMA SleeperInserted ==
  ASSUME IInv, OrderInv, SleepInv, frame[currpid].at = "user",
         ~Has(queue[sleepq], currpid), NEW kt \in [Pids -> Int], NEW key \in Nat,
         NEW t, t = InsertAt(queue[sleepq], InsertdPos(queue[sleepq], qkey, key), currpid),
         \A p \in Pids : Has(t, p) =>
            kt[p] = insertdKey(queue, qkey, currpid, sleepq, key)[p]
  PROVE  Undisturbed(t, kt)
<1> DEFINE s == queue[sleepq]
           i == InsertdPos(s, qkey, key)
           left == key - Elapsed(s, qkey, i - 1)
<1>1. /\ s \in Seq(Pids) /\ Distinct(s) /\ qkey \in [Pids -> Int]
      /\ IntKeys(s, qkey, Len(s)) /\ currpid \in Pids
  BY SleepTypes, CurrentSchedulable
<1>2. \A j \in 1..Len(s) : qkey[s[j]] >= 0
  BY DEF SleepInv
<1>3. /\ i \in 1..(Len(s) + 1) /\ left \in Nat
      /\ i <= Len(s) => qkey[s[i]] > left
  BY <1>1, InsertdFits
<1>4. insertdKey(queue, qkey, currpid, sleepq, key) =
         [p \in Pids |-> IF p = currpid THEN left
                         ELSE IF i <= Len(s) /\ p = s[i] THEN qkey[p] - left
                         ELSE qkey[p]]
  BY <1>1 DEF insertdKey
<1> HIDE DEF left
<1>5. \A p \in Pids : Has(t, p) <=> Has(s, p) \/ p = currpid
  <2> HIDE DEF s, i
  <2>1. t = InsertAt(s, i, currpid)
    BY DEF s, i
  <2>2. s \in Seq(Pids) /\ currpid \in Pids /\ i \in 1..(Len(s) + 1)
    BY <1>1, <1>3
  <2>3. \A p : Has(InsertAt(s, i, currpid), p) <=> Has(s, p) \/ p = currpid
    BY ONLY <2>2, InsertMembers
  <2> QED
    BY <2>1, <2>3
<1>6. \A j \in 1..Len(s) : s[j] \in Pids /\ s[j] # currpid /\ Has(s, s[j])
  BY <1>1, ElementOfSeq DEF Has
<1>7. kt[currpid] = left
  BY <1>1, <1>4, <1>5
<1>8. \A j \in 1..Len(s) : kt[s[j]] = IF j = i THEN qkey[s[j]] - left ELSE qkey[s[j]]
  <2> HIDE DEF i
  <2>1. ASSUME NEW j \in 1..Len(s)
        PROVE  kt[s[j]] = IF j = i THEN qkey[s[j]] - left ELSE qkey[s[j]]
    <3>1. kt[s[j]] = IF i <= Len(s) /\ s[j] = s[i] THEN qkey[s[j]] - left ELSE qkey[s[j]]
      BY <1>4, <1>5, <1>6
    <3>2. Len(s) \in Nat
      BY <1>1, LenProperties
    <3>3. (i <= Len(s) /\ s[j] = s[i]) <=> j = i
      BY <1>1, <1>3, <3>2, SMTT(60) DEF Distinct
    <3> QED
      BY <3>1, <3>3
  <2> QED
    BY <2>1
<1> HIDE DEF s, i
<1>9. t = InsertAt(s, i, currpid) /\ ~Has(s, currpid)
  BY DEF s, i
<1>10. /\ \A p : Has(s, p) => Left(InsertAt(s, i, currpid), kt, p) = Left(s, qkey, p)
       /\ \A j \in 1..Len(InsertAt(s, i, currpid)) : kt[InsertAt(s, i, currpid)[j]] >= 0
  BY ONLY <1>1, <1>2, <1>3, <1>7, <1>8, <1>9, InsertDelays, kt \in [Pids -> Int],
          ZenonT(90)
<1> QED
  BY <1>9, <1>10 DEF Undisturbed, s

\* A message or a kill takes a sleeper off before it is due.
LEMMA SleeperRemoved ==
  ASSUME IInv, OrderInv, SleepInv, frame[currpid].at # "wakeup",
         NEW kt \in [Pids -> Int], NEW i \in 1..Len(queue[sleepq]),
         NEW t, t = RemoveAt(queue[sleepq], i),
         \A p \in Pids : Has(t, p) =>
            kt[p] = unsleepKey(queue, qkey, queue[sleepq][i], sleepq)[p]
  PROVE  Undisturbed(t, kt)
<1> DEFINE s == queue[sleepq]
<1>1. /\ s \in Seq(Pids) /\ Distinct(s) /\ qkey \in [Pids -> Int] /\ i \in 1..Len(s)
      /\ Len(s) \in Nat
  BY SleepTypes, LenProperties
<1>2. \A j \in 1..Len(s) : qkey[s[j]] >= 0
  BY DEF SleepInv
<1>3. unsleepKey(queue, qkey, s[i], sleepq) =
         [p \in Pids |-> IF \E h \in 1..(Len(s) - 1) : s[h] = s[i] /\ s[h + 1] = p
                         THEN qkey[p] + qkey[s[i]] ELSE qkey[p]]
  BY <1>1 DEF unsleepKey
<1>4. t = RemoveAt(s, i) /\ \A p \in Pids : Has(t, p) =>
                               kt[p] = unsleepKey(queue, qkey, s[i], sleepq)[p]
  OBVIOUS
<1> HIDE DEF s
<1>5. \A p : Has(t, p) <=> Has(s, p) /\ p # s[i]
  BY <1>1, <1>4, RemoveMembers
<1>6. \A j \in 1..Len(s) : j # i =>
         kt[s[j]] = IF j = i + 1 THEN qkey[s[j]] + qkey[s[i]] ELSE qkey[s[j]]
  <2>1. ASSUME NEW j \in 1..Len(s), j # i
        PROVE  kt[s[j]] = IF j = i + 1 THEN qkey[s[j]] + qkey[s[i]] ELSE qkey[s[j]]
    <3>1. s[j] \in Pids /\ s[j] # s[i] /\ Has(s, s[j])
      BY <1>1, <2>1, ElementOfSeq DEF Distinct, Has
    <3>2. kt[s[j]] = IF \E h \in 1..(Len(s) - 1) : s[h] = s[i] /\ s[h + 1] = s[j]
                     THEN qkey[s[j]] + qkey[s[i]] ELSE qkey[s[j]]
      BY <1>3, <1>4, <1>5, <3>1
    <3>3. (\E h \in 1..(Len(s) - 1) : s[h] = s[i] /\ s[h + 1] = s[j]) <=> j = i + 1
      <4>1. ASSUME NEW h \in 1..(Len(s) - 1), s[h] = s[i], s[h + 1] = s[j]
            PROVE  j = i + 1
        <5> DEFINE g == h + 1
        <5>1. h \in 1..Len(s) /\ g \in 1..Len(s)
          BY ONLY <1>1, h \in 1..(Len(s) - 1)
        <5>2. h = i
          BY <1>1, <4>1, <5>1 DEF Distinct
        <5>3. g = j
          <6>1. s[g] = s[j]
            BY <4>1
          <6> HIDE DEF g
          <6> QED
            BY <1>1, <5>1, <6>1 DEF Distinct
        <5> QED
          BY <5>2, <5>3
      <4>2. ASSUME j = i + 1
            PROVE  \E h \in 1..(Len(s) - 1) : s[h] = s[i] /\ s[h + 1] = s[j]
        <5>1. i \in 1..(Len(s) - 1)
          BY <1>1, <4>2
        <5> QED
          BY <4>2, <5>1
      <4> QED
        BY <4>1, <4>2
    <3> QED
      BY <3>2, <3>3
  <2> QED
    BY <2>1
<1>7. /\ \A p : Has(RemoveAt(s, i), p) => Left(RemoveAt(s, i), kt, p) = Left(s, qkey, p)
      /\ \A j \in 1..Len(RemoveAt(s, i)) : kt[RemoveAt(s, i)[j]] >= 0
  BY ONLY <1>1, <1>2, <1>6, RemoveDelays, kt \in [Pids -> Int], ZenonT(60)
<1> QED
  BY <1>4, <1>7 DEF Undisturbed, s

\* wakeup takes the first sleeper off when it is due.
LEMMA SleeperDue ==
  ASSUME IInv, OrderInv, SleepInv, Due(qkey), NEW kt \in [Pids -> Int],
         NEW t, t = Tail(queue[sleepq]), \A p \in Pids : Has(t, p) => kt[p] = qkey[p]
  PROVE  Undisturbed(t, kt)
<1> DEFINE s == queue[sleepq]
<1>1. s \in Seq(Pids) /\ Distinct(s) /\ qkey \in [Pids -> Int]
  BY SleepTypes
<1>2. s # << >> /\ qkey[Head(s)] <= 0 /\ \A j \in 2..Len(s) : qkey[s[j]] >= 0
  BY DEF Due, firstkey, SleepInv
<1>3. t = Tail(s)
  OBVIOUS
<1> HIDE DEF s
<1>4. Head(s) = s[1] /\ 1 \in 1..Len(s) /\ Len(s) \in Nat
  BY <1>1, <1>2, HeadTailProperties, LenProperties, EmptySeq
<1>5. \A p : Has(t, p) <=> Has(s, p) /\ p # Head(s)
  BY ONLY <1>1, <1>2, <1>3, TailMembers
<1>6. \A j \in 2..Len(s) : qkey[s[j]] >= 0 /\ kt[s[j]] = qkey[s[j]]
  <2>1. ASSUME NEW j \in 2..Len(s) PROVE kt[s[j]] = qkey[s[j]]
    <3>1. j \in 1..Len(s) /\ j # 1
      BY <1>4
    <3>2. s[j] \in Pids /\ Has(s, s[j]) /\ s[j] # s[1]
      BY <1>1, <1>4, <3>1, ElementOfSeq DEF Has, Distinct
    <3> QED
      BY <1>4, <1>5, <3>2
  <2> QED
    BY <1>2, <2>1
<1>7. qkey[s[1]] <= 0
  BY <1>2, <1>4
<1>8. /\ \A p : Has(Tail(s), p) => Left(Tail(s), kt, p) = Left(s, qkey, p)
      /\ \A j \in 1..Len(Tail(s)) : kt[Tail(s)[j]] >= 0
  BY ONLY <1>1, <1>2, <1>6, <1>7, TailDelays, kt \in [Pids -> Int]
<1> QED
  BY <1>3, <1>8 DEF Undisturbed, s

\* Nothing but its own loop happens inside wakeup.
LEMMA WakeupFirst ==
  ASSUME Next, frame[currpid].at = "wakeup"
  PROVE  wakeup \/ UNCHANGED vars
<1>1. ~Caller /\ ~InUser /\ \A at : InFrame(at) => at = "wakeup"
  BY DEF Caller, InUser, InFrame
<1>2. ~SemaphoreCall
  <2>1. /\ \A c : ~semcreate(c)
        /\ \A s : ~wait(s) /\ ~signal(s)
        /\ \A s, n : ~signaln(s, n) /\ ~semreset(s, n)
        /\ \A s : ~semdelete(s)
    BY <1>1 DEF semcreate, wait, signal, signaln, semreset, semdelete, EnterLoop
  <2> QED
    BY <2>1 DEF SemaphoreCall
<1>3. ~MessageCall
  BY <1>1 DEF MessageCall, send, receive, recvclr, recvtime
<1>4. ~TimeCall
  BY <1>1 DEF TimeCall, sleepms, yield
<1>5. ~ProcessCall
  BY <1>1 DEF ProcessCall, create, createFull, createRefused, resume, suspend, chprio, kill
<1>6. Continue => wakeup
  BY <1>1 DEF Continue, signalnLoop, semresetLoop, semdeleteLoop, receiveResumed,
              recvtimeResumed, boot, clkhandlerResumed, killResumed
<1>7. ~Tick
  BY <1>1 DEF Tick, clkhandler
<1> QED
  BY <1>2, <1>3, <1>4, <1>5, <1>6, <1>7 DEF Next, Halted

\* clkhandler and wakeup go on to user code only when no sleeper is due.
LEMMA NobodyDue ==
  ASSUME IInv, frame'[currpid'].at # "wakeup"
  PROVE  /\ clkhandler => ~Due(Ticked)
         /\ wakeup => ~Due(qkey)
<1>1. currpid \in Pids /\ DOMAIN frame = Pids
  BY CurrentSchedulable DEF IInv, StateTypes
<1>2. ASSUME clkhandler PROVE ~Due(Ticked)
  <2>1. SUFFICES ASSUME frame' = [frame EXCEPT ![currpid] = Frame("wakeup", 0, 0, 0)],
                        currpid' = currpid
                 PROVE  FALSE
    BY <1>2 DEF clkhandler
  <2>2. frame'[currpid] = Frame("wakeup", 0, 0, 0)
    BY <1>1, <2>1
  <2> QED
    BY <2>1, <2>2 DEF Frame
<1>3. ASSUME wakeup PROVE ~Due(qkey)
  <2>1. frame[currpid].at = "wakeup" /\ frame[currpid].at \in Loops
    BY <1>3 DEF wakeup, InFrame, Loops
  <2>2. ndefers = 1
    BY <2>1 DEF IInv, FrameInv
  <2>3. \A st, qs, ks : Ready(Head(queue[sleepq]), st, qs, ks) => currpid' = currpid
    BY <2>2 DEF Ready, Deferred
  <2> QED
    BY <1>3, <2>1, <2>3 DEF wakeup
<1> QED
  BY <1>2, <1>3

\* What a step does to the delays of those who sleep on.
DelayStep ==
    \A p \in Pids : Has(queue[sleepq], p) /\ Has(queue'[sleepq], p) =>
       \/ Left(queue'[sleepq], qkey', p) = Left(queue[sleepq], qkey, p)
       \/ /\ clkhandler
          /\ Left(queue'[sleepq], qkey', p) = Left(queue[sleepq], qkey, p) - 1

\* One more tick.
LEMMA DelaysTicked ==
  ASSUME IInv, OrderInv, OrderInv', SleepInv, clkhandler, queue'[sleepq] = queue[sleepq],
         \A p \in Pids : Has(queue[sleepq], p) => qkey'[p] = Ticked[p]
  PROVE  SleepInv' /\ DelayStep
<1> DEFINE s == queue[sleepq]
           kt == qkey'
<1>1. /\ s \in Seq(Pids) /\ Distinct(s) /\ qkey \in [Pids -> Int] /\ Len(s) \in Nat
      /\ IntKeys(s, qkey, Len(s))
  BY SleepTypes, LenProperties
<1>2. kt \in [Pids -> Int]
  BY DEF OrderInv, ReadyList
<1>3. \A j \in 1..Len(s) : qkey[s[j]] >= 0
  BY DEF SleepInv, clkhandler, InUser
<1>4. CASE s = << >>
  <2>1. Len(s) = 0 /\ Len(queue'[sleepq]) = 0
    BY <1>4
  <2>2. ~Has(s, 0) /\ \A p : ~Has(s, p)
    BY <2>1 DEF Has
  <2> QED
    BY <2>1, <2>2 DEF SleepInv, DelayStep
<1>5. CASE s # << >>
  <2>1. Head(s) = s[1] /\ 1 \in 1..Len(s)
    BY <1>1, <1>5, HeadTailProperties, EmptySeq
  <2>2. \A j \in 1..Len(s) : s[j] \in Pids /\ Has(s, s[j]) /\ (j # 1 => s[j] # s[1])
    BY <1>1, <2>1, ElementOfSeq DEF Has, Distinct
  <2>3. Ticked = [qkey EXCEPT ![s[1]] = qkey[s[1]] - 1]
    BY <1>5, <2>1 DEF Ticked
  <2>4. \A j \in 1..Len(s) : kt[s[j]] = Ticked[s[j]]
    BY <2>2
  <2>5. kt[s[1]] = qkey[s[1]] - 1 /\ kt[s[1]] = Ticked[s[1]]
    BY <1>1, <2>1, <2>2, <2>3, <2>4
  <2>6. \A j \in 2..Len(s) : kt[s[j]] = qkey[s[j]]
    <3>1. \A j \in 2..Len(s) : j \in 1..Len(s) /\ j # 1
      BY <1>1
    <3> QED
      BY <1>1, <2>2, <2>3, <2>4, <3>1
  <2>7. IntKeys(s, kt, Len(s)) /\ 1 <= Len(s)
    BY <1>1, <1>2, <2>1, KeysAreInt
  <2>8. \A p : Has(s, p) => Left(s, kt, p) \in {Left(s, qkey, p), Left(s, qkey, p) - 1}
    <3> HIDE DEF s, kt
    <3> QED
      BY ONLY <1>1, <2>5, <2>6, <2>7, TickDelays
  <2>9. ASSUME frame'[currpid'].at # "wakeup" PROVE kt[s[1]] >= 0
    <3>1. ~(Ticked[s[1]] <= 0)
      BY <1>5, <2>1, <2>9, NobodyDue DEF Due, firstkey
    <3>2. Ticked[s[1]] \in Int
      BY <1>1, <2>1, <2>5, <2>7 DEF IntKeys
    <3> QED
      BY <2>5, <3>1, <3>2
  <2>10. \A j \in 2..Len(s) : kt[s[j]] >= 0 /\ j \in 1..Len(s)
    BY <1>1, <1>3, <2>6
  <2>11. \A j \in 1..Len(s) : j = 1 \/ j \in 2..Len(s)
    BY <1>1
  <2>12. SleepInv'
    BY <2>9, <2>10, <2>11 DEF SleepInv
  <2> QED
    BY <2>8, <2>12 DEF DelayStep
<1> QED
  BY <1>4, <1>5

\* Every step keeps what SleepInv says, and the delays.
LEMMA DelaysMove ==
  ASSUME KInv, OrderInv', SleepInv, Next, KStep, ~UNCHANGED vars
  PROVE  SleepInv' /\ DelayStep
<1> DEFINE s == queue[sleepq]
           t == queue'[sleepq]
<1>1. /\ IInv /\ OrderInv /\ SleepMove(t, qkey')
      /\ s \in Seq(Pids) /\ Distinct(s) /\ qkey \in [Pids -> Int]
  BY SleepTypes DEF KInv, KStep
<1>2. qkey' \in [Pids -> Int]
  BY DEF OrderInv, ReadyList
<1>3. ASSUME Undisturbed(t, qkey') PROVE SleepInv' /\ DelayStep
  <2>1. \A j \in 2..Len(t) : j \in 1..Len(t)
    <3>1. \A j \in Int : j >= 2 => j >= 1
      OBVIOUS
    <3> QED
      OBVIOUS
  <2> QED
    BY <1>3, <2>1 DEF Undisturbed, SleepInv, DelayStep
<1>4. CASE t = s /\ \A p \in Pids : Has(s, p) => qkey'[p] = qkey[p]
  <2>1. /\ \A j \in 1..Len(s) : qkey'[s[j]] = qkey[s[j]]
        /\ \A p : Has(s, p) => Left(s, qkey', p) = Left(s, qkey, p)
    <3>1. \A j \in 1..Len(s) : qkey'[s[j]] = qkey[s[j]]
      BY <1>1, <1>4, ElementOfSeq DEF Has
    <3>2. Distinct(s) /\ IntKeys(s, qkey, Len(s))
      BY <1>1, KeysAreInt
    <3> QED
      BY <3>1, <3>2, SameDelays
  <2>2. DelayStep
    BY <1>4, <2>1 DEF DelayStep
  <2>3. \A j \in 2..Len(s) : j \in 1..Len(s)
    OBVIOUS
  <2>4. \A j \in 2..Len(t) : qkey'[t[j]] >= 0
    BY <1>4, <2>1, <2>3 DEF SleepInv
  <2>5. ASSUME frame'[currpid'].at # "wakeup"
        PROVE  \A j \in 1..Len(t) : qkey'[t[j]] >= 0
    <3>1. CASE frame[currpid].at # "wakeup"
      BY <1>4, <2>1, <3>1 DEF SleepInv
    <3>2. CASE frame[currpid].at = "wakeup"
      <4>1. wakeup /\ ~Due(qkey)
        BY <1>1, <2>5, <3>2, WakeupFirst, NobodyDue
      <4>2. ASSUME NEW j \in 1..Len(s) PROVE qkey[s[j]] >= 0
        <5>1. CASE j = 1
          <6>1. s # << >> /\ Head(s) = s[1]
            BY <1>1, <4>2, HeadTailProperties, EmptySeq
          <6>2. ~(qkey[s[1]] <= 0)
            BY <4>1, <6>1 DEF Due, firstkey
          <6>3. qkey[s[1]] \in Int
            BY <1>1, <4>2, <5>1, ElementOfSeq
          <6> QED
            BY <5>1, <6>2, <6>3
        <5>2. CASE j # 1
          <6>1. j \in 2..Len(s)
            BY <5>2
          <6> QED
            BY <6>1 DEF SleepInv
        <5> QED
          BY <5>1, <5>2
      <4> QED
        BY <1>4, <2>1, <4>2
    <3> QED
      BY <3>1, <3>2
  <2> QED
    BY <2>2, <2>4, <2>5 DEF SleepInv
<1>5. CASE t = s /\ clkhandler /\ \A p \in Pids : Has(s, p) => qkey'[p] = Ticked[p]
  BY <1>1, <1>5, DelaysTicked
<1>6. ASSUME NEW key \in Nat, ~Has(s, currpid), frame[currpid].at = "user",
             t = InsertAt(s, InsertdPos(s, qkey, key), currpid),
             \A p \in Pids : Has(t, p) =>
                qkey'[p] = insertdKey(queue, qkey, currpid, sleepq, key)[p]
      PROVE  Undisturbed(t, qkey')
  BY <1>1, <1>2, <1>6, SleeperInserted
<1>7. ASSUME NEW i \in 1..Len(s), t = RemoveAt(s, i), frame[currpid].at # "wakeup",
             \A p \in Pids : Has(t, p) =>
                qkey'[p] = unsleepKey(queue, qkey, s[i], sleepq)[p]
      PROVE  Undisturbed(t, qkey')
  BY <1>1, <1>2, <1>7, SleeperRemoved
<1>8. CASE /\ Due(qkey) /\ t = Tail(s)
           /\ \A p \in Pids : Has(t, p) => qkey'[p] = qkey[p]
  BY <1>1, <1>2, <1>3, <1>8, SleeperDue
<1> QED
  BY <1>1, <1>3, <1>4, <1>5, <1>6, <1>7, <1>8 DEF SleepMove

\* The state sysinit leaves: nobody sleeps.
LEMMA InitSleep == Init => SleepInv
  BY Identifiers DEF Init, SleepInv

\* A tick brings every sleeper at most one tick nearer, and nothing else that
\* happens to the sleep queue changes when a sleeper is due: not a new sleeper,
\* not one that a message awakes or that is killed, not one that is due.
THEOREM NobodyDelayed == Spec => DelaysKept
<1> DEFINE Kept(p) ==
             Sleeping(p) /\ Sleeping(p)' /\ currpid # p =>
                IF clkhandler
                THEN TicksLeft(p)' \in {TicksLeft(p), TicksLeft(p) - 1}
                ELSE TicksLeft(p)' = TicksLeft(p)
<1>1. ASSUME KInv, SleepInv, [Next]_vars
      PROVE  SleepInv' /\ [\A p \in Pids : Kept(p)]_vars
  <2>1. CASE UNCHANGED vars
    BY <1>1, <2>1 DEF SleepInv, vars, schedVars
  <2>2. CASE ~UNCHANGED vars
    <3>1. /\ Next /\ KStep /\ OrderInv' /\ IInv /\ IInv'
      BY <1>1, <2>2, NextKInv DEF KInv
    <3>2. SleepInv' /\ DelayStep
      BY <1>1, <2>2, <3>1, DelaysMove
    <3>3. ASSUME NEW p \in Pids, Sleeping(p), Sleeping(p)', currpid # p
          PROVE  IF clkhandler
                 THEN TicksLeft(p)' \in {TicksLeft(p), TicksLeft(p) - 1}
                 ELSE TicksLeft(p)' = TicksLeft(p)
      <4>1. Has(queue[sleepq], p)
        BY <3>1, <3>3, Identifiers DEF IInv, Agree, StateOn, Sleeping
      <4>2. Has(queue'[sleepq], p)
        BY <3>1, <3>3, Identifiers DEF IInv, Agree, StateOn, Sleeping
      <4>3. /\ TicksLeft(p) = Left(queue[sleepq], qkey, p)
            /\ TicksLeft(p)' = Left(queue'[sleepq], qkey', p)
        BY DEF TicksLeft, Left
      <4> QED
        BY <3>2, <4>1, <4>2, <4>3 DEF DelayStep
    <3> QED
      BY <3>2, <3>3
  <2> QED
    BY <2>1, <2>2
<1> QED
  BY <1>1, InitSleep, KernelInvariance, PTL DEF Spec, DelaysKept
=============================================================================

------------------------------- MODULE Clock --------------------------------
(***************************************************************************)
(* The clock interrupt, the sleep queue and the time slice                 *)
(* (system/clkhandler.c, clkdisp.S, wakeup.c, sleep.c, yield.c).  The      *)
(* interrupt is taken in user code only, the null process's idle loop      *)
(* included.  The count of seconds (clktime, count1000, myglobalclock)     *)
(* drives nothing and is left out.                                         *)
(***************************************************************************)
EXTENDS ProcTab

CONSTANT Delays     \* delays given to sleepms, in ticks

ASSUME ClockAssumption == Delays \subseteq Nat

\* Mutant: the slice ends one tick late.
SliceUsedLate == preempt - 1 < 0

SliceUsed == preempt - 1 <= 0

\* The end of clkhandler, with the keys ks: count the slice down, start a new
\* one and reschedule when it is used up.
EndOfTick(ks) ==
    /\ IF SliceUsed
       THEN ReschedSlice(prstate, queue, ks, QUANTUM)
       ELSE /\ preempt' = preempt - 1
            /\ qkey' = ks
            /\ UNCHANGED <<prstate, queue, currpid>>
    /\ Return
    /\ UNCHANGED deferVars

\* Mutant: no time passes for the sleepers while the null process runs.
TickedUnlessIdle ==
    IF queue[sleepq] = << >> \/ currpid = NULLPROC THEN qkey
    ELSE [qkey EXCEPT ![Head(queue[sleepq])] = @ - 1]

\* The keys with one tick off the first sleeper's delay.
Ticked ==
    IF queue[sleepq] = << >> THEN qkey
    ELSE [qkey EXCEPT ![Head(queue[sleepq])] = @ - 1]

\* Mutant: a sleeper is released one tick early.
DueEarly(ks) == queue[sleepq] # << >> /\ firstkey(queue, ks, sleepq) <= 1

\* The first sleeper's delay, with the keys ks, has run out.
Due(ks) == queue[sleepq] # << >> /\ firstkey(queue, ks, sleepq) <= 0

\* The interrupt: one tick off the first sleeper's delay, and the wakeup loop
\* when none is left.
clkhandler ==
    /\ InUser
    /\ \/ /\ ~Due(Ticked)
          /\ EndOfTick(Ticked)
       \/ /\ Due(Ticked)
          /\ DeferStart
          /\ qkey' = Ticked
          /\ frame' = [frame EXCEPT ![currpid] = Frame("wakeup", 0, 0, 0)]
          /\ UNCHANGED <<prstate, queue, currpid, preempt>>
    /\ UNCHANGED <<semVars, msgVars, procVars, prsem, lifeVars>>

\* wakeup: release every sleeper whose delay has run out, then reschedule.
wakeup ==
    /\ InFrame("wakeup")
    /\ \/ /\ Due(qkey)
          /\ Ready(Head(queue[sleepq]), prstate, dequeue(queue, sleepq), qkey)
          /\ UNCHANGED frame
       \/ /\ ~Due(qkey)
          /\ DeferStop
          /\ frame' = [frame EXCEPT ![currpid] = Frame("clkrest", 0, 0, 0)]
    /\ UNCHANGED <<semVars, msgVars, procVars, prsem, lifeVars>>

\* The interrupted process goes on in clkhandler, perhaps much later: the slice
\* it counts down is then the one resched has just given it.
clkhandlerResumed ==
    /\ InFrame("clkrest")
    /\ EndOfTick(qkey)
    /\ UNCHANGED <<semVars, msgVars, procVars, prsem, lifeVars>>

yield ==
    /\ Caller
    /\ Resched(prstate, queue, qkey)
    /\ UNCHANGED <<deferVars, semVars, msgVars, procVars, prsem, lifeVars, frame>>

\* sleepms; a delay of zero yields.
sleepms(delay) ==
    \/ delay = 0 /\ yield
    \/ /\ Caller
       /\ delay > 0
       /\ Block("SLEEP", insertd(queue, qkey, currpid, sleepq, delay),
                insertdKey(queue, qkey, currpid, sleepq, delay))
       /\ UNCHANGED <<semVars, msgVars, procVars, prsem, lifeVars, frame>>
=============================================================================

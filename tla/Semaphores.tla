---------------------------- MODULE Semaphores ------------------------------
(***************************************************************************)
(* Counting semaphores (system/semcreate.c, wait.c, signal.c, signaln.c,   *)
(* semreset.c, semdelete.c).  A count below zero is minus the number of    *)
(* processes waiting.  The calls that release several processes defer      *)
(* rescheduling and loop; each turn of the loop is a step, and no other    *)
(* process can step in between since interrupts stay disabled.             *)
(***************************************************************************)
EXTENDS ProcTab

CONSTANTS
    Counts,     \* counts given to semcreate and semreset
    SignalNs,   \* counts given to signaln
    MaxCount    \* bound on scount

ASSUME SemAssumption ==
    /\ Counts \subseteq Nat
    /\ SignalNs \subseteq Nat
    /\ MaxCount \in Nat

\* newsem looks at every entry once, starting at the cursor.
FreeSemAt(k) == sstate[(nextsem + k) % NSEM] = "FREE"
NewSemOffset == Min({k \in 0..(NSEM - 1) : FreeSemAt(k)})

semcreate(count) ==
    /\ Caller
    /\ \E k \in 0..(NSEM - 1) : FreeSemAt(k)
    /\ LET sem == (nextsem + NewSemOffset) % NSEM IN
       /\ sstate' = [sstate EXCEPT ![sem] = "USED"]
       /\ scount' = [scount EXCEPT ![sem] = count]
       /\ nextsem' = (sem + 1) % NSEM
    /\ UNCHANGED <<schedVars, deferVars, msgVars, procVars, prsem, lifeVars, frame>>

MustWait(sem) == scount[sem] - 1 < 0

wait(sem) ==
    /\ Caller
    /\ sstate[sem] = "USED"
    /\ scount' = [scount EXCEPT ![sem] = @ - 1]
    /\ IF MustWait(sem)
       THEN /\ prsem' = [prsem EXCEPT ![currpid] = sem]
            /\ Block("WAIT", enqueue(queue, currpid, sem), qkey)
       ELSE UNCHANGED <<prsem, schedVars, deferVars>>
    /\ UNCHANGED <<sstate, nextsem, msgVars, procVars, lifeVars, frame>>

\* signal's body, shared with signaln: count up, and release the first waiter
\* if there was one.
SignalOnce(sem) ==
    /\ scount' = [scount EXCEPT ![sem] = @ + 1]
    /\ IF scount[sem] < 0
       THEN Ready(Head(queue[sem]), prstate, dequeue(queue, sem), qkey)
       ELSE UNCHANGED <<schedVars, deferVars>>
    /\ UNCHANGED <<sstate, nextsem, prsem, msgVars, procVars, lifeVars>>

signal(sem) ==
    /\ Caller
    /\ sstate[sem] = "USED"
    /\ scount[sem] < MaxCount
    /\ SignalOnce(sem)
    /\ UNCHANGED frame

\* A call that releases several processes: it defers rescheduling and goes on
\* in its loop.
EnterLoop(at, sem, cnt) ==
    /\ Caller
    /\ DeferStart
    /\ frame' = [frame EXCEPT ![currpid] = Frame(at, sem, cnt, 0)]
    /\ UNCHANGED <<schedVars, nextsem, msgVars, procVars, prsem, lifeVars>>

\* The end of its loop.
LeaveLoop ==
    /\ DeferStop
    /\ Return
    /\ UNCHANGED <<sstate, nextsem, msgVars, procVars, prsem, lifeVars>>

signaln(sem, count) ==
    /\ sstate[sem] = "USED"
    /\ scount[sem] + count <= MaxCount
    /\ EnterLoop("signaln", sem, count)
    /\ UNCHANGED <<sstate, scount>>

signalnLoop ==
    /\ InFrame("signaln")
    /\ LET f == frame[currpid] IN
       \/ /\ f.cnt > 0
          /\ SignalOnce(f.sem)
          /\ frame' = [frame EXCEPT ![currpid].cnt = @ - 1]
       \/ /\ f.cnt = 0
          /\ LeaveLoop
          /\ UNCHANGED scount

semreset(sem, count) ==
    /\ sstate[sem] = "USED"
    /\ EnterLoop("semreset", sem, count)
    /\ UNCHANGED <<sstate, scount>>

\* semreset empties the queue first and sets the count at the end.
semresetLoop ==
    /\ InFrame("semreset")
    /\ LET f == frame[currpid] IN
       \/ /\ queue[f.sem] # << >>
          /\ Ready(Head(queue[f.sem]), prstate, dequeue(queue, f.sem), qkey)
          /\ UNCHANGED <<semVars, frame, msgVars, procVars, prsem, lifeVars>>
       \/ /\ queue[f.sem] = << >>
          /\ scount' = [scount EXCEPT ![f.sem] = f.cnt]
          /\ LeaveLoop

\* semdelete frees the entry before it releases the waiting processes.
semdelete(sem) ==
    /\ sstate[sem] = "USED"
    /\ EnterLoop("semdelete", sem, 0)
    /\ sstate' = [sstate EXCEPT ![sem] = "FREE"]
    /\ UNCHANGED scount

semdeleteLoop ==
    /\ InFrame("semdelete")
    /\ LET sem == frame[currpid].sem IN
       /\ scount' = [scount EXCEPT ![sem] = @ + 1]
       /\ \/ /\ scount[sem] < 0
             /\ Ready(Head(queue[sem]), prstate, dequeue(queue, sem), qkey)
             /\ UNCHANGED <<sstate, nextsem, msgVars, procVars, prsem, lifeVars, frame>>
          \/ /\ scount[sem] >= 0
             /\ LeaveLoop
=============================================================================

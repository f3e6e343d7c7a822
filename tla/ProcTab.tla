------------------------------ MODULE ProcTab -------------------------------
(***************************************************************************)
(* The state of the process manager and the scheduler: proctab, semtab,    *)
(* the queues, currpid, preempt and Defer (include/process.h, semaphore.h, *)
(* resched.h; system/initialize.c), and the two routines every call of the *)
(* kernel goes through, resched and ready.                                 *)
(*                                                                         *)
(* A kernel call runs with interrupts disabled, so it is one step up to a  *)
(* call of resched that switches the CPU to another process.  What the old *)
(* process still has to do when it is resumed is its kernel frame: frame   *)
(* says where in which call it stopped, with that call's local variables.  *)
(* The frame "user" is user code, interrupts enabled.                      *)
(***************************************************************************)
EXTENDS Queues

CONSTANTS
    NPROC,      \* size of proctab
    NSEM,       \* size of semtab
    QUANTUM,    \* ticks of a time slice (include/clock.h)
    NSTK        \* stacks the memory has room for besides the null process's

ASSUME ProcTabAssumption ==
    /\ NPROC \in Nat \ {0, 1}
    /\ NSEM \in Nat \ {0}
    /\ QUANTUM \in Nat \ {0}
    /\ NSTK \in Nat \ {0}

NULLPROC == 0
Pids == 0..(NPROC - 1)
Sems == 0..(NSEM - 1)
Stacks == 1..NSTK       \* the stacks, in order of address; 0 is none

\* Queue identifiers, in the order sysinit and clkinit call newqueue: one per
\* semaphore, then the ready list, then the sleep queue.
readylist == NSEM
sleepq == NSEM + 1
Qids == 0..(NSEM + 1)

PrStates == {"FREE", "CURR", "READY", "RECV", "SLEEP", "SUSP", "WAIT",
             "RECTIM"}

VARIABLES
    prstate, prprio, prsem, prparent, prmsg, prhasmsg,  \* proctab
    queue, qkey,                \* queuetab
    sstate, scount, nextsem,    \* semtab, newsem's cursor
    currpid, preempt,           \* running process, what is left of its slice
    ndefers, attempt,           \* Defer
    nextpid, prcount,           \* newpid's cursor, live processes
    prstkbase, stkfree,         \* stack of each process, stacks not in use
    frame,                      \* kernel frame of each process
    halted,                     \* xdone has halted the processor
    program                     \* the kernel calls the program of each entry makes

schedVars == <<prstate, queue, qkey, currpid, preempt>>
deferVars == <<ndefers, attempt>>
semVars   == <<sstate, scount, nextsem>>
msgVars   == <<prmsg, prhasmsg>>
procVars  == <<prprio, prparent>>
stkVars   == <<prstkbase, stkfree>>
lifeVars  == <<nextpid, prcount, stkVars, halted>>
vars == <<schedVars, deferVars, semVars, msgVars, procVars, prsem, lifeVars,
          frame, program>>

Frame(at, sem, cnt, pid) == [at |-> at, sem |-> sem, cnt |-> cnt, pid |-> pid]
UserFrame == Frame("user", 0, 0, 0)

\* The running process is in user code: it may call the kernel or be
\* interrupted.
InUser == ~halted /\ frame[currpid].at = "user"

\* The running process is a user process about to call the kernel.  The null
\* process calls nothing once it has booted the system.
Caller == InUser /\ currpid # NULLPROC

\* The running process is at point at of a call it has not finished.
InFrame(at) == ~halted /\ frame[currpid].at = at

Return == frame' = [frame EXCEPT ![currpid] = UserFrame]

isbadpid(pid) == prstate[pid] = "FREE"

----------------------------------------------------------------------------
\* resched from the process states st, the lists qs and the keys ks that the
\* caller leaves, when rescheduling is not deferred.  A current process above
\* the first ready one keeps the CPU; otherwise it goes behind its equals and
\* the head of the ready list runs, with a fresh slice.
Switch(st, qs, ks) ==
    LET stay  == st[currpid] = "CURR"
        prio  == prprio[currpid]
        qs1   == IF stay THEN insert(qs, ks, currpid, readylist, prio) ELSE qs
        st1   == IF stay THEN [st EXCEPT ![currpid] = "READY"] ELSE st
        new   == Head(qs1[readylist])
    IN  /\ currpid' = new
        /\ prstate' = [st1 EXCEPT ![new] = "CURR"]
        /\ queue' = dequeue(qs1, readylist)
        /\ qkey' = IF stay THEN insertKey(ks, currpid, prio) ELSE ks
        /\ preempt' = QUANTUM

\* Mutant: a current process keeps the CPU whoever is ready.
KeepsCpuAlways(st, qs, ks) == st[currpid] = "CURR"

KeepsCpu(st, qs, ks) ==
    /\ st[currpid] = "CURR"
    /\ prprio[currpid] > firstkey(qs, ks, readylist)

\* slice is what the caller leaves in preempt.
ReschedSlice(st, qs, ks, slice) ==
    \/ /\ KeepsCpu(st, qs, ks)
       /\ prstate' = st /\ queue' = qs /\ qkey' = ks /\ preempt' = slice
       /\ UNCHANGED currpid
    \/ /\ ~KeepsCpu(st, qs, ks)
       /\ Switch(st, qs, ks)

Resched(st, qs, ks) == ReschedSlice(st, qs, ks, preempt)

\* resched while rescheduling is deferred: only the attempt is recorded.
Deferred(st, qs, ks) ==
    /\ prstate' = st /\ queue' = qs /\ qkey' = ks
    /\ attempt' = TRUE
    /\ UNCHANGED <<currpid, preempt, ndefers>>

\* ready(pid), from the states and lists its caller leaves.
Ready(pid, st, qs, ks) ==
    LET st1 == [st EXCEPT ![pid] = "READY"]
        qs1 == insert(qs, ks, pid, readylist, prprio[pid])
        ks1 == insertKey(ks, pid, prprio[pid])
    IN  IF ndefers > 0 THEN Deferred(st1, qs1, ks1)
        ELSE Resched(st1, qs1, ks1) /\ UNCHANGED deferVars

\* resched_cntl(DEFER_START), with nothing else done to the scheduler.
DeferStart ==
    /\ ndefers' = ndefers + 1
    /\ attempt' = IF ndefers = 0 THEN FALSE ELSE attempt

\* Mutant: the deferral is not counted down.
DeferStopUncounted == UNCHANGED <<deferVars, schedVars>>

\* resched_cntl(DEFER_STOP): the last one does the resched that was asked for
\* meanwhile.
DeferStop ==
    /\ ndefers' = ndefers - 1
    /\ UNCHANGED attempt
    /\ IF ndefers = 1 /\ attempt THEN Resched(prstate, queue, qkey)
       ELSE UNCHANGED schedVars

\* The current process gives up the CPU in state st with the lists qs.
Block(state, qs, ks) ==
    /\ Resched([prstate EXCEPT ![currpid] = state], qs, ks)
    /\ UNCHANGED deferVars
=============================================================================

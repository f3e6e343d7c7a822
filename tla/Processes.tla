----------------------------- MODULE Processes ------------------------------
(***************************************************************************)
(* The life of a process (system/create.c, resume.c, suspend.c, chprio.c,  *)
(* kill.c, xdone.c and the end of nulluser in initialize.c).  Of the       *)
(* memory list only the stacks that fit are kept.                          *)
(***************************************************************************)
EXTENDS Messages

CONSTANTS
    Prios,      \* priorities given to create and chprio
    InitPrio    \* priority of the main process

ASSUME PrioAssumption == Prios \subseteq Nat \ {0} /\ InitPrio \in Nat \ {0}

\* newpid looks at every entry once, starting at the cursor.
FreePidAt(k) == prstate[(nextpid + k) % NPROC] = "FREE"
TableFull == \A k \in 0..(NPROC - 1) : ~FreePidAt(k)
NewPid == (nextpid + Min({k \in 0..(NPROC - 1) : FreePidAt(k)})) % NPROC

\* getstk takes the free block with the highest address.
getstk == Max(stkfree)

\* Mutant: the block found is left on the free list.
TakeStackKept == UNCHANGED stkfree

TakeStack == stkfree' = stkfree \ {getstk}

\* freestk: freemem refuses a block that overlaps a free one.
freestk(stk) == stkfree' = stkfree \cup {stk}

\* The new entry of the process table: priority prio, parent par.
NewEntry(pid, prio, par) ==
    /\ prprio' = [prprio EXCEPT ![pid] = prio]
    /\ prsem' = [prsem EXCEPT ![pid] = -1]
    /\ prparent' = [prparent EXCEPT ![pid] = par]
    /\ prhasmsg' = [prhasmsg EXCEPT ![pid] = FALSE]
    /\ prcount' = prcount + 1
    /\ prstkbase' = [prstkbase EXCEPT ![pid] = getstk]
    /\ TakeStack
    /\ nextpid' = pid + 1
    /\ UNCHANGED <<prmsg, halted>>

create(prio) ==
    /\ Caller
    /\ stkfree # {}
    /\ ~TableFull
    /\ NewEntry(NewPid, prio, currpid)
    /\ prstate' = [prstate EXCEPT ![NewPid] = "SUSP"]
    /\ frame' = [frame EXCEPT ![NewPid] = UserFrame]
    /\ UNCHANGED <<queue, qkey, currpid, preempt, deferVars, semVars>>

\* create gets the stack before it looks for an entry: on a full table the
\* call fails and the stack is lost.
createFull ==
    /\ Caller
    /\ stkfree # {}
    /\ TableFull
    /\ TakeStack
    /\ UNCHANGED <<schedVars, deferVars, semVars, msgVars, procVars, prsem, nextpid,
                   prcount, prstkbase, halted, frame>>

\* Neither is returned when the priority is below 1, and the search of newpid
\* goes on behind the entry that was not taken.
createRefused ==
    /\ Caller
    /\ stkfree # {}
    /\ ~TableFull
    /\ TakeStack
    /\ nextpid' = NewPid + 1
    /\ UNCHANGED <<schedVars, deferVars, semVars, msgVars, procVars, prsem, prcount,
                   prstkbase, halted, frame>>

\* The end of nulluser: create the main process, resume it and become the null
\* process.  nulluser creates the process of the remote disk before, which waits
\* on a semaphore of its own: it is not among Pids, and counts in no prcount here.
boot ==
    /\ InFrame("boot")
    /\ NewEntry(NewPid, InitPrio, NULLPROC)
    /\ LET pid == NewPid
           qs == insert(queue, qkey, pid, readylist, InitPrio)
           ks == insertKey(qkey, pid, InitPrio)
       IN  Resched([prstate EXCEPT ![pid] = "READY"], qs, ks)
    /\ frame' = [frame EXCEPT ![NULLPROC] = UserFrame]
    /\ UNCHANGED <<deferVars, semVars>>

resume(pid) ==
    /\ Caller
    /\ prstate[pid] = "SUSP"
    /\ Ready(pid, prstate, queue, qkey)
    /\ UNCHANGED <<semVars, msgVars, procVars, prsem, lifeVars, frame>>

\* Mutant: the null process is not exempt.
ExemptIfBad(pid) == isbadpid(pid)

\* suspend and kill refuse a free entry and the null process.
Exempt(pid) == isbadpid(pid) \/ pid = NULLPROC

suspend(pid) ==
    /\ Caller
    /\ ~Exempt(pid)
    /\ \/ /\ prstate[pid] = "READY"
          /\ queue' = getitem(queue, pid)
          /\ prstate' = [prstate EXCEPT ![pid] = "SUSP"]
          /\ UNCHANGED <<qkey, currpid, preempt, deferVars>>
       \/ /\ prstate[pid] = "CURR"
          /\ Block("SUSP", queue, qkey)
    /\ UNCHANGED <<semVars, msgVars, procVars, prsem, lifeVars, frame>>

\* chprio changes the table entry only: a ready process keeps its place.
chprio(pid, prio) ==
    /\ Caller
    /\ ~isbadpid(pid)
    /\ prprio' = [prprio EXCEPT ![pid] = prio]
    /\ UNCHANGED <<schedVars, deferVars, semVars, msgVars, prparent, prsem, lifeVars,
                   frame>>

----------------------------------------------------------------------------
\* Mutant: the count is compared and not changed.
OneLessCompared == prcount

OneLess == prcount - 1

\* kill, up to the message to the parent.  Only the null process left: xdone
\* halts the processor.  The message may make the parent ready and switch to
\* it in the middle of kill.
kill(pid) ==
    /\ Caller
    /\ ~Exempt(pid)
    /\ prcount' = OneLess
    /\ IF prcount - 1 <= 1
       THEN /\ halted' = TRUE
            /\ UNCHANGED <<msgVars, schedVars, deferVars>>
       ELSE /\ Send(prparent[pid], pid)
            /\ UNCHANGED halted
    /\ frame' = [frame EXCEPT ![currpid] = Frame("kill", 0, 0, pid)]
    /\ UNCHANGED <<semVars, procVars, prsem, nextpid, stkVars>>

\* Mutant: kill leaves the count of the semaphore alone.
CountWithoutKept(sem) == scount

\* The count of a semaphore that has lost a waiting process.
CountWithout(sem) == [scount EXCEPT ![sem] = @ + 1]

\* The rest of kill: free the stack and take the process off the list its
\* state says it is on.
killResumed ==
    /\ InFrame("kill")
    /\ freestk(prstkbase[frame[currpid].pid])
    /\ LET pid == frame[currpid].pid
           st  == [prstate EXCEPT ![pid] = "FREE"]
       IN  \/ /\ prstate[pid] = "CURR"
              /\ Resched(st, queue, qkey)
              /\ UNCHANGED scount
           \/ /\ prstate[pid] \in {"SLEEP", "RECTIM"}
              /\ prstate' = st
              /\ queue' = getitem(queue, pid)
              /\ qkey' = unsleepKey(queue, qkey, pid, sleepq)
              /\ UNCHANGED <<scount, currpid, preempt>>
           \/ /\ prstate[pid] = "WAIT"
              /\ prstate' = st
              /\ queue' = getitem(queue, pid)
              /\ scount' = CountWithout(prsem[pid])
              /\ UNCHANGED <<qkey, currpid, preempt>>
           \/ /\ prstate[pid] = "READY"
              /\ prstate' = st
              /\ queue' = getitem(queue, pid)
              /\ UNCHANGED <<scount, qkey, currpid, preempt>>
           \/ /\ prstate[pid] \in {"RECV", "SUSP", "FREE"}
              /\ prstate' = st
              /\ UNCHANGED <<scount, queue, qkey, currpid, preempt>>
    /\ Return
    /\ UNCHANGED <<deferVars, sstate, nextsem, msgVars, procVars, prsem, nextpid,
                   prcount, prstkbase, halted>>
=============================================================================

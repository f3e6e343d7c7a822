------------------------------- MODULE Kernel -------------------------------
(***************************************************************************)
(* The process manager as a whole: any user process, while it runs, makes  *)
(* any of the calls of its program with any arguments; the clock           *)
(* interrupts user code at any moment; a process that resched switched     *)
(* away from goes on where it stopped.  A call that fails (SYSERR) changes *)
(* nothing and is not a step, except create's loss of a stack (and entry). *)
(***************************************************************************)
EXTENDS Semaphores, Clock, Processes, FiniteSets

CONSTANT Programs   \* what program may be

CallNames == {"semcreate", "wait", "signal", "signaln", "semreset", "semdelete",
              "send", "receive", "recvclr", "recvtime", "yield", "sleepms",
              "create", "resume", "suspend", "chprio", "kill"}

ASSUME ProgramsAssumption == Programs \subseteq [Pids -> SUBSET CallNames]

Calling(call) == call \in program[currpid] /\ UNCHANGED program

\* sysinit has run: the null process is current, everything else is free.
Init ==
    /\ prstate = [p \in Pids |-> IF p = NULLPROC THEN "CURR" ELSE "FREE"]
    /\ prprio = [p \in Pids |-> 0]
    /\ prsem = [p \in Pids |-> -1]
    /\ prparent = [p \in Pids |-> 0]
    /\ prmsg = [p \in Pids |-> 0]
    /\ prhasmsg = [p \in Pids |-> FALSE]
    /\ queue = [q \in Qids |-> << >>]
    /\ qkey = [p \in Pids |-> 0]
    /\ sstate = [s \in Sems |-> "FREE"]
    /\ scount = [s \in Sems |-> 0]
    /\ nextsem = 0
    /\ currpid = NULLPROC
    /\ preempt = QUANTUM
    /\ ndefers = 0
    /\ attempt = FALSE
    /\ nextpid = 1
    /\ prcount = 1
    /\ prstkbase = [p \in Pids |-> 0]
    /\ stkfree = Stacks
    /\ frame = [p \in Pids |-> IF p = NULLPROC THEN Frame("boot", 0, 0, 0)
                               ELSE UserFrame]
    /\ halted = FALSE
    /\ program \in Programs

SemaphoreCall ==
    \/ Calling("semcreate") /\ \E c \in Counts : semcreate(c)
    \/ Calling("wait") /\ \E s \in Sems : wait(s)
    \/ Calling("signal") /\ \E s \in Sems : signal(s)
    \/ Calling("signaln") /\ \E s \in Sems, n \in SignalNs : signaln(s, n)
    \/ Calling("semreset") /\ \E s \in Sems, c \in Counts : semreset(s, c)
    \/ Calling("semdelete") /\ \E s \in Sems : semdelete(s)

MessageCall ==
    \/ Calling("send") /\ \E p \in Pids, m \in Msgs : send(p, m)
    \/ Calling("receive") /\ receive
    \/ Calling("recvclr") /\ recvclr
    \/ Calling("recvtime") /\ \E w \in MaxWaits : recvtime(w)

TimeCall ==
    \/ Calling("yield") /\ yield
    \/ Calling("sleepms") /\ \E d \in Delays : sleepms(d)

ProcessCall ==
    \/ Calling("create") /\ ((\E r \in Prios : create(r)) \/ createFull \/ createRefused)
    \/ Calling("resume") /\ \E p \in Pids : resume(p)
    \/ Calling("suspend") /\ \E p \in Pids : suspend(p)
    \/ Calling("chprio") /\ \E p \in Pids, r \in Prios : chprio(p, r)
    \/ Calling("kill") /\ \E p \in Pids : kill(p)

\* The current process goes on with a call it has begun.
Continue ==
    \/ signalnLoop /\ UNCHANGED program
    \/ semresetLoop /\ UNCHANGED program
    \/ semdeleteLoop /\ UNCHANGED program
    \/ receiveResumed /\ UNCHANGED program
    \/ recvtimeResumed /\ UNCHANGED program
    \/ wakeup /\ UNCHANGED program
    \/ clkhandlerResumed /\ UNCHANGED program
    \/ killResumed /\ UNCHANGED program
    \/ boot /\ UNCHANGED program

Tick == clkhandler /\ UNCHANGED program

\* xdone has halted the processor.
Halted == halted /\ UNCHANGED vars

Next == SemaphoreCall \/ MessageCall \/ TimeCall \/ ProcessCall
        \/ Continue \/ Tick \/ Halted

Spec == Init /\ [][Next]_vars

\* The processor goes on with what it has begun; an interrupt that is pending
\* while interrupts are disabled is taken when they are enabled again.
FairSpec == Spec /\ WF_vars(Continue) /\ SF_vars(Tick)

----------------------------------------------------------------------------
Loops == {"signaln", "semreset", "semdelete", "wakeup"}
Ats == {"user", "boot", "receive", "recvtime", "clkrest", "kill"} \cup Loops

\* Types.  The time slice never leaves 1..QUANTUM: preempt is unsigned, and
\* from zero clkhandler's decrement would wrap and disable preemption.
TypeOK ==
    /\ prstate \in [Pids -> PrStates]
    /\ prprio \in [Pids -> Nat]
    /\ prsem \in [Pids -> Sems \cup {-1}]
    /\ prparent \in [Pids -> Pids]
    /\ prmsg \in [Pids -> Int]
    /\ prhasmsg \in [Pids -> BOOLEAN]
    /\ queue \in [Qids -> Seq(Pids)]
    /\ qkey \in [Pids -> Int]
    /\ sstate \in [Sems -> {"FREE", "USED"}]
    /\ scount \in [Sems -> Int]
    /\ nextsem \in Sems
    /\ currpid \in Pids
    /\ preempt \in 1..QUANTUM
    /\ ndefers \in 0..1
    /\ attempt \in BOOLEAN
    /\ nextpid \in 1..NPROC
    /\ prcount \in Nat
    /\ prstkbase \in [Pids -> Stacks \cup {0}]
    /\ stkfree \subseteq Stacks
    /\ frame \in [Pids -> [at : Ats, sem : Sems, cnt : Nat, pid : Pids]]
    /\ halted \in BOOLEAN
    /\ program \in Programs

\* The list the state of process p says it is on is q.
OnList(p, q) ==
    \/ prstate[p] = "READY" /\ q = readylist
    \/ prstate[p] \in {"SLEEP", "RECTIM"} /\ q = sleepq
    \/ prstate[p] = "WAIT" /\ q = prsem[p]

\* Every process is linked exactly where its prstate says, and once: the one
\* node a process has in queuetab is never linked into two lists, and getitem
\* (kill, suspend, unsleep) never unlinks a node that is on no list.
QueueInv ==
    /\ \A q \in Qids, p \in Pids :
          (\E i \in 1..Len(queue[q]) : queue[q][i] = p) <=> OnList(p, q)
    /\ \A q \in Qids : \A i, j \in 1..Len(queue[q]) :
          queue[q][i] = queue[q][j] => i = j

\* Exactly one process is current, the one in currpid, and the null process is
\* always ready or current, so that resched always finds a process to run.
CurrInv ==
    /\ \A p \in Pids : prstate[p] = "CURR" <=> p = currpid
    /\ prstate[NULLPROC] \in {"CURR", "READY"}

\* A semaphore's count tells how many processes wait: minus the count when it
\* is negative, none otherwise.  semreset alone empties the queue first and
\* sets the count at its end, with interrupts disabled.
SemInv ==
    \A s \in Sems :
        \/ frame[currpid].at = "semreset" /\ frame[currpid].sem = s
        \/ Len(queue[s]) = IF scount[s] < 0 THEN -scount[s] ELSE 0

\* No wakeup is lost: nobody is blocked for a message while holding one, and
\* receive, which does not look again after resched, finds a message when it
\* is resumed.
MessageInv ==
    \A p \in Pids :
        /\ prstate[p] \in {"RECV", "RECTIM"} => ~prhasmsg[p]
        /\ (prstate[p] \in {"CURR", "READY", "SUSP"} /\ frame[p].at = "receive")
              => prhasmsg[p]

\* Rescheduling is deferred only inside the loops that defer it: user code and
\* a blocked process never leave Defer on.
DeferInv ==
    ndefers = IF ~halted /\ frame[currpid].at \in Loops THEN 1 ELSE 0

\* The ready list is in descending order of keys, as insert and resched expect.
ReadySorted ==
    \A i, j \in 1..Len(queue[readylist]) :
        i < j => qkey[queue[readylist][i]] >= qkey[queue[readylist][j]]

\* resched: "Reschedule processor to highest priority eligible process".
\* Whenever user code runs, no ready process has a higher priority.
HighestPriorityRuns ==
    InUser => \A p \in Pids : prstate[p] = "READY" => prprio[p] <= prprio[currpid]

Live == {p \in Pids : prstate[p] # "FREE"}

\* Processes that are in the middle of killing process p.
Killers(p) == {k \in Live : frame[k].at = "kill" /\ frame[k].pid = p}

\* Nobody kills a process that is being killed, or is killing another one.  The
\* code does not look, and then counts one death twice, or one that does not
\* come.
KillsApart ==
    \A k \in Live : frame[k].at = "kill" =>
        LET v == frame[k].pid
        IN  Killers(v) = {k} /\ prstate[v] # "FREE" /\ (v # k => Killers(k) = {})

\* prcount is the number of live processes, those being killed not counted,
\* also while the parent of one runs in the middle of kill.
PrcountExact ==
    KillsApart => prcount = Cardinality({p \in Live : Killers(p) = {}})

\* No live process runs on a stack that is free or that another one has.
StackOwned ==
    KillsApart =>
    \A p \in Live \ {NULLPROC} :
        /\ prstkbase[p] \notin stkfree \/ Killers(p) # {}
        /\ \A r \in Live \ {p} : prstkbase[r] # prstkbase[p]

----------------------------------------------------------------------------
\* Ticks until sleeper p is due: the keys of the delta list up to it, without
\* what the first one is overdue.
TicksLeft(p) ==
    LET s == queue[sleepq]
        i == CHOOSE j \in 1..Len(s) : s[j] = p
    IN  Elapsed(s, qkey, i) - Min({qkey[Head(s)], 0})

Sleeping(p) == prstate[p] \in {"SLEEP", "RECTIM"}

\* A tick brings every sleeper one tick nearer (or none, when the first one
\* was due already); nothing else that happens to the sleep queue, a new
\* sleeper, one that a message awakes or one that is killed, changes when the
\* others are due.
DelaysKept ==
    [][\A p \in Pids : Sleeping(p) /\ Sleeping(p)' /\ currpid # p =>
         IF clkhandler
         THEN TicksLeft(p)' \in {TicksLeft(p), TicksLeft(p) - 1}
         ELSE TicksLeft(p)' = TicksLeft(p)]_vars

\* A sleeper leaves the sleep queue only when its delay is over, when a message
\* comes, or when it is killed.
NeverEarly ==
    [][\A p \in Pids : Sleeping(p) /\ ~Sleeping(p)' =>
         \/ TicksLeft(p) <= 0
         \/ prstate[p] = "RECTIM" /\ prhasmsg'[p]
         \/ prstate'[p] = "FREE"]_vars

Waiting(p, s) == p \in Range(queue[s])
Before(p, q, s) ==
    \E i, j \in 1..Len(queue[s]) : i < j /\ queue[s][i] = p /\ queue[s][j] = q

\* Waiting processes are served first come first served: whoever waits stays
\* ahead of those who come later, and none of these is released before it.
FirstComeFirstServed ==
    [][\A s \in Sems : \A p, q \in Pids :
         /\ Waiting(p, s) /\ ~Waiting(q, s) =>
               (Waiting(p, s)' /\ Waiting(q, s)' => Before(p, q, s)')
         /\ Before(p, q, s) /\ Waiting(p, s)' =>
               Before(p, q, s)' \/ prstate'[q] = "FREE"]_vars

\* An undelivered message is neither overwritten nor dropped: it stays until its
\* process takes it or the process is gone.
MessageKept ==
    [][\A p \in Pids : prhasmsg[p] /\ prstate[p] # "FREE" =>
         \/ prhasmsg'[p] /\ prmsg'[p] = prmsg[p]
         \/ p = currpid /\ ~prhasmsg'[p]]_vars

----------------------------------------------------------------------------
Highest(p) == \A r \in Live : prprio[r] <= prprio[p]

\* A ready process that none outranks runs eventually: equals take turns.
TopProcessRuns ==
    \A p \in Pids : (prstate[p] = "READY" /\ Highest(p))
                        ~> (prstate[p] # "READY" \/ ~Highest(p) \/ halted)

\* Every sleeper wakes up.
SleepersWake ==
    \A p \in Pids : prstate[p] = "SLEEP" ~> (prstate[p] # "SLEEP" \/ halted)
=============================================================================

------------------------------- MODULE SemOps -------------------------------
(***************************************************************************)
(* A counting semaphore as the rest of the system uses it: one entry of    *)
(* semtab with its queue of processes (system/semcreate.c, wait.c,         *)
(* signal.c, signaln.c, semreset.c, semdelete.c and the case PR_WAIT of    *)
(* kill.c).  Kernel models the scheduling behind these calls and shows     *)
(* that the count of a semaphore in use and its queue agree; the modules   *)
(* that use SemOps let any process that is on no queue run.                *)
(***************************************************************************)
EXTENDS Integers, Sequences, SequencesExt

NoSem == [used |-> FALSE, count |-> 0, queue |-> << >>]

semcreate(n) == [used |-> TRUE, count |-> n, queue |-> << >>]

wait(s, p) ==
    [s EXCEPT !.count = @ - 1,
              !.queue = IF s.count - 1 < 0 THEN Append(@, p) ELSE @]

signaln(s, n) ==
    [s EXCEPT !.count = @ + n,
              !.queue = SubSeq(@, Min({n, Len(@)}) + 1, Len(@))]

signal(s) == signaln(s, 1)

semreset(s, n) == [s EXCEPT !.count = n, !.queue = << >>]

semdelete(s) == NoSem

\* kill of a process that waits on s.
Unwait(s, p) ==
    [s EXCEPT !.count = @ + 1,
              !.queue = RemoveAt(@, CHOOSE i \in 1..Len(@) : @[i] = p)]

Queued(s, p) == p \in Range(s.queue)
=============================================================================

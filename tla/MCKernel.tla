------------------------------ MODULE MCKernel ------------------------------
(***************************************************************************)
(* Instances of Kernel for TLC: the programs of the processes.  Process 0  *)
(* is the null process and 1, to begin with, the main process.             *)
(***************************************************************************)
EXTENDS Kernel

Spawn == {"create", "resume"}

\* The process in entry 1 runs one program, the others another.
MainAndOthers(main, others) == [p \in Pids |-> IF p = 1 THEN main ELSE others]

SemCalls == MainAndOthers(Spawn \cup {"semcreate", "wait", "signal", "signaln",
                                     "semreset", "semdelete", "sleepms"},
                          {"wait", "signal", "suspend", "resume", "sleepms"})

MsgCalls == MainAndOthers(Spawn \cup {"send", "receive", "recvtime", "sleepms"},
                          {"send", "receive", "recvclr", "recvtime", "sleepms",
                           "yield"})

KillCalls == MainAndOthers(Spawn \cup {"semcreate", "signal", "kill", "receive",
                                     "chprio"},
                           {"wait", "signal", "sleepms", "suspend", "kill"})

\* A run chooses one of its programs at the start.
SemPrograms == {SemCalls}
MsgAndKillPrograms == {MsgCalls, KillCalls}
=============================================================================

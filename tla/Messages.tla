------------------------------ MODULE Messages ------------------------------
(***************************************************************************)
(* One-word messages (system/send.c, receive.c, recvclr.c, recvtime.c).    *)
(* A process holds at most one undelivered message; a second send fails.   *)
(***************************************************************************)
EXTENDS ProcTab

CONSTANTS
    Msgs,       \* messages user processes send
    MaxWaits    \* timeouts given to recvtime, in ticks

ASSUME MsgAssumption == Msgs \subseteq Int /\ MaxWaits \subseteq Nat

\* Mutant: send does not look whether the recipient has a message.
RefusedIfBad(pid) == isbadpid(pid)

Refused(pid) == isbadpid(pid) \/ prhasmsg[pid]

\* send's body, which kill also calls: nothing happens when the recipient is
\* free or has a message; otherwise a recipient blocked in receive or recvtime
\* becomes ready.
Send(pid, msg) ==
    IF Refused(pid)
    THEN UNCHANGED <<msgVars, schedVars, deferVars>>
    ELSE /\ prmsg' = [prmsg EXCEPT ![pid] = msg]
         /\ prhasmsg' = [prhasmsg EXCEPT ![pid] = TRUE]
         /\ CASE prstate[pid] = "RECV" ->
                   Ready(pid, prstate, queue, qkey)
              [] prstate[pid] = "RECTIM" ->
                   Ready(pid, prstate, getitem(queue, pid),
                         unsleepKey(queue, qkey, pid, sleepq))
              [] OTHER -> UNCHANGED <<schedVars, deferVars>>

send(pid, msg) ==
    /\ Caller
    /\ Send(pid, msg)
    /\ UNCHANGED <<semVars, procVars, prsem, lifeVars, frame>>

\* Retrieve the message and return to the caller.
TakeMessage ==
    /\ prhasmsg' = [prhasmsg EXCEPT ![currpid] = FALSE]
    /\ UNCHANGED <<prmsg, schedVars, deferVars>>
    /\ Return

\* Block in state st, to go on at the retrieval when resumed.
AwaitMessage(at, state, qs, ks) ==
    /\ Block(state, qs, ks)
    /\ frame' = [frame EXCEPT ![currpid] = Frame(at, 0, 0, 0)]
    /\ UNCHANGED msgVars

\* Mutant: receive blocks without looking for a message.
receiveBlind ==
    /\ Caller
    /\ AwaitMessage("receive", "RECV", queue, qkey)
    /\ UNCHANGED <<semVars, procVars, prsem, lifeVars>>

receive ==
    /\ Caller
    /\ IF prhasmsg[currpid] THEN TakeMessage
       ELSE AwaitMessage("receive", "RECV", queue, qkey)
    /\ UNCHANGED <<semVars, procVars, prsem, lifeVars>>

\* After resched returns, receive takes prmsg without looking at prhasmsg.
receiveResumed ==
    /\ InFrame("receive")
    /\ TakeMessage
    /\ UNCHANGED <<semVars, procVars, prsem, lifeVars>>

recvclr ==
    /\ Caller
    /\ prhasmsg[currpid]
    /\ TakeMessage
    /\ UNCHANGED <<semVars, procVars, prsem, lifeVars>>

recvtime(maxwait) ==
    /\ Caller
    /\ IF prhasmsg[currpid] THEN TakeMessage
       ELSE AwaitMessage("recvtime", "RECTIM",
                         insertd(queue, qkey, currpid, sleepq, maxwait),
                         insertdKey(queue, qkey, currpid, sleepq, maxwait))
    /\ UNCHANGED <<semVars, procVars, prsem, lifeVars>>

\* A message came, or the timer expired and recvtime returns TIMEOUT.
recvtimeResumed ==
    /\ InFrame("recvtime")
    /\ TakeMessage
    /\ UNCHANGED <<semVars, procVars, prsem, lifeVars>>
=============================================================================

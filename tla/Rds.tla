-------------------------------- MODULE Rds ---------------------------------
(***************************************************************************)
(* The remote disk (device/rds): the calls of the device, the process      *)
(* rdsprocess that talks to the server, the exchange with the server with  *)
(* its retries (rdscomm), and the network between them.                    *)
(*                                                                         *)
(* Buffers are on the free list, in the cache or on the request queue.     *)
(* The calls run with interrupts enabled and without a lock; a call is     *)
(* split where it waits, and between the search of the lists and the       *)
(* allocation of a buffer.                                                 *)
(***************************************************************************)
EXTENDS SemOps, RdServer

CONSTANTS
    Users,      \* the processes that use the disk
    Ids,        \* the disks they open
    Blocks, Vals,
    RD_BUFFS, RD_RETRIES,
    Late,       \* TRUE if an answer may come after the timeout
    Calls,      \* the calls each user may make
    Mine,       \* the blocks each user may write
    MaxCalls    \* bound: how many calls there are in all

ASSUME RdsAssumption ==
    /\ IsFiniteSet(Users) /\ "rds" \notin Users /\ "none" \notin Users \cup Ids \cup Vals
    /\ Blocks \subseteq Nat /\ Mine \in [Users -> SUBSET Blocks]
    /\ RD_BUFFS \in Nat \ {0} /\ RD_RETRIES \in Nat \ {0}

Procs == Users \cup {"rds"}
Bufs == 1..RD_BUFFS

\* The answer to SYNC, which is the number of no buffer.
OK == RD_BUFFS + 1

VARIABLES
    rd,         \* rdstab[0]: the state, the ID, the sequence number and the lists
    bufs,       \* the buffers
    availsem, reqsem,
    call,       \* what each process is doing
    mbox,       \* the message each user holds: a buffer, OK, or 0 for none
    slot,       \* who waits in udp_recv
    toServer, toClient,
    srv,        \* the server
    latest,     \* ghost: what was written last to each block of the server's disk
    got,        \* what each user has read last
    allow,      \* ghost: what that read may give
    calls,      \* how many calls have been made
    status      \* "ok", "panic", or how the lists have come to be damaged

diskVars == <<rd, bufs, availsem, reqsem>>
netVars == <<slot, toServer, toClient>>
ghosts == <<latest, got, allow>>
vars == <<diskVars, call, mbox, netVars, srv, ghosts, calls, status>>

Empty == [op |-> "none", blk |-> 0, data |-> "none", valid |-> FALSE,
          refcnt |-> 0, pid |-> "none"]

NoMsg == [type |-> "none", seq |-> 0, id |-> "none", blk |-> 0, data |-> "none"]

\* i counts the tries of rdscomm, resp is the buffer for the answer.
Idle == [at |-> "idle", blk |-> 0, data |-> "none",
         msg |-> NoMsg, i |-> 0, xmit |-> TRUE, resp |-> "none"]

\* rdsinit; rdsprocess is created by initialize.
Init ==
    /\ rd = [state |-> "FREE", id |-> "none", seq |-> 1,
             free |-> [i \in Bufs |-> i], cache |-> << >>, reqq |-> << >>]
    /\ bufs = [b \in Bufs |-> Empty]
    /\ availsem = semcreate(RD_BUFFS)
    /\ reqsem = semcreate(0)
    /\ call = [p \in Procs |-> Idle]
    /\ mbox = [p \in Users |-> 0]
    /\ slot = "none"
    /\ toServer = {} /\ toClient = {}
    /\ srv = ServerInit
    /\ latest = [k \in Blocks |-> "none"]
    /\ got = [p \in Users |-> "none"]
    /\ allow = [p \in Users |-> {}]
    /\ calls = 0
    /\ status = "ok"

Goto(p, c, at) == call' = [call EXCEPT ![p] = [c EXCEPT !.at = at]]
Return(p) == Goto(p, Idle, "idle")

At(p, at) == status = "ok" /\ call[p].at = at /\ UNCHANGED calls

May(p, op) ==
    /\ status = "ok"
    /\ call[p].at = "idle"
    /\ op \in Calls[p]
    /\ calls < MaxCalls
    /\ calls' = calls + 1

----------------------------------------------------------------------------
\* rdscomm takes the next sequence number and sends m, up to RD_RETRIES times.
Exchange(p, c, m) ==
    Goto(p, [c EXCEPT !.msg = [m EXCEPT !.seq = rd.seq, !.id = rd.id], !.i = 1, !.xmit = TRUE],
         "send")

\* One try: the message is sent, unless an old answer has been thrown away, and
\* udp_recv is called, which fails when another process is in it.
rdscomm(p) ==
    /\ At(p, "send")
    /\ toServer' = IF call[p].xmit THEN toServer \cup {call[p].msg} ELSE toServer
    /\ IF slot = "none" THEN slot' = p /\ Goto(p, call[p], "recv")
       ELSE Goto(p, call[p], "SYSERR") /\ UNCHANGED slot
    /\ UNCHANGED <<diskVars, mbox, toClient, srv, ghosts, status>>

\* Mutant: after the last try the call succeeds.
AgainOK(p, c, xmit) ==
    IF c.i = RD_RETRIES THEN Goto(p, c, "OK")
    ELSE Goto(p, [c EXCEPT !.i = @ + 1, !.xmit = xmit], "send")

\* The next try, if there is one.
Again(p, c, xmit) ==
    IF c.i = RD_RETRIES THEN Goto(p, c, "SYSERR")
    ELSE Goto(p, [c EXCEPT !.i = @ + 1, !.xmit = xmit], "send")

\* An answer with an older sequence number only keeps the message from being sent
\* again: if its type is right, it is taken.
Mismatch(r, m) == r.seq > m.seq \/ r.type # m.type

rdscommReply(p, r) ==
    /\ At(p, "recv")
    /\ r \in toClient
    /\ toClient' = toClient \ {r}
    /\ slot' = "none"
    /\ LET m == call[p].msg
           c == [call[p] EXCEPT !.resp = IF r.data = "none" THEN @ ELSE r.data]
       IN  CASE Mismatch(r, m) -> Again(p, c, ~(r.seq < m.seq))
             [] ~Mismatch(r, m) /\ r.status # 0 -> Goto(p, c, "SYSERR")
             [] OTHER -> Goto(p, c, "OK")
    /\ UNCHANGED <<diskVars, mbox, toServer, srv, ghosts, status>>

\* udp_recv times out.  Unless Late, it does so only when a message was lost.
rdscommTimeout(p) ==
    /\ At(p, "recv")
    /\ Late \/ (toServer = {} /\ toClient = {})
    /\ slot' = "none"
    /\ Again(p, call[p], TRUE)
    /\ UNCHANGED <<diskVars, mbox, toServer, toClient, srv, ghosts, status>>

\* The network loses a message.
Lose ==
    /\ status = "ok"
    /\ \/ \E m \in toServer : toServer' = toServer \ {m} /\ UNCHANGED toClient
       \/ \E r \in toClient : toClient' = toClient \ {r} /\ UNCHANGED toServer
    /\ UNCHANGED <<diskVars, call, mbox, slot, srv, ghosts, calls, status>>

\* The server handles a message.
Serve(m) ==
    /\ status = "ok"
    /\ m \in toServer
    /\ toServer' = toServer \ {m}
    /\ LET a == Handle(srv, m) IN
       /\ srv' = a.srv
       /\ toClient' = IF a.reply = NoReply THEN toClient ELSE toClient \cup {a.reply}
       /\ IF m.id \in a.srv.ofiles THEN UNCHANGED <<latest, allow>>
          ELSE /\ latest' = [k \in Blocks |-> "none"]
               /\ allow' = [p \in Users |-> allow[p] \cup {"none"}]
    /\ UNCHANGED <<diskVars, call, mbox, slot, got, calls, status>>

----------------------------------------------------------------------------
rdsopen(p, id) ==
    /\ May(p, "open")
    /\ rd.state = "FREE"
    /\ rd' = [rd EXCEPT !.state = "PEND", !.id = id, !.seq = @ + 1]
    /\ call' = [call EXCEPT ![p] = [Idle EXCEPT !.at = "send", !.i = 1,
                  !.msg = [NoMsg EXCEPT !.type = "OREQ", !.seq = rd.seq, !.id = id]]]
    /\ UNCHANGED <<bufs, availsem, reqsem, mbox, netVars, srv, ghosts, status>>

\* rdsopen of an ID that is empty or too long: the device stays pending, and every later
\* rdsopen fails.  What was copied of the ID is never looked at.
rdsopenRefused(p) ==
    /\ May(p, "open")
    /\ rd.state = "FREE"
    /\ rd' = [rd EXCEPT !.state = "PEND"]
    /\ UNCHANGED <<bufs, availsem, reqsem, call, mbox, netVars, srv, ghosts, status>>

\* rdsopen after the exchange.
rdsopenDone(p) ==
    /\ p \in Users
    /\ At(p, "OK") \/ At(p, "SYSERR")
    /\ call[p].msg.type = "OREQ"
    /\ rd' = [rd EXCEPT !.state = IF call[p].at = "OK" THEN "OPEN" ELSE "FREE"]
    /\ Return(p)
    /\ UNCHANGED <<bufs, availsem, reqsem, mbox, netVars, srv, ghosts, status>>

\* Mutant: the cache keeps what has gone to the free list.
ClosedKept ==
    IF rd.state # "OPEN" \/ rd.reqq # << >> THEN UNCHANGED <<rd, bufs>>
    ELSE /\ rd' = [rd EXCEPT !.state = "FREE", !.free = Reverse(rd.cache) \o @]
         /\ UNCHANGED bufs

\* rdsclose moves the cache to the free list, if nothing is requested.
Closed ==
    IF rd.state # "OPEN" \/ rd.reqq # << >> THEN UNCHANGED <<rd, bufs>>
    ELSE /\ rd' = [rd EXCEPT !.state = "FREE", !.cache = << >>,
                             !.free = Reverse(rd.cache) \o @]
         /\ bufs' = [b \in Bufs |-> IF b \in Range(rd.cache)
                                    THEN [bufs[b] EXCEPT !.valid = FALSE] ELSE bufs[b]]

rdsclose(p) ==
    /\ May(p, "close")
    /\ Closed
    /\ UNCHANGED <<availsem, reqsem, call, mbox, netVars, srv, ghosts, status>>

\* rdscontrol(RDS_CTL_DEL)
rdsdelete(p) ==
    /\ May(p, "delete")
    /\ rd.state = "OPEN"
    /\ rd' = [rd EXCEPT !.seq = @ + 1]
    /\ Exchange(p, Idle, [NoMsg EXCEPT !.type = "DREQ"])
    /\ UNCHANGED <<bufs, availsem, reqsem, mbox, netVars, srv, ghosts, status>>

rdsdeleteDone(p) ==
    /\ p \in Users
    /\ At(p, "OK") \/ At(p, "SYSERR")
    /\ call[p].msg.type = "DREQ"
    /\ IF call[p].at = "OK" THEN Closed ELSE UNCHANGED <<rd, bufs>>
    /\ Return(p)
    /\ UNCHANGED <<availsem, reqsem, mbox, netVars, srv, ghosts, status>>

----------------------------------------------------------------------------
\* Where the cache holds block k, and the requests for it on the queue.
InCache(k) == {i \in DOMAIN rd.cache : bufs[rd.cache[i]].blk = k}
Requests(k) == {i \in DOMAIN rd.reqq : bufs[rd.reqq[i]].blk = k}
Writes(k) == {i \in Requests(k) : bufs[rd.reqq[i]].op = "WRITE"}

\* The copy of the block that a search of the cache finds, and its last request.
Cached(k) == rd.cache[Min(InCache(k))]
LastRequest(k) == rd.reqq[Max(Requests(k))]

Gets(p, data) == got' = [got EXCEPT ![p] = data]

\* Mutant: the status of the copy in the cache is not looked at.
HitInvalid(k) ==
    IF InCache(k) # {} THEN Cached(k)
    ELSE IF Requests(k) # {} /\ bufs[LastRequest(k)].op = "WRITE" THEN LastRequest(k)
    ELSE 0

\* A valid copy in the cache, else a write that is the last request for the block.
Hit(k) ==
    IF InCache(k) # {} /\ bufs[Cached(k)].valid THEN Cached(k)
    ELSE IF Requests(k) # {} /\ bufs[LastRequest(k)].op = "WRITE" THEN LastRequest(k)
    ELSE 0

rdsread(p, k) ==
    /\ May(p, "read")
    /\ rd.state = "OPEN"
    /\ IF Hit(k) # 0
       THEN Gets(p, bufs[Hit(k)].data) /\ UNCHANGED <<call, availsem>>
       ELSE /\ availsem' = wait(availsem, p)
            /\ Goto(p, [Idle EXCEPT !.blk = k, !.msg.type = "READ"], "alloc")
            /\ Gets(p, "none")
    /\ allow' = [allow EXCEPT ![p] = {latest[k]}]
    /\ UNCHANGED <<rd, bufs, reqsem, mbox, netVars, srv, latest, status>>

\* What the disk will hold, if the server has it open; a read of the block that is
\* under way may give it.
Reading(p, k) == call[p].at # "idle" /\ call[p].msg.type = "READ" /\ call[p].blk = k

Update(k, v) ==
    LET new == IF rd.id \in srv.ofiles THEN v ELSE latest[k] IN
    /\ latest' = [latest EXCEPT ![k] = new]
    /\ allow' = [p \in Users |-> IF Reading(p, k) THEN allow[p] \cup {new} ELSE allow[p]]

Request(p, op, k, v) ==
    [op |-> op, blk |-> k, data |-> v, valid |-> op = "WRITE",
     refcnt |-> IF op = "WRITE" THEN 0 ELSE 1, pid |-> p]

\* rdswrite replaces the contents of a write that is still on the queue, ...
Replace(k, v) ==
    /\ bufs' = [bufs EXCEPT ![rd.reqq[Min(Writes(k))]].data = v]
    /\ Update(k, v)
    /\ UNCHANGED <<rd, availsem, reqsem, call, status>>

\* ... or takes the copy in the cache, counting it off with semreset, which
\* refuses a negative count.  A second copy of the block that stays in the cache is
\* the one a reader will find; ...
Take(p, k, v) ==
    LET b == Cached(k) IN
    /\ rd' = [rd EXCEPT !.cache = RemoveAt(@, Min(InCache(k))), !.reqq = Append(@, b)]
    /\ bufs' = [bufs EXCEPT ![b] = Request(p, "WRITE", k, v)]
    /\ availsem' = IF availsem.count > 0 THEN semreset(availsem, availsem.count - 1)
                   ELSE availsem
    /\ status' = IF availsem.count <= 0 THEN "uncounted"
                 ELSE IF Cardinality(InCache(k)) > 1 THEN "shadowed" ELSE status
    /\ reqsem' = signal(reqsem)
    /\ Update(k, v)
    /\ UNCHANGED call

Takeable(k) == InCache(k) # {} /\ bufs[Cached(k)].refcnt <= 0

rdswrite(p, k, v) ==
    /\ May(p, "write")
    /\ rd.state = "OPEN"
    /\ IF Writes(k) # {} THEN Replace(k, v)
       ELSE IF Takeable(k) THEN Take(p, k, v)
       ELSE /\ availsem' = wait(availsem, p)
            /\ Goto(p, [Idle EXCEPT !.blk = k, !.data = v, !.msg.type = "WRITE"], "alloc")
            /\ UNCHANGED <<rd, bufs, reqsem, latest, allow, status>>
    /\ UNCHANGED <<mbox, netVars, srv, got>>

\* rdscontrol(RDS_CTL_SYNC)
rdssync(p) ==
    /\ May(p, "sync")
    /\ rd.state = "OPEN"
    /\ availsem' = wait(availsem, p)
    /\ Goto(p, [Idle EXCEPT !.msg.type = "SYNC"], "alloc")
    /\ UNCHANGED <<rd, bufs, reqsem, mbox, netVars, srv, ghosts, status>>

----------------------------------------------------------------------------
\* rdsbufalloc: the free list first, then the oldest copy nobody is reading.  There may
\* be none: a copy that waits for its reader is counted by rd_availsem all the same.
Reusable == {i \in DOMAIN rd.cache : bufs[rd.cache[i]].refcnt <= 0}

rdsbufalloc ==
    IF rd.free # << >> THEN Head(rd.free)
    ELSE IF Reusable # {} THEN rd.cache[Max(Reusable)]
    ELSE 0

\* The request goes to the tail of the queue, and the reader waits for a message.
\* SYNC resumes rdsprocess, which is not suspended, and signals nothing.  After a
\* close the buffer may be one that a reader has been sent and not yet copied.
Enqueue(p) ==
    /\ At(p, "alloc")
    /\ ~Queued(availsem, p)
    /\ LET b == rdsbufalloc
           c == call[p]
           op == c.msg.type
       IN  IF b = 0
           THEN status' = "panic" /\ UNCHANGED <<rd, bufs, reqsem, call, mbox, latest, allow>>
           ELSE /\ rd' = [rd EXCEPT
                            !.free = IF @ # << >> THEN Tail(@) ELSE @,
                            !.cache = IF rd.free # << >> THEN @ ELSE RemoveAt(@, Max(Reusable)),
                            !.reqq = Append(@, b)]
                /\ bufs' = [bufs EXCEPT ![b] = Request(p, op, c.blk, c.data)]
                /\ reqsem' = IF op = "SYNC" THEN reqsem ELSE signal(reqsem)
                /\ IF op = "WRITE" THEN Return(p) /\ Update(c.blk, c.data) /\ UNCHANGED mbox
                   ELSE /\ Goto(p, c, "receive")
                        /\ mbox' = [mbox EXCEPT ![p] = 0]
                        /\ UNCHANGED <<latest, allow>>
                /\ status' = IF \E q \in Users : mbox[q] = b THEN "reused" ELSE status
    /\ UNCHANGED <<availsem, netVars, srv, got>>

\* receive returns with the buffer.  The loop that looks for another copy of the block
\* never moves on from the first buffer of the cache: unless that is the one that was
\* received, the process spins for ever.
rdsreadDone(p) ==
    /\ At(p, "receive")
    /\ call[p].msg.type = "READ"
    /\ mbox[p] \in Bufs
    /\ LET b == mbox[p] IN
       /\ bufs' = [bufs EXCEPT ![b].refcnt = @ - 1]
       /\ Gets(p, bufs[b].data)
       /\ status' = IF bufs[b].refcnt <= 1 /\ (rd.cache = << >> \/ rd.cache[1] # b)
                    THEN "spins" ELSE status
    /\ mbox' = [mbox EXCEPT ![p] = 0]
    /\ Return(p)
    /\ UNCHANGED <<rd, availsem, reqsem, netVars, srv, latest, allow>>

rdssyncDone(p) ==
    /\ At(p, "receive")
    /\ call[p].msg.type = "SYNC"
    /\ mbox[p] # 0
    /\ mbox' = [mbox EXCEPT ![p] = 0]
    /\ Return(p)
    /\ UNCHANGED <<diskVars, netVars, srv, ghosts, status>>

----------------------------------------------------------------------------
\* rdsprocess waits for a request ...
rdsprocess ==
    /\ At("rds", "idle")
    /\ reqsem' = wait(reqsem, "rds")
    /\ Goto("rds", call["rds"], "head")
    /\ UNCHANGED <<rd, bufs, availsem, mbox, netVars, srv, ghosts, status>>

Asked(op) ==
    /\ At("rds", "head")
    /\ ~Queued(reqsem, "rds")
    /\ rd.reqq # << >>
    /\ bufs[Head(rd.reqq)].op = op

\* send: a process that holds a message keeps it.
Sent(p, m) == mbox' = IF p \in Users /\ mbox[p] = 0 THEN [mbox EXCEPT ![p] = m] ELSE mbox

ServeRead ==
    /\ Asked("READ")
    /\ rd' = [rd EXCEPT !.seq = @ + 1]
    /\ Exchange("rds", call["rds"],
                [NoMsg EXCEPT !.type = "RREQ", !.blk = bufs[Head(rd.reqq)].blk])
    /\ UNCHANGED <<bufs, availsem, reqsem, mbox, netVars, srv, ghosts, status>>

\* A buffer goes from the head of the queue to the head of the cache.
ToCache == [rd EXCEPT !.reqq = Tail(@), !.cache = <<Head(rd.reqq)>> \o @]

\* A write is in the cache, and may be reused, before it is sent.
ServeWrite ==
    /\ Asked("WRITE")
    /\ rd' = [ToCache EXCEPT !.seq = @ + 1]
    /\ LET b == Head(rd.reqq) IN
       /\ bufs' = [bufs EXCEPT ![b].refcnt = 0]
       /\ Exchange("rds", call["rds"],
                   [NoMsg EXCEPT !.type = "WREQ", !.blk = bufs[b].blk, !.data = bufs[b].data])
    /\ availsem' = signal(availsem)
    /\ UNCHANGED <<reqsem, mbox, netVars, srv, ghosts, status>>

ServeSync ==
    /\ Asked("SYNC")
    /\ LET b == Head(rd.reqq) IN
       /\ Sent(bufs[b].pid, OK)
       /\ rd' = [rd EXCEPT !.reqq = Tail(@), !.free = <<b>> \o @]
    /\ availsem' = signal(availsem)
    /\ Goto("rds", call["rds"], "idle")
    /\ UNCHANGED <<bufs, reqsem, netVars, srv, ghosts, status>>

\* The answer to a read.  The status of the buffer stays as it was.  Another request
\* for the same block, of any kind, is taken off the queue with the links of the wrong
\* buffer, which joins the queue to the cache: the model stops before that.
ReadServed ==
    /\ At("rds", "OK")
    /\ call["rds"].msg.type = "RREQ"
    /\ LET b == Head(rd.reqq) IN
       /\ rd' = ToCache
       /\ bufs' = [bufs EXCEPT ![b].data = call["rds"].resp, ![b].refcnt = 1]
       /\ Sent(bufs[b].pid, b)
       /\ status' = IF \E q \in Range(Tail(rd.reqq)) : bufs[q].blk = bufs[b].blk
                    THEN "relinked" ELSE status
    /\ availsem' = signal(availsem)
    /\ Goto("rds", call["rds"], "idle")
    /\ UNCHANGED <<reqsem, netVars, srv, ghosts>>

WriteServed ==
    /\ At("rds", "OK")
    /\ call["rds"].msg.type = "WREQ"
    /\ Goto("rds", call["rds"], "idle")
    /\ UNCHANGED <<diskVars, mbox, netVars, srv, ghosts, status>>

\* rdsprocess gives up when the server cannot be reached.
Unreachable ==
    /\ At("rds", "SYSERR")
    /\ status' = "panic"
    /\ UNCHANGED <<diskVars, call, mbox, netVars, srv, ghosts>>

----------------------------------------------------------------------------
Enter(p) ==
    \/ (\E id \in Ids : rdsopen(p, id)) \/ rdsopenRefused(p)
    \/ rdsclose(p) \/ rdsdelete(p) \/ rdssync(p)
    \/ \E k \in Blocks : rdsread(p, k)
    \/ \E k \in Mine[p], v \in Vals : rdswrite(p, k, v)

Proceed(p) ==
    \/ Enqueue(p) \/ rdsreadDone(p) \/ rdssyncDone(p)
    \/ rdsopenDone(p) \/ rdsdeleteDone(p)

Comm(p) == rdscomm(p) \/ (\E r \in toClient : rdscommReply(p, r)) \/ rdscommTimeout(p)

Rdsprocess ==
    \/ rdsprocess \/ ServeRead \/ ServeWrite \/ ServeSync
    \/ ReadServed \/ WriteServed \/ Unreachable

Next ==
    \/ \E p \in Users : Enter(p) \/ Proceed(p)
    \/ \E p \in Procs : Comm(p)
    \/ Rdsprocess
    \/ \E m \in toServer : Serve(m)
    \/ Lose

Spec == Init /\ [][Next]_vars

----------------------------------------------------------------------------
TypeOK ==
    /\ rd.state \in {"FREE", "PEND", "OPEN"}
    /\ rd.seq \in Nat
    /\ \A b \in Bufs : bufs[b].refcnt \in 0..1
    /\ slot \in Procs \cup {"none"}
    /\ \A p \in Procs : call[p].i \in 0..RD_RETRIES
    /\ status \in {"ok", "panic", "uncounted", "spins", "relinked", "reused", "shadowed"}

\* Every buffer is on exactly one of the three lists, and rd_availsem counts those that
\* are not on the request queue, less the ones promised to a process.
BuffersOwned ==
    TypeOK /\ (status = "ok" =>
       LET all == rd.free \o rd.cache \o rd.reqq IN
       /\ Len(all) = RD_BUFFS /\ Range(all) = Bufs
       /\ availsem.count = Len(rd.free) + Len(rd.cache)
                           - Cardinality({p \in Users : call[p].at = "alloc"}))

\* A read gives what was written last when it was made, or since, wherever that is: in
\* the cache, on the request queue, or at the server after losses and retries.
ReadsLatest ==
    status = "ok" => \A p \in Users : got[p] = "none" \/ allow[p] \cap {"none", got[p]} # {}

\* What was written last to a block is on the request queue, or on its way, or at the
\* server: no write is lost and none overtakes another.
WritesKept ==
    \A k \in Blocks :
       status = "ok" /\ latest[k] # "none" =>
          LET c == call["rds"] IN
          latest[k] = IF Writes(k) # {} THEN bufs[rd.reqq[Max(Writes(k))]].data
                      ELSE IF /\ c.at \in {"send", "recv", "SYSERR"}
                              /\ c.msg.type = "WREQ" /\ c.msg.blk = k
                      THEN c.msg.data
                      ELSE IF k < Len(srv.files[rd.id]) THEN srv.files[rd.id][k + 1]
                      ELSE "none"
=============================================================================

-------------------------------- MODULE Rfs ---------------------------------
(***************************************************************************)
(* The remote file system (device/rfs): the calls of the master device and *)
(* of the file pseudo-devices, the exchange with the file server with its  *)
(* retries (rfscomm), and the network between them.                        *)
(*                                                                         *)
(* Every call holds rf_mutex from its beginning to its return, also while  *)
(* it waits for the server.  A call is one step up to the wait for the     *)
(* mutex, one up to the first udp_recv, and one for every udp_recv.        *)
(***************************************************************************)
EXTENDS SemOps, FiniteSets

CONSTANTS
    Procs,          \* the processes that use the file system
    Programs,       \* the programs: which calls each process may make, and how
                    \* many calls there are in all
    Length,         \* for every file name its length
    Nrfl, RF_NAMLEN, RF_DATALEN, RF_RETRIES,
    Overtaking,     \* TRUE if a request may reach the server before an older one
    MaxInTransit    \* bound: how many requests, and how many answers, the network
                    \* holds; it loses what is more

ASSUME RfsAssumption ==
    /\ Length \in [DOMAIN Length -> Nat] /\ "" \in DOMAIN Length /\ Length[""] = 0
    /\ Nrfl \in Nat \ {0} /\ RF_DATALEN \in Nat \ {0} /\ RF_RETRIES \in Nat \ {0}
    /\ RF_NAMLEN \in Nat \ {0}
    /\ Overtaking \in BOOLEAN /\ MaxInTransit \in Nat

VARIABLES
    rfltab,     \* the control blocks of the pseudo-devices
    Rf_data,    \* the next sequence number, rf_registered and rf_mutex
    call,       \* the call each process is in
    result,     \* what its last call returned
    toServer,   \* requests under way, in the order in which they were sent
    toClient,   \* answers under way
    srv,        \* the files and directories of the server
    prog        \* the program that runs, with the number of calls that are left

net == <<toServer, toClient>>
vars == <<rfltab, Rf_data, call, result, net, srv, prog>>

Slots == 0..(Nrfl - 1)
Free == {s \in Slots : rfltab[s].state = "FREE"}

\* ok is FALSE for SYSERR.
Failed == [ok |-> FALSE, len |-> 0, data |-> << >>]
Gave(len, data) == [ok |-> TRUE, len |-> len, data |-> data]

NoMsg == [type |-> "none", seq |-> 0, name |-> "", mode |-> {}, pos |-> 0, len |-> 0,
          data |-> << >>]

\* num is a count or a position, text what is written or a mode string, i counts
\* the tries of rfscomm.
User == [at |-> "user", op |-> "none", slot |-> 0, name |-> "", num |-> 0, text |-> << >>,
         msg |-> NoMsg, i |-> 0]

rflinit == [state |-> "FREE", name |-> "", pos |-> 0, mode |-> {}]

\* rfsinit
Init ==
    /\ rfltab = [s \in Slots |-> rflinit]
    /\ Rf_data = [seq |-> 1, registered |-> FALSE, mutex |-> semcreate(1)]
    /\ call = [p \in Procs |-> User]
    /\ result = [p \in Procs |-> Failed]
    /\ toServer = << >> /\ toClient = {}
    /\ srv = [files |-> << >>, dirs |-> {}]
    /\ prog \in Programs

----------------------------------------------------------------------------
(* The file server, which is no part of the system, and the network.       *)

Slice(f, pos, n) == SubSeq(f, pos + 1, Min({pos + n, Len(f)}))

Overlaid(f, pos, d) ==
    [i \in 1..Max({Len(f), pos + Len(d)}) |->
        CASE i \in (pos + 1)..(pos + Len(d)) -> d[i - pos]
          [] i \notin (pos + 1)..(pos + Len(d)) /\ i <= Len(f) -> f[i]
          [] OTHER -> "zero"]

With(files, n, f) == [x \in DOMAIN files \cup {n} |-> IF x = n THEN f ELSE files[x]]
Without(files, n) == [x \in DOMAIN files \ {n} |-> files[x]]

\* The server refuses a request whose file is not there, a new file that is there,
\* and the same for directories.
Denied(m) ==
    LET there == m.name \in DOMAIN srv.files IN
    CASE m.type = "OREQ" -> ("o" \in m.mode /\ ~there) \/ ("n" \in m.mode /\ there)
      [] m.type = "MREQ" -> m.name \in srv.dirs
      [] m.type = "XREQ" -> m.name \notin srv.dirs
      [] OTHER -> ~there

Changed(m) ==
    CASE m.type = "OREQ" /\ m.name \notin DOMAIN srv.files ->
           [srv EXCEPT !.files = With(@, m.name, << >>)]
      [] m.type = "WREQ" -> [srv EXCEPT !.files[m.name] = Overlaid(@, m.pos, m.data)]
      [] m.type = "TREQ" -> [srv EXCEPT !.files[m.name] = << >>]
      [] m.type = "DREQ" -> [srv EXCEPT !.files = Without(@, m.name)]
      [] m.type = "MREQ" -> [srv EXCEPT !.dirs = @ \cup {m.name}]
      [] m.type = "XREQ" -> [srv EXCEPT !.dirs = @ \ {m.name}]
      [] OTHER -> srv

Reply(m, status, len, data) ==
    [type |-> m.type, seq |-> m.seq, status |-> status, len |-> len, data |-> data]

Answer(m) ==
    IF Denied(m) THEN Reply(m, 1, 0, << >>)
    ELSE CASE m.type = "RREQ" ->
                LET d == Slice(srv.files[m.name], m.pos, m.len) IN Reply(m, 0, Len(d), d)
           [] m.type = "WREQ" -> Reply(m, 0, m.len, << >>)
           [] m.type = "SREQ" -> Reply(m, 0, Len(srv.files[m.name]), << >>)
           [] OTHER -> Reply(m, 0, 0, << >>)

\* The server handles the oldest request, or any.
Serve ==
    \E k \in 1..Len(toServer) :
      /\ Overtaking \/ k = 1
      /\ toServer' = RemoveAt(toServer, k)
      /\ toClient' = IF Cardinality(toClient) < MaxInTransit
                     THEN toClient \cup {Answer(toServer[k])} ELSE toClient
      /\ srv' = IF Denied(toServer[k]) THEN srv ELSE Changed(toServer[k])
      /\ UNCHANGED <<rfltab, Rf_data, call, result, prog>>

\* The network loses a message.
Lose ==
    /\ \/ \E k \in 1..Len(toServer) : toServer' = RemoveAt(toServer, k) /\ UNCHANGED toClient
       \/ \E r \in toClient : toClient' = toClient \ {r} /\ UNCHANGED toServer
    /\ UNCHANGED <<rfltab, Rf_data, call, result, srv, prog>>

----------------------------------------------------------------------------
(* rfscomm.                                                                *)

\* signal(rf_mutex) and return.
Leave(p, rf, r) ==
    /\ Rf_data' = [rf EXCEPT !.mutex = signal(@)]
    /\ call' = [call EXCEPT ![p] = User]
    /\ result' = [result EXCEPT ![p] = r]

\* udp_send; the registered slot is never released, so it does not fail.
Sent(m) == toServer' = IF Len(toServer) < MaxInTransit THEN Append(toServer, m) ELSE toServer

\* The call c takes the next sequence number and sends m for the first time.  The
\* port is registered by the first call of all, which may fail.
rfscomm(p, c, m) ==
    LET msg == [m EXCEPT !.seq = Rf_data.seq] IN
    \/ /\ Rf_data' = [Rf_data EXCEPT !.seq = @ + 1, !.registered = TRUE]
       /\ call' = [call EXCEPT ![p] = [c EXCEPT !.at = "recv", !.msg = msg, !.i = 1]]
       /\ Sent(msg)
       /\ UNCHANGED <<result, toClient>>
    \/ /\ ~Rf_data.registered
       /\ Leave(p, Rf_data, Failed)
       /\ UNCHANGED net

\* Process p is in its call, at a place where it has the mutex.
At(p, at) == call[p].at = at /\ ~Queued(Rf_data.mutex, p) /\ UNCHANGED prog

\* Mutant: a call that gives up keeps the mutex.
GivenUpHeld(p) ==
    /\ call' = [call EXCEPT ![p] = User]
    /\ result' = [result EXCEPT ![p] = Failed]
    /\ UNCHANGED Rf_data

\* The call gives up, and its caller returns SYSERR.
GivenUp(p) == Leave(p, Rf_data, Failed)

\* The next try, if there is one left.
Again(p) ==
    IF call[p].i = RF_RETRIES THEN GivenUp(p) /\ UNCHANGED toServer
    ELSE /\ call' = [call EXCEPT ![p].i = @ + 1]
         /\ Sent(call[p].msg)
         /\ UNCHANGED <<Rf_data, result>>

\* udp_recv times out; the answer may still come.
rfscommTimeout(p) ==
    /\ At(p, "recv")
    /\ Again(p)
    /\ UNCHANGED <<rfltab, toClient, srv>>

\* Mutant: the sequence number of an answer is not looked at.
MatchesType(r, m) == r.type = m.type

Matches(r, m) == r.seq = m.seq /\ r.type = m.type

\* What the call returns once it has the answer r.
Returned(c, r) ==
    CASE c.op \in {"read", "getc"} -> Gave(r.len, r.data)
      [] c.op \in {"write", "putc", "size"} -> Gave(r.len, << >>)
      [] OTHER -> Gave(0, << >>)

\* A size is returned whatever the status.
Bad(c, r) ==
    \/ r.status # 0 /\ c.op # "size"
    \/ c.op \in {"getc", "putc"} /\ r.len # 1

\* The control block after an answer of success: rfsopen, rflread and rflwrite.
Settled(c, r) ==
    CASE c.op = "open" -> [rfltab EXCEPT ![c.slot].state = "USED", ![c.slot].pos = 0]
      [] c.op \in {"read", "getc", "write", "putc"} -> [rfltab EXCEPT ![c.slot].pos = @ + r.len]
      [] OTHER -> rfltab

\* udp_recv gives an answer, which the network may deliver again.
rfscommReply(p) ==
    /\ At(p, "recv")
    /\ \E r \in toClient :
         /\ toClient' \in {toClient, toClient \ {r}}
         /\ IF Matches(r, call[p].msg)
            THEN /\ Leave(p, Rf_data, IF Bad(call[p], r) THEN Failed ELSE Returned(call[p], r))
                 /\ rfltab' = IF r.status # 0 THEN rfltab ELSE Settled(call[p], r)
                 /\ UNCHANGED toServer
            ELSE Again(p) /\ UNCHANGED rfltab
    /\ UNCHANGED srv

----------------------------------------------------------------------------
(* The calls.                                                              *)

\* A process makes a call, and waits for the mutex.
Enter(p, c) ==
    /\ call[p].at = "user"
    /\ prog.left > 0
    /\ prog' = [prog EXCEPT !.left = @ - 1]
    /\ Rf_data' = [Rf_data EXCEPT !.mutex = wait(@, p)]
    /\ call' = [call EXCEPT ![p] = [c EXCEPT !.at = "enter"]]
    /\ UNCHANGED <<rfltab, result, net, srv>>

Begin(p, ops) == At(p, "enter") /\ call[p].op \in ops /\ UNCHANGED srv

\* The call returns without having asked the server.
Return(p, r) == Leave(p, Rf_data, r) /\ UNCHANGED net

\* No letter comes twice, and o and n not together.
LegalMode(mode) ==
    /\ Range(mode) \subseteq {"r", "w", "o", "n"}
    /\ IsInjective(mode)
    /\ ~({"o", "n"} \subseteq Range(mode))

rfsgetmode(mode) ==
    Range(mode) \cup (IF Range(mode) \cap {"r", "w"} = {} THEN {"r", "w"} ELSE {})

\* What rfsgetmode returns for any other string: SYSERR has every bit set.
RefusedMode == {"r", "w", "o", "n"}

\* Name and mode go into the first free control block before they are looked at.
rfsopen(p) ==
    /\ Begin(p, {"open"})
    /\ LET c == call[p]
           s == Min(Free)
           named == [rfltab EXCEPT ![s].name = c.name]
       IN  CASE Free = {} -> Return(p, Failed) /\ UNCHANGED rfltab
             [] Free # {} /\ Length[c.name] \notin 1..(RF_NAMLEN - 1) ->
                  Return(p, Failed) /\ rfltab' = named
             [] Free # {} /\ Length[c.name] \in 1..(RF_NAMLEN - 1) /\ ~LegalMode(c.text) ->
                  Return(p, Failed) /\ rfltab' = [named EXCEPT ![s].mode = RefusedMode]
             [] OTHER ->
                  LET mode == rfsgetmode(c.text) IN
                  /\ rfltab' = [named EXCEPT ![s].mode = mode]
                  /\ rfscomm(p, [c EXCEPT !.slot = s],
                             [NoMsg EXCEPT !.type = "OREQ", !.name = c.name, !.mode = mode])

\* The request of a call on an open device.
Request(type, c, len, data) ==
    [NoMsg EXCEPT !.type = type, !.name = rfltab[c.slot].name, !.pos = rfltab[c.slot].pos,
                  !.len = len, !.data = data]

Usable(c, len, bit) ==
    len \in 1..RF_DATALEN /\ c.slot \notin Free /\ bit \in rfltab[c.slot].mode

\* rflread; rflgetc reads one character.
rflread(p) ==
    /\ Begin(p, {"read", "getc"})
    /\ LET c == call[p]
           len == IF c.op = "getc" THEN 1 ELSE c.num
       IN  IF Usable(c, len, "r") THEN rfscomm(p, c, Request("RREQ", c, len, << >>))
           ELSE Return(p, Failed)
    /\ UNCHANGED rfltab

\* What the call writes; rflputc writes one character.
Data(c) == IF c.op = "putc" THEN SubSeq(c.text, 1, 1) ELSE c.text

rflwrite(p) ==
    /\ Begin(p, {"write", "putc"})
    /\ LET c == call[p]
           data == Data(c)
       IN  IF Usable(c, Len(data), "w") THEN rfscomm(p, c, Request("WREQ", c, Len(data), data))
           ELSE Return(p, Failed)
    /\ UNCHANGED rfltab

rflseek(p) ==
    /\ Begin(p, {"seek"})
    /\ LET c == call[p] IN
       IF c.slot \in Free THEN Return(p, Failed) /\ UNCHANGED rfltab
       ELSE Return(p, Gave(0, << >>)) /\ rfltab' = [rfltab EXCEPT ![c.slot].pos = c.num]

rflclose(p) ==
    /\ Begin(p, {"close"})
    /\ LET c == call[p] IN
       IF c.slot \in Free THEN Return(p, Failed) /\ UNCHANGED rfltab
       ELSE Return(p, Gave(0, << >>)) /\ rfltab' = [rfltab EXCEPT ![c.slot].state = "FREE"]

Functions == {"delete", "truncate", "mkdir", "rmdir"}
TypeOf == [delete |-> "DREQ", truncate |-> "TREQ", mkdir |-> "MREQ", rmdir |-> "XREQ"]

\* The header-only request for the file that is named.
rfsndmsg(p, c) == rfscomm(p, c, [NoMsg EXCEPT !.type = TypeOf[c.op], !.name = c.name])

\* All functions look at the name in the control block first; only the size is
\* asked for that name, in use or not.
rfscontrol(p) ==
    /\ Begin(p, Functions \cup {"size", "invalid"})
    /\ LET c == call[p]
           name == rfltab[c.slot].name
       IN  CASE Length[name] >= RF_NAMLEN - 1 \/ c.op = "invalid" -> Return(p, Failed)
             [] Length[name] < RF_NAMLEN - 1 /\ c.op \in Functions -> rfsndmsg(p, c)
             [] OTHER -> rfscomm(p, c, [NoMsg EXCEPT !.type = "SREQ", !.name = name])
    /\ UNCHANGED rfltab

----------------------------------------------------------------------------
\* A call with its arguments: the device or the file it is for, a count or a
\* position, and a text or a mode string.
Call(op, slot, name, num, text) ==
    [User EXCEPT !.op = op, !.slot = slot, !.name = name, !.num = num, !.text = text]

Ops == Functions \cup {"open", "read", "getc", "write", "putc", "seek", "close", "size",
                      "invalid"}

\* A program makes calls with arguments of their types.
ASSUME ProgramsAssumption ==
    \A g \in Programs :
       /\ g = [left |-> g.left, calls |-> g.calls]
       /\ \A p \in Procs : \A c \in g.calls[p] :
             /\ c = Call(c.op, c.slot, c.name, c.num, c.text)
             /\ c.op \in Ops /\ c.slot \in Slots /\ c.name \in DOMAIN Length
             /\ c.num \in Nat /\ c.text \in Seq(Range(c.text))
             /\ c.op = "putc" => c.text # << >>

\* A process that has the mutex goes on.
Step(p) ==
    \/ rfsopen(p) \/ rflread(p) \/ rflwrite(p) \/ rflseek(p) \/ rflclose(p) \/ rfscontrol(p)
    \/ rfscommReply(p) \/ rfscommTimeout(p)

Next ==
    \/ \E p \in Procs : Step(p) \/ \E c \in prog.calls[p] : Enter(p, c)
    \/ Serve
    \/ Lose

Spec == Init /\ [][Next]_vars

\* A process that is ready runs, and udp_recv returns when its time is over.
FairSpec == Spec /\ \A p \in Procs : WF_vars(Step(p))

----------------------------------------------------------------------------
TypeOK ==
    /\ \A s \in Slots : /\ rfltab[s].state \in {"FREE", "USED"}
                        /\ rfltab[s].name \in DOMAIN Length /\ rfltab[s].pos \in Nat
                        /\ rfltab[s].mode \subseteq {"r", "w", "o", "n"}
    /\ Rf_data.mutex.count <= 1 /\ Rf_data.registered \in BOOLEAN
    /\ \A p \in Procs : call[p].i \in 0..RF_RETRIES
    /\ Len(toServer) <= MaxInTransit

\* What the server holds once request m has been answered with success r.
Done(m, s, r) ==
    LET f == s.files[m.name] IN
    CASE m.type = "OREQ" -> m.name \in DOMAIN s.files
      [] m.type = "DREQ" -> m.name \notin DOMAIN s.files
      [] m.type = "MREQ" -> m.name \in s.dirs
      [] m.type = "XREQ" -> m.name \notin s.dirs
      [] m.type = "SREQ" -> m.name \in DOMAIN s.files => r.len = Len(f)
      [] m.type = "TREQ" -> f = << >>
      [] m.type = "RREQ" -> r.data = Slice(f, m.pos, m.len) /\ r.len = Len(r.data)
      [] m.type = "WREQ" -> Slice(f, m.pos, m.len) = m.data /\ r.len = m.len

\* A call that returns with success tells the truth: what was read is in the file,
\* what was written is there, a file opened exists and one deleted does not, and a
\* device that was opened belonged to nobody else.  Requests are repeated, answers
\* are lost, delivered twice and late.
AnswersTrue ==
    /\ [][\A p \in Procs :
            call[p].at = "recv" /\ call'[p].at = "user" /\ result'[p].ok =>
                /\ Done(call[p].msg, srv, result'[p])
                /\ call[p].op = "open" => call[p].slot \in Free]_vars
    /\ []TypeOK

\* Every call returns, whatever the network does: rf_mutex is released on every
\* way out, and the number of tries is bounded.
CallsReturn == \A p \in Procs : (call[p].at # "user") ~> (call[p].at = "user")
=============================================================================

------------------------------ MODULE RdServer ------------------------------
(***************************************************************************)
(* The remote disk server (rdserver): a Unix process that keeps each disk  *)
(* in a file and answers one request at a time.  What it does with a       *)
(* message is a function, Handle, from its state and the message to its    *)
(* new state and the answer.                                               *)
(***************************************************************************)
EXTENDS Integers, Sequences, FiniteSets

CONSTANTS
    MAXDISKS,   \* the size of the table of open files
    BadIds      \* disk IDs that contain a '/' or are too long

\* The sequence number last seen, the disks that are open, and every file.
ServerInit == [seq |-> 0, ofiles |-> {}, files |-> << >>]

\* snderr stores htonl(1) into the 16 bits of rd_status: a host where htonl swaps
\* bytes keeps the two zero bytes, and the client finds the status of success.
ErrStatus == (1 * 2^24) % 2^16

NoReply == [type |-> "none", seq |-> 0, status |-> 0, data |-> "none"]

Reply(m, status, data) ==
    [type |-> m.type, seq |-> m.seq, status |-> status, data |-> data]

sndok(m, data) == Reply(m, 0, data)
snderr(m) == Reply(m, ErrStatus, "none")

Answer(srv, r) == [srv |-> srv, reply |-> r]

\* A file from which block k on is written; a hole reads as zeros.
Written(f, k, v) ==
    [i \in 1..(IF k + 1 > Len(f) THEN k + 1 ELSE Len(f)) |->
        IF i = k + 1 THEN v ELSE IF i <= Len(f) THEN f[i] ELSE "zero"]

\* rdofile: the file is created when there is none.
rdofile(srv, id) ==
    [srv EXCEPT !.ofiles = @ \cup {id},
                !.files = [d \in DOMAIN @ \cup {id} |-> IF d \in DOMAIN @ THEN @[d] ELSE << >>]]

rdopen(srv, m) ==
    IF m.id \in srv.ofiles THEN Answer(srv, sndok(m, "none"))
    ELSE IF Cardinality(srv.ofiles) >= MAXDISKS THEN Answer(srv, snderr(m))
    ELSE Answer(rdofile(srv, m.id), sndok(m, "none"))

rdread(srv, m) ==
    IF m.id \in srv.ofiles /\ m.blk < Len(srv.files[m.id])
    THEN Answer(srv, sndok(m, srv.files[m.id][m.blk + 1]))
    ELSE Answer(srv, snderr(m))

rdwrite(srv, m) ==
    IF m.id \notin srv.ofiles THEN Answer(srv, snderr(m))
    ELSE Answer([srv EXCEPT !.files[m.id] = Written(@, m.blk, m.data)], sndok(m, "none"))

rddelete(srv, m) ==
    IF m.id \notin DOMAIN srv.files THEN Answer([srv EXCEPT !.ofiles = @ \ {m.id}], snderr(m))
    ELSE Answer([srv EXCEPT !.ofiles = @ \ {m.id},
                            !.files = [d \in DOMAIN @ \ {m.id} |-> @[d]]],
                sndok(m, "none"))

\* A message that is older than the last one is ignored, unless it says that the
\* client has started again.
Ignored(srv, m) == m.seq # 0 /\ m.seq < (IF m.seq = 1 THEN 0 ELSE srv.seq)

Handle(srv, m) ==
    LET s == [srv EXCEPT !.seq = m.seq] IN
    CASE Ignored(srv, m) -> Answer(srv, NoReply)
      [] m.id \in BadIds /\ ~Ignored(srv, m) -> Answer(s, snderr(m))
      [] OTHER -> CASE m.type = "OREQ" -> rdopen(s, m)
                    [] m.type = "RREQ" -> rdread(s, m)
                    [] m.type = "WREQ" -> rdwrite(s, m)
                    [] m.type = "DREQ" -> rddelete(s, m)
=============================================================================

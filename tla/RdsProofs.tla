----------------------------- MODULE RdsProofs ------------------------------
(***************************************************************************)
(* Theorems about the remote disk, for any number of processes, disks,     *)
(* blocks, buffers and retries: that every buffer is on exactly one of the *)
(* three lists and that rd_availsem counts those that may be had, until a  *)
(* step that the model marks in status; and, on a network that loses       *)
(* messages, that no write is lost or overtaken and every read gives what  *)
(* was written last, until a timeout overtakes an answer or two users come *)
(* to write the same block at once.                                        *)
(***************************************************************************)
EXTENDS Rds, QueueProofs

Data == Vals \cup {"none", "zero"}
Disks == Ids \cup {"none"}
Requested == {"OREQ", "RREQ", "WREQ", "DREQ"}
Ops == {"none", "READ", "WRITE", "SYNC"}
Places == {"idle", "send", "recv", "OK", "SYSERR", "alloc", "receive", "head"}
Statuses == {"ok", "panic", "uncounted", "spins", "relinked", "reused", "shadowed"}

RdType == [state : {"FREE", "PEND", "OPEN"}, id : Disks, seq : Nat,
           free : Seq(Bufs), cache : Seq(Bufs), reqq : Seq(Bufs)]

BufType == [op : Ops, blk : Nat, data : Data, valid : BOOLEAN,
            refcnt : 0..1, pid : Procs \cup {"none"}]

MsgType == [type : Requested \cup Ops, seq : Nat, id : Disks, blk : Nat, data : Data]

Wire == {m \in MsgType : m.type \in Requested}

CallType == [at : Places, blk : Nat, data : Data, msg : MsgType,
             i : 0..RD_RETRIES, xmit : BOOLEAN, resp : Data]

ReplyType == [type : Requested, seq : Nat, status : {0, ErrStatus}, data : Data]

DiskType == /\ rd \in RdType
            /\ bufs \in [Bufs -> BufType]
            /\ availsem \in SemType(Procs) /\ reqsem \in SemType(Procs)

\* What a user who has been promised a buffer will put on the request queue.
Pending(c) == /\ c.msg.type \in {"READ", "WRITE", "SYNC"}
              /\ c.msg.type = "WRITE" => c.blk \in Blocks

\* A process sends only a request that goes to the server.
CallInv == /\ call \in [Procs -> CallType]
           /\ \A p \in Procs : call[p].at \in {"send", "recv"} => call[p].msg \in Wire
           /\ \A p \in Procs : call[p].at = "alloc" => Pending(call[p])

NetType == /\ mbox \in [Users -> 0..OK]
           /\ slot \in Procs \cup {"none"}
           /\ toServer \subseteq Wire /\ toClient \subseteq ReplyType

\* The server has a file for every disk that is open.
SrvSound(s) ==
    /\ s = [seq |-> s.seq, ofiles |-> s.ofiles, files |-> s.files]
    /\ s.seq \in Nat
    /\ s.ofiles \subseteq DOMAIN s.files /\ DOMAIN s.files \subseteq Disks
    /\ s.files \in [DOMAIN s.files -> Seq(Data)]

SrvType == SrvSound(srv)

GhostType == /\ latest \in [Blocks -> Data]
             /\ got \in [Users -> Data] /\ allow \in [Users -> SUBSET Data]
             /\ calls \in Nat /\ status \in Statuses

TypeInv == DiskType /\ CallInv /\ NetType /\ SrvType /\ GhostType

\* The free list, the cache and the request queue share no buffer and leave none out.
Divided(f, c, q) ==
    /\ f \in Seq(Bufs) /\ c \in Seq(Bufs) /\ q \in Seq(Bufs)
    /\ Distinct(f) /\ Distinct(c) /\ Distinct(q)
    /\ \A b \in Bufs : /\ Has(f, b) \/ Has(c, b) \/ Has(q, b)
                       /\ ~(Has(f, b) /\ Has(c, b))
                       /\ ~(Has(f, b) /\ Has(q, b))
                       /\ ~(Has(c, b) /\ Has(q, b))
    /\ Len(f) + Len(c) + Len(q) = RD_BUFFS

ListInv == Divided(rd.free, rd.cache, rd.reqq)

\* The processes that have been promised a buffer and have not yet chosen it.
Promised == {p \in Users : call[p].at = "alloc"}

CountInv == availsem.count = Len(rd.free) + Len(rd.cache) - Cardinality(Promised)

\* A buffer that was sent to a reader is off the request queue, counts that reader, and
\* was sent to no other.
HeldInv ==
    \A p \in Users : mbox[p] \in Bufs =>
        /\ ~Has(rd.reqq, mbox[p])
        /\ bufs[mbox[p]].refcnt = 1
        /\ \A q \in Users : q # p => mbox[q] # mbox[p]

\* While rdsprocess asks the server for a block, the request stays at the head of the queue.
AskInv ==
    /\ call["rds"].at \in {"idle", "head", "send", "recv", "OK", "SYSERR"}
    /\ call["rds"].at \in {"send", "recv", "OK", "SYSERR"} /\ call["rds"].msg.type = "RREQ"
         => rd.reqq # << >>

DiskInv ==
    /\ TypeInv /\ ListInv /\ AskInv
    /\ status = "ok" => CountInv /\ HeldInv

----------------------------------------------------------------------------
\* Buffers that go from list to list.

\* An element is put before a list.
LEMMA Prepended ==
  ASSUME NEW S, NEW s \in Seq(S), NEW e \in S, Distinct(s), ~Has(s, e)
  PROVE  LET t == <<e>> \o s IN
         /\ t \in Seq(S) /\ Len(t) = Len(s) + 1 /\ Distinct(t)
         /\ \A x : Has(t, x) <=> Has(s, x) \/ x = e
         /\ t[1] = e /\ \A i \in 1..Len(s) : t[i + 1] = s[i]
<1> DEFINE t == <<e>> \o s
<1>1. <<e>> \in Seq(S) /\ Len(<<e>>) = 1 /\ <<e>>[1] = e /\ Len(s) \in Nat
  OBVIOUS
<1>2. /\ t \in Seq(S) /\ Len(t) = Len(s) + 1
      /\ \A i \in 1..(Len(s) + 1) : t[i] = IF i <= 1 THEN <<e>>[i] ELSE s[i - 1]
  <2>1. /\ t \in Seq(S) /\ Len(t) = 1 + Len(s)
        /\ \A i \in 1..(1 + Len(s)) : t[i] = IF i <= 1 THEN <<e>>[i] ELSE s[i - 1]
    BY <1>1, ConcatProperties
  <2>2. 1 + Len(s) = Len(s) + 1
    BY <1>1
  <2> QED
    BY <2>1, <2>2
<1> HIDE DEF t
<1>3. t[1] = e /\ \A i \in 1..Len(s) : t[i + 1] = s[i]
  BY <1>1, <1>2
<1>4. \A j \in 1..(Len(s) + 1) : j = 1 \/ (j - 1 \in 1..Len(s) /\ t[j] = s[j - 1])
  BY <1>1, <1>2
<1>5. \A x : Has(t, x) <=> Has(s, x) \/ x = e
  <2>1. ASSUME NEW x, Has(t, x) PROVE Has(s, x) \/ x = e
    <3>1. PICK j \in 1..Len(t) : t[j] = x
      BY <2>1 DEF Has
    <3>2. j = 1 \/ (j - 1 \in 1..Len(s) /\ t[j] = s[j - 1])
      BY <1>2, <1>4
    <3> QED
      BY <1>3, <3>1, <3>2 DEF Has
  <2>2. ASSUME NEW x, Has(s, x) \/ x = e PROVE Has(t, x)
    <3>1. CASE x = e
      BY <1>1, <1>2, <1>3, <3>1 DEF Has
    <3>2. CASE Has(s, x)
      <4>1. PICK i \in 1..Len(s) : s[i] = x
        BY <3>2 DEF Has
      <4>2. i + 1 \in 1..Len(t)
        BY <1>1, <1>2
      <4> QED
        BY <1>3, <4>1, <4>2 DEF Has
    <3> QED
      BY <2>2, <3>1, <3>2
  <2> QED
    BY <2>1, <2>2
<1>6. Distinct(t)
  <2> SUFFICES ASSUME NEW i \in 1..Len(t), NEW j \in 1..Len(t), t[i] = t[j] PROVE i = j
    BY DEF Distinct
  <2>1. i \in 1..(Len(s) + 1) /\ j \in 1..(Len(s) + 1)
    BY <1>2
  <2>2. ASSUME NEW k \in 1..(Len(s) + 1), k # 1 PROVE t[k] # e
    BY <1>4, <2>2 DEF Has
  <2>3. CASE i = 1
    BY <1>3, <2>1, <2>2, <2>3
  <2>4. CASE j = 1
    BY <1>3, <2>1, <2>2, <2>4
  <2>5. CASE i # 1 /\ j # 1
    <3>1. s[i - 1] = s[j - 1] /\ i - 1 \in 1..Len(s) /\ j - 1 \in 1..Len(s)
      BY <1>4, <2>1, <2>5
    <3>2. i - 1 = j - 1
      BY <3>1 DEF Distinct
    <3> QED
      BY <2>1, <3>2
  <2> QED
    BY <2>3, <2>4, <2>5
<1> QED
  BY <1>2, <1>3, <1>5, <1>6 DEF t

\* The first buffer of the free list goes to the tail of the queue.
LEMMA FreeToQueue ==
  ASSUME NEW f, NEW c, NEW q, Divided(f, c, q), f # << >>
  PROVE  /\ Head(f) \in Bufs /\ Has(f, Head(f)) /\ ~Has(q, Head(f)) /\ ~Has(c, Head(f))
         /\ Divided(Tail(f), c, Append(q, Head(f)))
         /\ Len(Tail(f)) = Len(f) - 1
         /\ \A b : Has(Append(q, Head(f)), b) <=> Has(q, b) \/ b = Head(f)
<1>1. f \in Seq(Bufs) /\ c \in Seq(Bufs) /\ q \in Seq(Bufs) /\ Distinct(f)
  BY DEF Divided
<1>2. /\ Head(f) \in Bufs /\ Has(f, Head(f))
      /\ Tail(f) \in Seq(Bufs) /\ Len(Tail(f)) = Len(f) - 1
      /\ \A p : Has(Tail(f), p) <=> Has(f, p) /\ p # Head(f)
      /\ Distinct(Tail(f))
  BY <1>1, TailMembers
<1>3. ~Has(q, Head(f)) /\ ~Has(c, Head(f))
  BY <1>2 DEF Divided
<1>4. /\ Append(q, Head(f)) \in Seq(Bufs) /\ Len(Append(q, Head(f))) = Len(q) + 1
      /\ \A p : Has(Append(q, Head(f)), p) <=> Has(q, p) \/ p = Head(f)
      /\ Distinct(q) => Distinct(Append(q, Head(f)))
  BY <1>1, <1>2, <1>3, AppendMembers
<1>5. Len(f) \in Nat /\ Len(c) \in Nat /\ Len(q) \in Nat
  BY <1>1
<1> DEFINE g == Tail(f)
           r == Append(q, Head(f))
           h == Head(f)
<1> HIDE DEF g, r, h
<1>6. Len(g) + Len(c) + Len(r) = RD_BUFFS
  BY <1>2, <1>4, <1>5 DEF g, r, Divided
<1>7. \A b \in Bufs : /\ Has(g, b) \/ Has(c, b) \/ Has(r, b)
                      /\ ~(Has(g, b) /\ Has(c, b))
                      /\ ~(Has(g, b) /\ Has(r, b))
                      /\ ~(Has(c, b) /\ Has(r, b))
  <2>1. /\ \A p : Has(g, p) <=> Has(f, p) /\ p # h
        /\ \A p : Has(r, p) <=> Has(q, p) \/ p = h
        /\ ~Has(c, h)
    BY <1>2, <1>3, <1>4 DEF g, r, h
  <2> QED
    BY <2>1 DEF Divided
<1>8. Divided(g, c, r)
  <2>1. g \in Seq(Bufs) /\ r \in Seq(Bufs) /\ Distinct(g) /\ Distinct(r)
    BY <1>2, <1>4 DEF g, r, Divided
  <2> QED
    BY <1>6, <1>7, <2>1 DEF Divided
<1> QED
  BY <1>2, <1>3, <1>4, <1>8 DEF g, r

\* A buffer of the cache goes to the tail of the queue.
LEMMA CacheToQueue ==
  ASSUME NEW f, NEW c, NEW q, Divided(f, c, q), NEW i \in 1..Len(c)
  PROVE  /\ c[i] \in Bufs /\ Has(c, c[i]) /\ ~Has(q, c[i])
         /\ Divided(f, RemoveAt(c, i), Append(q, c[i]))
         /\ Len(RemoveAt(c, i)) = Len(c) - 1
         /\ \A b : Has(Append(q, c[i]), b) <=> Has(q, b) \/ b = c[i]
         /\ \A b : Has(RemoveAt(c, i), b) <=> Has(c, b) /\ b # c[i]
<1>1. f \in Seq(Bufs) /\ c \in Seq(Bufs) /\ q \in Seq(Bufs) /\ Distinct(c)
  BY DEF Divided
<1>2. c[i] \in Bufs /\ Has(c, c[i])
  BY <1>1 DEF Has
<1>3. /\ RemoveAt(c, i) \in Seq(Bufs) /\ Len(RemoveAt(c, i)) = Len(c) - 1
      /\ \A p : Has(RemoveAt(c, i), p) <=> Has(c, p) /\ p # c[i]
      /\ Distinct(RemoveAt(c, i))
  BY <1>1, RemoveMembers
<1>4. ~Has(q, c[i]) /\ ~Has(f, c[i])
  BY <1>2 DEF Divided
<1>5. /\ Append(q, c[i]) \in Seq(Bufs) /\ Len(Append(q, c[i])) = Len(q) + 1
      /\ \A p : Has(Append(q, c[i]), p) <=> Has(q, p) \/ p = c[i]
      /\ Distinct(q) => Distinct(Append(q, c[i]))
  BY <1>1, <1>2, <1>4, AppendMembers
<1>6. Len(f) \in Nat /\ Len(c) \in Nat /\ Len(q) \in Nat
  BY <1>1
<1> DEFINE g == RemoveAt(c, i)
           r == Append(q, c[i])
           h == c[i]
<1> HIDE DEF g, r, h
<1>7. Len(f) + Len(g) + Len(r) = RD_BUFFS
  BY <1>3, <1>5, <1>6 DEF g, r, Divided
<1>8. \A b \in Bufs : /\ Has(f, b) \/ Has(g, b) \/ Has(r, b)
                      /\ ~(Has(f, b) /\ Has(g, b))
                      /\ ~(Has(f, b) /\ Has(r, b))
                      /\ ~(Has(g, b) /\ Has(r, b))
  <2>1. /\ \A p : Has(g, p) <=> Has(c, p) /\ p # h
        /\ \A p : Has(r, p) <=> Has(q, p) \/ p = h
        /\ ~Has(f, h)
    BY <1>3, <1>4, <1>5 DEF g, r, h
  <2> QED
    BY <2>1 DEF Divided
<1>9. Divided(f, g, r)
  <2>1. g \in Seq(Bufs) /\ r \in Seq(Bufs) /\ Distinct(g) /\ Distinct(r)
    BY <1>3, <1>5 DEF g, r, Divided
  <2> QED
    BY <1>7, <1>8, <2>1 DEF Divided
<1> QED
  BY <1>2, <1>3, <1>4, <1>5, <1>9 DEF g, r

\* The buffer at the head of the queue goes to the head of the cache.
LEMMA QueueToCache ==
  ASSUME NEW f, NEW c, NEW q, Divided(f, c, q), q # << >>
  PROVE  /\ Head(q) \in Bufs /\ Has(q, Head(q)) /\ ~Has(c, Head(q))
         /\ Divided(f, <<Head(q)>> \o c, Tail(q))
         /\ Len(<<Head(q)>> \o c) = Len(c) + 1
         /\ \A b : Has(Tail(q), b) <=> Has(q, b) /\ b # Head(q)
<1>1. f \in Seq(Bufs) /\ c \in Seq(Bufs) /\ q \in Seq(Bufs) /\ Distinct(c) /\ Distinct(q)
  BY DEF Divided
<1>2. /\ Head(q) \in Bufs /\ Has(q, Head(q))
      /\ Tail(q) \in Seq(Bufs) /\ Len(Tail(q)) = Len(q) - 1
      /\ \A p : Has(Tail(q), p) <=> Has(q, p) /\ p # Head(q)
      /\ Distinct(Tail(q))
  BY <1>1, TailMembers
<1>3. ~Has(c, Head(q)) /\ ~Has(f, Head(q))
  BY <1>2 DEF Divided
<1>4. LET t == <<Head(q)>> \o c IN
      /\ t \in Seq(Bufs) /\ Len(t) = Len(c) + 1 /\ Distinct(t)
      /\ \A x : Has(t, x) <=> Has(c, x) \/ x = Head(q)
  <2> DEFINE e == Head(q)
  <2>1. e \in Bufs /\ ~Has(c, e)
    BY <1>2, <1>3
  <2> HIDE DEF e
  <2>2. LET t == <<e>> \o c IN
        /\ t \in Seq(Bufs) /\ Len(t) = Len(c) + 1 /\ Distinct(t)
        /\ \A x : Has(t, x) <=> Has(c, x) \/ x = e
    BY <1>1, <2>1, Prepended
  <2> QED
    BY <2>2 DEF e
<1>5. Len(f) \in Nat /\ Len(c) \in Nat /\ Len(q) \in Nat
  BY <1>1
<1> DEFINE g == <<Head(q)>> \o c
           r == Tail(q)
           h == Head(q)
<1> HIDE DEF g, r, h
<1>6. Len(f) + Len(g) + Len(r) = RD_BUFFS
  BY <1>2, <1>4, <1>5 DEF g, r, Divided
<1>7. \A b \in Bufs : /\ Has(f, b) \/ Has(g, b) \/ Has(r, b)
                      /\ ~(Has(f, b) /\ Has(g, b))
                      /\ ~(Has(f, b) /\ Has(r, b))
                      /\ ~(Has(g, b) /\ Has(r, b))
  <2>1. /\ \A p : Has(g, p) <=> Has(c, p) \/ p = h
        /\ \A p : Has(r, p) <=> Has(q, p) /\ p # h
        /\ ~Has(f, h)
    BY <1>2, <1>3, <1>4 DEF g, r, h
  <2> QED
    BY <2>1 DEF Divided
<1>8. Divided(f, g, r)
  <2>1. g \in Seq(Bufs) /\ r \in Seq(Bufs) /\ Distinct(g) /\ Distinct(r)
    BY <1>2, <1>4 DEF g, r
  <2> QED
    BY <1>6, <1>7, <2>1 DEF Divided
<1> QED
  BY <1>2, <1>3, <1>4, <1>8 DEF g, r

\* The free list and the cache play the same part in the division.
LEMMA DividedSwaps ==
  ASSUME NEW f, NEW c, NEW q
  PROVE  Divided(f, c, q) <=> Divided(c, f, q)
<1>1. ASSUME NEW g, NEW d, Divided(g, d, q) PROVE Divided(d, g, q)
  <2>1. Len(g) \in Nat /\ Len(d) \in Nat /\ Len(q) \in Nat
    BY <1>1 DEF Divided
  <2>2. Len(d) + Len(g) + Len(q) = RD_BUFFS
    BY <1>1, <2>1 DEF Divided
  <2> QED
    BY <1>1, <2>2 DEF Divided
<1> QED
  BY <1>1

\* rdsclose puts the cache, turned round, before the free list.
LEMMA CacheToFree ==
  ASSUME NEW f, NEW c, NEW q, Divided(f, c, q)
  PROVE  LET g == Reverse(c) \o f IN
         /\ Divided(g, << >>, q)
         /\ Len(g) = Len(f) + Len(c)
<1> DEFINE r == Reverse(c)
           g == r \o f
           m == Len(c)
           n == Len(f)
<1>1. /\ f \in Seq(Bufs) /\ c \in Seq(Bufs) /\ q \in Seq(Bufs)
      /\ Distinct(f) /\ Distinct(c) /\ m \in Nat /\ n \in Nat
  BY DEF Divided
<1>2. r \in Seq(Bufs) /\ Len(r) = m /\ \A i \in 1..m : r[i] = c[(m - i) + 1]
  <2>1. r = [i \in 1..m |-> c[(m - i) + 1]]
    BY DEF Reverse
  <2>2. \A i \in 1..m : (m - i) + 1 \in 1..m
    BY <1>1
  <2>3. \A i \in 1..m : c[(m - i) + 1] \in Bufs
    BY <1>1, <2>2
  <2> QED
    BY <1>1, <2>1, <2>3
<1> HIDE DEF r
<1>3. /\ g \in Seq(Bufs) /\ Len(g) = m + n
      /\ \A i \in 1..(m + n) : g[i] = IF i <= m THEN r[i] ELSE f[i - m]
  <2>1. /\ g \in Seq(Bufs) /\ Len(g) = Len(r) + Len(f)
        /\ \A i \in 1..(Len(r) + Len(f)) : g[i] = IF i <= Len(r) THEN r[i] ELSE f[i - Len(r)]
    <3>1. r \in Seq(Bufs) /\ f \in Seq(Bufs)
      BY <1>1, <1>2
    <3> QED
      BY <3>1, ConcatProperties
  <2> HIDE DEF g
  <2> QED
    BY <1>2, <2>1
<1> HIDE DEF g, m, n
<1>4. \A i \in 1..(m + n) : \/ i <= m /\ (m - i) + 1 \in 1..m /\ g[i] = c[(m - i) + 1]
                            \/ i > m /\ i - m \in 1..n /\ g[i] = f[i - m]
  BY <1>1, <1>2, <1>3
<1>5. \A b : Has(g, b) <=> Has(f, b) \/ Has(c, b)
  <2>1. ASSUME NEW b, Has(g, b) PROVE Has(f, b) \/ Has(c, b)
    BY <1>3, <1>4, <2>1 DEF Has, m, n
  <2>2. ASSUME NEW b, Has(f, b) PROVE Has(g, b)
    <3>1. PICK i \in 1..n : f[i] = b
      BY <2>2 DEF Has, n
    <3>2. i + m \in 1..(m + n) /\ ~(i + m <= m) /\ (i + m) - m = i
      BY <1>1
    <3>3. g[i + m] = b
      BY <1>3, <3>1, <3>2
    <3> QED
      BY <1>3, <3>2, <3>3 DEF Has
  <2>3. ASSUME NEW b, Has(c, b) PROVE Has(g, b)
    <3>1. PICK i \in 1..m : c[i] = b
      BY <2>3 DEF Has, m
    <3>2. /\ (m - i) + 1 \in 1..(m + n) /\ (m - i) + 1 <= m /\ (m - i) + 1 \in 1..m
          /\ (m - ((m - i) + 1)) + 1 = i
      BY <1>1
    <3>3. g[(m - i) + 1] = b
      BY <1>2, <1>3, <3>1, <3>2
    <3> QED
      BY <1>3, <3>2, <3>3 DEF Has
  <2> QED
    BY <2>1, <2>2, <2>3
<1>6. Distinct(g)
  <2> SUFFICES ASSUME NEW i \in 1..(m + n), NEW j \in 1..(m + n), g[i] = g[j] PROVE i = j
    BY <1>3 DEF Distinct
  <2>1. CASE i <= m /\ j <= m
    <3>1. c[(m - i) + 1] = c[(m - j) + 1] /\ (m - i) + 1 \in 1..m /\ (m - j) + 1 \in 1..m
      BY <1>1, <1>4, <2>1
    <3>2. (m - i) + 1 = (m - j) + 1
      BY <1>1, <3>1 DEF Distinct, m
    <3> QED
      BY <1>1, <3>2
  <2>2. CASE i > m /\ j > m
    <3>1. f[i - m] = f[j - m] /\ i - m \in 1..n /\ j - m \in 1..n
      BY <1>1, <1>4, <2>2
    <3>2. i - m = j - m
      BY <1>1, <3>1 DEF Distinct, n
    <3> QED
      BY <1>1, <3>2
  <2>3. ASSUME NEW k \in 1..(m + n), NEW l \in 1..(m + n), k <= m, l > m PROVE g[k] # g[l]
    <3>1. g[k] = c[(m - k) + 1] /\ (m - k) + 1 \in 1..m /\ g[l] = f[l - m] /\ l - m \in 1..n
      BY <1>1, <1>4, <2>3
    <3>2. Has(c, g[k])
      BY <3>1 DEF Has, m
    <3>3. Has(f, g[l])
      BY <3>1 DEF Has, n
    <3>4. g[k] \in Bufs
      BY <1>1, <3>2 DEF Has
    <3> QED
      BY <3>2, <3>3, <3>4 DEF Divided
  <2> QED
    BY <1>1, <2>1, <2>2, <2>3
<1>7. << >> \in Seq(Bufs) /\ Len(<< >>) = 0 /\ Distinct(<< >>) /\ \A b : ~Has(<< >>, b)
  BY DEF Distinct, Has
<1>8. Len(g) + Len(<< >>) + Len(q) = RD_BUFFS
  <2>1. Len(q) \in Nat /\ n + m + Len(q) = RD_BUFFS
    BY <1>1 DEF Divided, m, n
  <2> QED
    BY <1>1, <1>3, <1>7, <2>1
<1>9. Divided(g, << >>, q)
  <2> DEFINE e == << >>
  <2>1. e \in Seq(Bufs) /\ Distinct(e) /\ (\A b : ~Has(e, b)) /\ Len(g) + Len(e) + Len(q) = RD_BUFFS
    BY <1>7, <1>8
  <2> HIDE DEF e
  <2>2. Divided(g, e, q)
    BY <1>3, <1>5, <1>6, <2>1 DEF Divided
  <2> QED
    BY <2>2 DEF e
<1> QED
  <2>1. Len(g) = n + m
    BY <1>1, <1>3
  <2> QED
    BY <1>9, <2>1 DEF g, m, n, r

----------------------------------------------------------------------------
\* What the types of the parts rest on.

\* No answer to SYNC and no empty mailbox is a buffer.
LEMMA BufNumbers ==
  /\ Bufs \subseteq Nat /\ 0 \notin Bufs /\ OK \notin Bufs /\ OK \in Nat
  /\ Bufs \subseteq 0..OK /\ 0 \in 0..OK /\ OK \in 0..OK
  /\ RD_BUFFS \in Nat /\ RD_RETRIES \in Nat /\ 0 \in 0..RD_RETRIES /\ 1 \in 0..RD_RETRIES
BY RdsAssumption DEF Bufs, OK

\* wait, signal and semreset change the count by what they say, whoever is queued.
LEMMA SemCounts ==
  ASSUME NEW x \in SemType(Procs), NEW p \in Procs
  PROVE  /\ wait(x, p) \in SemType(Procs) /\ wait(x, p).count = x.count - 1
         /\ signal(x) \in SemType(Procs) /\ signal(x).count = x.count + 1
         /\ \A n \in Int : /\ semreset(x, n) \in SemType(Procs)
                           /\ semreset(x, n).count = n
         /\ x.count \in Int
<1>1. /\ x.count \in Int /\ x.queue \in Seq(Procs) /\ x.used \in BOOLEAN
      /\ x = [used |-> x.used, count |-> x.count, queue |-> x.queue]
  BY DEF SemType
<1>2. wait(x, p) \in SemType(Procs) /\ wait(x, p).count = x.count - 1
  <2> DEFINE c == IF x.count - 1 < 0 THEN Append(x.queue, p) ELSE x.queue
             n == x.count - 1
  <2>1. wait(x, p) = [x EXCEPT !.count = n, !.queue = c]
    BY DEF wait
  <2>2. c \in Seq(Procs) /\ n \in Int
    BY <1>1
  <2> HIDE DEF c, n
  <2>3. wait(x, p) \in SemType(Procs) /\ wait(x, p).count = n
    BY <2>1, <2>2 DEF SemType
  <2> QED
    BY <2>3 DEF n
<1>3. signal(x) \in SemType(Procs) /\ signal(x).count = x.count + 1
  <2> DEFINE T == {1, Len(x.queue)}
             d == SubSeq(x.queue, Min(T) + 1, Len(x.queue))
             n == x.count + 1
  <2>1. signal(x) = [x EXCEPT !.count = n, !.queue = d]
    BY DEF signal, signaln
  <2>2. Min(T) \in T
    <3>1. T \subseteq Nat /\ T # {}
      BY <1>1
    <3> QED
      BY <3>1, LeastNat
  <2>3. d \in Seq(Procs)
    <3> DEFINE m == Min(T) + 1
               l == Len(x.queue)
    <3>1. m \in Nat /\ m >= 1 /\ l \in Nat
      BY <1>1, <2>2
    <3> HIDE DEF m
    <3>2. \A i \in m..l : x.queue[i] \in Procs
      BY <1>1, <3>1
    <3>3. SubSeq(x.queue, m, l) \in Seq(Procs)
      BY <3>1, <3>2, SubSeqProperties
    <3> QED
      BY <3>3 DEF m
  <2>4. n \in Int
    BY <1>1
  <2> HIDE DEF d, n
  <2>5. signal(x) \in SemType(Procs) /\ signal(x).count = n
    BY <2>1, <2>3, <2>4 DEF SemType
  <2> QED
    BY <2>5 DEF n
<1>4. ASSUME NEW n \in Int
      PROVE  semreset(x, n) \in SemType(Procs) /\ semreset(x, n).count = n
  <2> DEFINE e == << >>
  <2>1. semreset(x, n) = [x EXCEPT !.count = n, !.queue = e]
    BY DEF semreset
  <2>2. e \in Seq(Procs)
    OBVIOUS
  <2> HIDE DEF e
  <2> QED
    BY <2>1, <2>2 DEF SemType
<1> QED
  BY <1>1, <1>2, <1>3, <1>4

\* An idle process and the messages it begins with.
LEMMA IdleTypes ==
  /\ NoMsg \in MsgType /\ Idle \in CallType
  /\ Idle.at = "idle" /\ Idle.msg = NoMsg /\ Idle.i = 0
  /\ Idle.blk = 0 /\ Idle.data = "none" /\ Idle.resp = "none" /\ Idle.xmit = TRUE
BY BufNumbers DEF NoMsg, Idle, MsgType, CallType, Disks, Data, Ops, Places

\* A process goes on with c at another place.
LEMMA GotoType ==
  ASSUME call \in [Procs -> CallType], NEW p \in Procs, NEW c \in CallType,
         NEW at \in Places, Goto(p, c, at)
  PROVE  /\ call' \in [Procs -> CallType]
         /\ call'[p].at = at /\ call'[p].msg = c.msg /\ call'[p].blk = c.blk
         /\ call'[p].data = c.data /\ call'[p].resp = c.resp /\ call'[p].i = c.i
         /\ \A q \in Procs : q # p => call'[q] = call[q]
<1> DEFINE d == [c EXCEPT !.at = at]
<1>1. d \in CallType
  BY DEF CallType
<1>2. d.at = at /\ d.msg = c.msg /\ d.blk = c.blk /\ d.data = c.data /\ d.resp = c.resp /\ d.i = c.i
  BY DEF CallType
<1>3. call' = [call EXCEPT ![p] = d]
  BY DEF Goto
<1> HIDE DEF d
<1>4. call'[p] = d /\ call' \in [Procs -> CallType] /\ \A q \in Procs : q # p => call'[q] = call[q]
  BY <1>1, <1>3
<1> QED
  BY <1>2, <1>4

\* A process begins an exchange with the server.
LEMMA ExchangeType ==
  ASSUME call \in [Procs -> CallType], rd \in RdType, NEW p \in Procs, NEW c \in CallType,
         NEW m \in MsgType, m.type \in Requested, Exchange(p, c, m)
  PROVE  /\ call' \in [Procs -> CallType]
         /\ call'[p].at = "send" /\ call'[p].msg \in Wire /\ call'[p].msg.type = m.type
         /\ \A q \in Procs : q # p => call'[q] = call[q]
<1> DEFINE w == [m EXCEPT !.seq = rd.seq, !.id = rd.id]
           d == [c EXCEPT !.msg = w, !.i = 1, !.xmit = TRUE]
<1>1. rd.seq \in Nat /\ rd.id \in Disks
  BY DEF RdType
<1>2. w \in MsgType /\ w.type = m.type
  BY <1>1 DEF MsgType
<1>3. Goto(p, d, "send")
  BY DEF Exchange
<1> HIDE DEF w
<1>4. d \in CallType /\ d.msg = w
  BY <1>2, BufNumbers DEF CallType
<1> HIDE DEF d
<1>5. "send" \in Places
  BY DEF Places
<1>6. /\ call' \in [Procs -> CallType]
      /\ call'[p].at = "send" /\ call'[p].msg = d.msg
      /\ \A q \in Procs : q # p => call'[q] = call[q]
  BY <1>3, <1>4, <1>5, GotoType
<1> QED
  BY <1>2, <1>4, <1>6 DEF Wire, w

LEMMA PromisedFinite == Cardinality(Promised) \in Nat
<1>1. IsFiniteSet(Users) /\ Promised \subseteq Users
  BY RdsAssumption DEF Promised
<1> QED
  BY <1>1, FS_Subset, FS_CardinalityType

\* The processes that have been promised a buffer: one more, one less, or the same.
LEMMA PromisedChange ==
  ASSUME NEW p \in Users, \A q \in Users : q # p => call'[q] = call[q]
  PROVE  /\ Cardinality(Promised) \in Nat
         /\ call[p].at = "alloc" /\ call'[p].at # "alloc" =>
              Cardinality(Promised') = Cardinality(Promised) - 1
         /\ call[p].at # "alloc" /\ call'[p].at = "alloc" =>
              Cardinality(Promised') = Cardinality(Promised) + 1
         /\ (call[p].at = "alloc" <=> call'[p].at = "alloc") => Promised' = Promised
<1>1. IsFiniteSet(Users) /\ Promised \subseteq Users /\ Promised' \subseteq Users
  BY RdsAssumption DEF Promised
<1>2. IsFiniteSet(Promised) /\ IsFiniteSet(Promised') /\ Cardinality(Promised) \in Nat
  BY <1>1, FS_Subset, FS_CardinalityType
<1>3. ASSUME call[p].at = "alloc", call'[p].at # "alloc"
      PROVE  Cardinality(Promised') = Cardinality(Promised) - 1
  <2>1. Promised' = Promised \ {p} /\ p \in Promised
    BY <1>3 DEF Promised
  <2> QED
    BY <1>2, <2>1, FS_RemoveElement
<1>4. ASSUME call[p].at # "alloc", call'[p].at = "alloc"
      PROVE  Cardinality(Promised') = Cardinality(Promised) + 1
  <2>1. Promised' = Promised \cup {p} /\ p \notin Promised
    BY <1>4 DEF Promised
  <2> QED
    BY <1>2, <2>1, FS_AddElement
<1>5. ASSUME call[p].at = "alloc" <=> call'[p].at = "alloc" PROVE Promised' = Promised
  BY <1>5 DEF Promised
<1> QED
  BY <1>2, <1>3, <1>4, <1>5

\* A step that moves no buffer, and takes at most one out of a mailbox.
LEMMA ListsStay ==
  ASSUME TypeInv, ListInv, CountInv, HeldInv,
         rd'.free = rd.free, rd'.cache = rd.cache, rd'.reqq = rd.reqq,
         \A b \in Bufs : bufs'[b].refcnt = bufs[b].refcnt,
         availsem'.count = availsem.count, Promised' = Promised,
         \A p \in Users : mbox'[p] = mbox[p] \/ mbox'[p] = 0
  PROVE  ListInv' /\ CountInv' /\ HeldInv'
<1>1. ListInv'
  BY DEF ListInv
<1>2. CountInv'
  BY DEF CountInv
<1>3. HeldInv'
  <2> SUFFICES ASSUME NEW p \in Users, mbox'[p] \in Bufs
               PROVE  /\ ~Has(rd'.reqq, mbox'[p])
                      /\ bufs'[mbox'[p]].refcnt = 1
                      /\ \A q \in Users : q # p => mbox'[q] # mbox'[p]
    BY DEF HeldInv
  <2>1. mbox'[p] = mbox[p] /\ mbox[p] \in Bufs
    BY BufNumbers
  <2>2. /\ ~Has(rd.reqq, mbox[p]) /\ bufs[mbox[p]].refcnt = 1
        /\ \A q \in Users : q # p => mbox[q] # mbox[p]
    BY <2>1 DEF HeldInv
  <2>3. \A q \in Users : q # p => mbox'[q] # mbox'[p]
    BY <2>1, <2>2, BufNumbers
  <2> QED
    BY <2>1, <2>2, <2>3
<1> QED
  BY <1>1, <1>2, <1>3

\* What a user does leaves what rdsprocess is doing alone.
LEMMA AskStays ==
  ASSUME AskInv, call'["rds"] = call["rds"], rd.reqq # << >> => rd'.reqq # << >>
  PROVE  AskInv'
BY DEF AskInv

----------------------------------------------------------------------------
\* The server.

\* A file after one of its blocks was written.
LEMMA WrittenFile ==
  ASSUME NEW f \in Seq(Data), NEW k \in Nat, NEW v \in Data
  PROVE  Written(f, k, v) \in Seq(Data)
<1> DEFINE n == IF k + 1 > Len(f) THEN k + 1 ELSE Len(f)
           e(i) == IF i = k + 1 THEN v ELSE IF i <= Len(f) THEN f[i] ELSE "zero"
<1>1. Len(f) \in Nat /\ n \in Nat /\ "zero" \in Data
  BY DEF Data
<1>2. \A i \in 1..n : e(i) \in Data
  BY <1>1
<1>3. Written(f, k, v) = [i \in 1..n |-> e(i)]
  BY DEF Written
<1> HIDE DEF n, e
<1>4. [i \in 1..n |-> e(i)] \in Seq(Data)
  BY <1>1, <1>2
<1> QED
  BY <1>3, <1>4

\* What the server does with a request keeps a file for every disk that is open, and
\* its answer, if there is one, has the type and the number of the request.
LEMMA HandleType ==
  ASSUME NEW s, SrvSound(s), NEW m \in Wire
  PROVE  LET a == Handle(s, m) IN
         /\ SrvSound(a.srv)
         /\ \/ a.reply = NoReply
            \/ a.reply \in ReplyType /\ a.reply.type = m.type /\ a.reply.seq = m.seq
<1> DEFINE z == [s EXCEPT !.seq = m.seq]
<1>m. /\ m \in MsgType /\ m.type \in Requested /\ m.seq \in Nat /\ m.id \in Disks
      /\ m.blk \in Nat /\ m.data \in Data
  BY DEF Wire, MsgType
<1>s. /\ s = [seq |-> s.seq, ofiles |-> s.ofiles, files |-> s.files]
      /\ s.seq \in Nat
      /\ s.ofiles \subseteq DOMAIN s.files /\ DOMAIN s.files \subseteq Disks
      /\ s.files \in [DOMAIN s.files -> Seq(Data)]
  BY DEF SrvSound
<1>z. /\ z = [seq |-> m.seq, ofiles |-> s.ofiles, files |-> s.files]
      /\ z.seq = m.seq /\ z.ofiles = s.ofiles /\ z.files = s.files
      /\ SrvSound(z)
  <2>1. /\ z = [seq |-> m.seq, ofiles |-> s.ofiles, files |-> s.files]
        /\ z.seq = m.seq /\ z.ofiles = s.ofiles /\ z.files = s.files
    BY <1>s
  <2> HIDE DEF z
  <2> QED
    BY <1>m, <1>s, <2>1 DEF SrvSound
<1> HIDE DEF z
<1>r. \A d \in Data : /\ sndok(m, d) \in ReplyType /\ sndok(m, d).type = m.type
                      /\ sndok(m, d).seq = m.seq
  BY <1>m DEF sndok, Reply, ReplyType
<1>e. /\ snderr(m) \in ReplyType /\ snderr(m).type = m.type /\ snderr(m).seq = m.seq
  BY <1>m DEF snderr, Reply, ReplyType, Data
<1>n. "none" \in Data
  BY DEF Data
<1> DEFINE Good(a) == /\ SrvSound(a.srv)
                      /\ a.reply \in ReplyType /\ a.reply.type = m.type /\ a.reply.seq = m.seq
<1>a. ASSUME NEW y, SrvSound(y), NEW r \in ReplyType, r.type = m.type, r.seq = m.seq
      PROVE  Good(Answer(y, r))
  BY <1>a DEF Answer
<1> HIDE DEF Good
<1>1. Good(rdopen(z, m))
  <2>1. ASSUME m.id \notin z.ofiles PROVE SrvSound(rdofile(z, m.id))
    <3> DEFINE D == DOMAIN z.files \cup {m.id}
               g == [d \in D |-> IF d \in DOMAIN z.files THEN z.files[d] ELSE << >>]
               o == z.ofiles \cup {m.id}
               y == rdofile(z, m.id)
    <3>1. y = [z EXCEPT !.ofiles = o, !.files = g]
      BY DEF rdofile
    <3>2. g \in [D -> Seq(Data)] /\ o \subseteq D /\ D \subseteq Disks /\ DOMAIN g = D
      <4>1. << >> \in Seq(Data)
        OBVIOUS
      <4>2. \A d \in DOMAIN z.files : z.files[d] \in Seq(Data)
        BY <1>s, <1>z
      <4> QED
        BY <1>m, <1>s, <1>z, <4>1, <4>2
    <3> HIDE DEF g, o, D, y
    <3>3. y.seq = m.seq /\ y.ofiles = o /\ y.files = g
          /\ y = [seq |-> m.seq, ofiles |-> o, files |-> g]
      BY <1>z, <3>1
    <3>4. SrvSound(y)
      BY <1>m, <3>2, <3>3 DEF SrvSound
    <3> QED
      BY <3>4 DEF y
  <2> QED
    BY <1>z, <1>r, <1>e, <1>n, <1>a, <2>1 DEF rdopen
<1>2. Good(rdread(z, m))
  <2>1. ASSUME m.id \in z.ofiles, m.blk < Len(z.files[m.id]) PROVE z.files[m.id][m.blk + 1] \in Data
    <3>1. z.files[m.id] \in Seq(Data)
      BY <1>s, <1>z, <2>1
    <3>2. m.blk + 1 \in 1..Len(z.files[m.id])
      BY <1>m, <2>1, <3>1
    <3> QED
      BY <3>1, <3>2
  <2> QED
    BY <1>z, <1>r, <1>e, <1>a, <2>1 DEF rdread
<1>3. Good(rdwrite(z, m))
  <2>1. ASSUME m.id \in z.ofiles
        PROVE  SrvSound([z EXCEPT !.files[m.id] = Written(@, m.blk, m.data)])
    <3> DEFINE w == Written(z.files[m.id], m.blk, m.data)
               g == [z.files EXCEPT ![m.id] = w]
               y == [z EXCEPT !.files[m.id] = Written(@, m.blk, m.data)]
    <3>1. w \in Seq(Data)
      <4>1. z.files[m.id] \in Seq(Data)
        BY <1>s, <1>z, <2>1
      <4> QED
        BY <1>m, <4>1, WrittenFile
    <3>2. y = [z EXCEPT !.files = g]
      BY <1>z
    <3> HIDE DEF w
    <3>3. g \in [DOMAIN z.files -> Seq(Data)] /\ DOMAIN g = DOMAIN z.files
      BY <1>s, <1>z, <3>1
    <3> HIDE DEF g, y
    <3>4. y.seq = m.seq /\ y.ofiles = z.ofiles /\ y.files = g
          /\ y = [seq |-> m.seq, ofiles |-> z.ofiles, files |-> g]
      BY <1>z, <3>2
    <3>5. SrvSound(y)
      BY <1>m, <1>s, <1>z, <3>3, <3>4 DEF SrvSound
    <3> QED
      BY <3>5 DEF y
  <2> QED
    BY <1>z, <1>r, <1>e, <1>n, <1>a, <2>1 DEF rdwrite
<1>4. Good(rddelete(z, m))
  <2> DEFINE o == z.ofiles \ {m.id}
             D == DOMAIN z.files \ {m.id}
             g == [d \in D |-> z.files[d]]
             x == [z EXCEPT !.ofiles = o]
             y == [z EXCEPT !.ofiles = o, !.files = g]
  <2>1. g \in [D -> Seq(Data)] /\ o \subseteq D /\ D \subseteq Disks /\ DOMAIN g = D
    <3>1. \A d \in DOMAIN z.files : z.files[d] \in Seq(Data)
      BY <1>s, <1>z
    <3> QED
      BY <1>s, <1>z, <3>1
  <2>2. rddelete(z, m) = IF m.id \notin DOMAIN z.files THEN Answer(x, snderr(m))
                         ELSE Answer(y, sndok(m, "none"))
    BY DEF rddelete
  <2>0. o \subseteq DOMAIN z.files
    BY <1>s, <1>z
  <2> HIDE DEF g, o, D
  <2>3. x.seq = m.seq /\ x.ofiles = o /\ x.files = z.files
        /\ x = [seq |-> m.seq, ofiles |-> o, files |-> z.files]
    BY <1>z
  <2>4. y.seq = m.seq /\ y.ofiles = o /\ y.files = g
        /\ y = [seq |-> m.seq, ofiles |-> o, files |-> g]
    <3>1. y = [x EXCEPT !.files = g]
      OBVIOUS
    <3> HIDE DEF x, y
    <3> QED
      BY <2>3, <3>1
  <2> HIDE DEF x, y
  <2>5. SrvSound(x)
    BY <1>m, <1>s, <1>z, <2>0, <2>3 DEF SrvSound
  <2>6. SrvSound(y)
    BY <1>m, <2>1, <2>4 DEF SrvSound
  <2>7. Good(Answer(x, snderr(m)))
    BY <1>e, <1>a, <2>5
  <2>8. Good(Answer(y, sndok(m, "none")))
    BY <1>r, <1>n, <1>a, <2>6
  <2> QED
    BY <2>2, <2>7, <2>8
<1>5. Good(Answer(z, snderr(m)))
  BY <1>z, <1>e, <1>a
<1>6. CASE Ignored(s, m)
  <2>1. Handle(s, m) = Answer(s, NoReply)
    BY <1>6 DEF Handle
  <2> QED
    BY <2>1 DEF Answer
<1>7. CASE ~Ignored(s, m)
  <2>1. /\ m.id \in BadIds => Handle(s, m) = Answer(z, snderr(m))
        /\ m.id \notin BadIds =>
             /\ m.type = "OREQ" => Handle(s, m) = rdopen(z, m)
             /\ m.type = "RREQ" => Handle(s, m) = rdread(z, m)
             /\ m.type = "WREQ" => Handle(s, m) = rdwrite(z, m)
             /\ m.type = "DREQ" => Handle(s, m) = rddelete(z, m)
    BY <1>7 DEF Handle, z
  <2>2. Good(Handle(s, m))
    BY <1>m, <1>1, <1>2, <1>3, <1>4, <1>5, <2>1 DEF Requested
  <2> QED
    BY <2>2 DEF Good
<1> QED
  BY <1>6, <1>7

----------------------------------------------------------------------------
\* The steps that move no buffer.

LEMMA QuietStep ==
  ASSUME DiskInv, status = "ok", TypeInv', AskInv',
         rd'.free = rd.free, rd'.cache = rd.cache, rd'.reqq = rd.reqq,
         \A b \in Bufs : bufs'[b].refcnt = bufs[b].refcnt,
         availsem'.count = availsem.count,
         \A q \in Users : call'[q].at = "alloc" <=> call[q].at = "alloc",
         \A p \in Users : mbox'[p] = mbox[p] \/ mbox'[p] = 0
  PROVE  DiskInv'
<1>1. Promised' = Promised
  BY DEF Promised
<1>2. TypeInv /\ ListInv /\ CountInv /\ HeldInv
  BY DEF DiskInv
<1>3. ListInv' /\ CountInv' /\ HeldInv'
  BY <1>1, <1>2, ListsStay
<1> QED
  BY <1>3 DEF DiskInv

\* A process in the middle of an exchange goes on with it, or ends it.
LEMMA CommStep ==
  ASSUME DiskInv, status = "ok", NEW p \in Procs, call[p].at \in {"send", "recv"},
         call' \in [Procs -> CallType], call'[p].msg = call[p].msg,
         call'[p].at \in {"send", "recv", "OK", "SYSERR"},
         \A q \in Procs : q # p => call'[q] = call[q],
         slot' \in Procs \cup {"none"}, toServer' \subseteq Wire, toClient' \subseteq ReplyType,
         UNCHANGED <<diskVars, mbox, srv, ghosts, calls, status>>
  PROVE  DiskInv'
<1>0. TypeInv /\ AskInv /\ Users \subseteq Procs /\ "rds" \in Procs
  BY DEF DiskInv, Procs
<1>1. UNCHANGED <<rd, bufs, availsem, reqsem, latest, got, allow>>
  BY DEF diskVars, ghosts
<1>2. DiskType' /\ SrvType' /\ GhostType' /\ NetType'
  BY <1>0, <1>1 DEF TypeInv, DiskType, SrvType, GhostType, NetType
<1>3. CallInv'
  BY <1>0 DEF TypeInv, CallInv
<1>4. AskInv'
  BY <1>0, <1>1 DEF AskInv
<1>5. TypeInv'
  BY <1>2, <1>3 DEF TypeInv
<1>6. \A q \in Users : call'[q].at = "alloc" <=> call[q].at = "alloc"
  BY <1>0
<1> QED
  BY <1>1, <1>4, <1>5, <1>6, QuietStep

LEMMA rdscommDisk ==
  ASSUME DiskInv, NEW p \in Procs, rdscomm(p)
  PROVE  DiskInv'
<1>1. /\ status = "ok" /\ call[p].at = "send" /\ UNCHANGED calls
      /\ toServer' = IF call[p].xmit THEN toServer \cup {call[p].msg} ELSE toServer
      /\ IF slot = "none" THEN slot' = p /\ Goto(p, call[p], "recv")
         ELSE Goto(p, call[p], "SYSERR") /\ UNCHANGED slot
      /\ UNCHANGED <<diskVars, mbox, toClient, srv, ghosts, status>>
  BY DEF rdscomm, At
<1>2. /\ call \in [Procs -> CallType] /\ call[p] \in CallType /\ call[p].msg \in Wire
      /\ toServer \subseteq Wire /\ toClient \subseteq ReplyType /\ slot \in Procs \cup {"none"}
  BY <1>1 DEF DiskInv, TypeInv, CallInv, NetType
<1>3. toServer' \subseteq Wire /\ toClient' \subseteq ReplyType /\ slot' \in Procs \cup {"none"}
  BY <1>1, <1>2
<1>4. \E at \in {"recv", "SYSERR"} : Goto(p, call[p], at)
  BY <1>1
<1>5. PICK at \in {"recv", "SYSERR"} : Goto(p, call[p], at)
  BY <1>4
<1>6. at \in Places
  BY DEF Places
<1>7. /\ call' \in [Procs -> CallType] /\ call'[p].at = at /\ call'[p].msg = call[p].msg
      /\ \A q \in Procs : q # p => call'[q] = call[q]
  BY <1>2, <1>5, <1>6, GotoType
<1> QED
  BY <1>1, <1>3, <1>5, <1>7, CommStep

\* What is left of an exchange after a try that failed.
LEMMA AgainType ==
  ASSUME call \in [Procs -> CallType], NEW p \in Procs, NEW c \in CallType,
         NEW xmit \in BOOLEAN, Again(p, c, xmit)
  PROVE  /\ call' \in [Procs -> CallType]
         /\ call'[p].at \in {"send", "SYSERR"} /\ call'[p].msg = c.msg
         /\ \A q \in Procs : q # p => call'[q] = call[q]
<1>0. "send" \in Places /\ "SYSERR" \in Places
  BY DEF Places
<1>1. CASE c.i = RD_RETRIES
  <2>1. Goto(p, c, "SYSERR")
    BY <1>1 DEF Again
  <2> QED
    BY <1>0, <2>1, GotoType
<1>2. CASE c.i # RD_RETRIES
  <2> DEFINE n == c.i + 1
             d == [c EXCEPT !.i = n, !.xmit = xmit]
  <2>1. Goto(p, d, "send")
    BY <1>2 DEF Again
  <2>2. n \in 0..RD_RETRIES
    <3>1. c.i \in 0..RD_RETRIES
      BY DEF CallType
    <3> QED
      BY <1>2, <3>1, BufNumbers
  <2> HIDE DEF n
  <2>3. d \in CallType /\ d.msg = c.msg
    BY <2>2 DEF CallType
  <2> HIDE DEF d
  <2>4. /\ call' \in [Procs -> CallType] /\ call'[p].at = "send" /\ call'[p].msg = d.msg
        /\ \A q \in Procs : q # p => call'[q] = call[q]
    BY <1>0, <2>1, <2>3, GotoType
  <2> QED
    BY <2>3, <2>4
<1> QED
  BY <1>1, <1>2

LEMMA rdscommReplyDisk ==
  ASSUME DiskInv, NEW p \in Procs, NEW r, rdscommReply(p, r)
  PROVE  DiskInv'
<1> DEFINE m == call[p].msg
           e == IF r.data = "none" THEN call[p].resp ELSE r.data
           c == [call[p] EXCEPT !.resp = e]
<1>1. /\ status = "ok" /\ call[p].at = "recv" /\ UNCHANGED calls
      /\ r \in toClient /\ toClient' = toClient \ {r} /\ slot' = "none"
      /\ CASE Mismatch(r, m) -> Again(p, c, ~(r.seq < m.seq))
           [] ~Mismatch(r, m) /\ r.status # 0 -> Goto(p, c, "SYSERR")
           [] OTHER -> Goto(p, c, "OK")
      /\ UNCHANGED <<diskVars, mbox, toServer, srv, ghosts, status>>
  BY DEF rdscommReply, At
<1>2. /\ call \in [Procs -> CallType] /\ call[p] \in CallType
      /\ toServer \subseteq Wire /\ toClient \subseteq ReplyType /\ r \in ReplyType
  BY <1>1 DEF DiskInv, TypeInv, CallInv, NetType
<1>3. toServer' \subseteq Wire /\ toClient' \subseteq ReplyType /\ slot' \in Procs \cup {"none"}
  BY <1>1, <1>2
<1>4. e \in Data
  BY <1>2 DEF CallType, ReplyType
<1> HIDE DEF e
<1>5. c \in CallType /\ c.msg = m
  BY <1>2, <1>4 DEF CallType
<1> HIDE DEF c, m
<1>6. \/ \E x \in BOOLEAN : Again(p, c, x)
      \/ \E at \in {"SYSERR", "OK"} : Goto(p, c, at)
  BY <1>1
<1>7. /\ call' \in [Procs -> CallType] /\ call'[p].msg = m
      /\ call'[p].at \in {"send", "SYSERR", "OK"}
      /\ \A q \in Procs : q # p => call'[q] = call[q]
  <2>1. CASE \E x \in BOOLEAN : Again(p, c, x)
    BY <1>2, <1>5, <2>1, AgainType
  <2>2. CASE \E at \in {"SYSERR", "OK"} : Goto(p, c, at)
    <3>1. PICK at \in {"SYSERR", "OK"} : Goto(p, c, at)
      BY <2>2
    <3>2. at \in Places
      BY DEF Places
    <3>3. /\ call' \in [Procs -> CallType] /\ call'[p].at = at /\ call'[p].msg = c.msg
          /\ \A q \in Procs : q # p => call'[q] = call[q]
      BY <1>2, <1>5, <3>1, <3>2, GotoType
    <3> QED
      BY <1>5, <3>1, <3>3
  <2> QED
    BY <1>6, <2>1, <2>2
<1> QED
  BY <1>1, <1>3, <1>7, CommStep DEF m

LEMMA rdscommTimeoutDisk ==
  ASSUME DiskInv, NEW p \in Procs, rdscommTimeout(p)
  PROVE  DiskInv'
<1>1. /\ status = "ok" /\ call[p].at = "recv" /\ UNCHANGED calls
      /\ slot' = "none" /\ Again(p, call[p], TRUE)
      /\ UNCHANGED <<diskVars, mbox, toServer, toClient, srv, ghosts, status>>
  BY DEF rdscommTimeout, At
<1>2. /\ call \in [Procs -> CallType] /\ call[p] \in CallType
      /\ toServer \subseteq Wire /\ toClient \subseteq ReplyType
  BY <1>1 DEF DiskInv, TypeInv, CallInv, NetType
<1>3. /\ call' \in [Procs -> CallType]
      /\ call'[p].at \in {"send", "SYSERR"} /\ call'[p].msg = call[p].msg
      /\ \A q \in Procs : q # p => call'[q] = call[q]
  BY <1>1, <1>2, AgainType
<1>4. toServer' \subseteq Wire /\ toClient' \subseteq ReplyType /\ slot' \in Procs \cup {"none"}
  BY <1>1, <1>2
<1> QED
  BY <1>1, <1>3, <1>4, CommStep

\* The network and the server see nothing of the lists.
LEMMA OutsideStep ==
  ASSUME DiskInv, status = "ok", UNCHANGED <<diskVars, call, mbox>>, NetType', SrvType', GhostType'
  PROVE  DiskInv'
<1>1. UNCHANGED <<rd, bufs, availsem, reqsem>>
  BY DEF diskVars
<1>2. DiskType' /\ CallInv'
  BY <1>1 DEF DiskInv, TypeInv, DiskType, CallInv
<1>3. TypeInv' /\ AskInv'
  BY <1>1, <1>2 DEF TypeInv, DiskInv, AskInv
<1> QED
  BY <1>1, <1>3, QuietStep

LEMMA LoseDisk ==
  ASSUME DiskInv, Lose
  PROVE  DiskInv'
<1>1. /\ status = "ok" /\ toServer' \subseteq toServer /\ toClient' \subseteq toClient
      /\ UNCHANGED <<diskVars, call, mbox, slot, srv, ghosts, calls, status>>
  BY DEF Lose
<1>2. NetType' /\ SrvType' /\ GhostType'
  BY <1>1 DEF DiskInv, TypeInv, NetType, SrvType, GhostType, ghosts
<1> QED
  BY <1>1, <1>2, OutsideStep

LEMMA ServeDisk ==
  ASSUME DiskInv, NEW m, Serve(m)
  PROVE  DiskInv'
<1> DEFINE a == Handle(srv, m)
<1>1. /\ status = "ok" /\ m \in toServer /\ toServer' = toServer \ {m} /\ srv' = a.srv
      /\ toClient' = IF a.reply = NoReply THEN toClient ELSE toClient \cup {a.reply}
      /\ IF m.id \in a.srv.ofiles THEN UNCHANGED <<latest, allow>>
         ELSE /\ latest' = [k \in Blocks |-> "none"]
              /\ allow' = [p \in Users |-> allow[p] \cup {"none"}]
      /\ UNCHANGED <<diskVars, call, mbox, slot, got, calls, status>>
  BY DEF Serve
<1>2. TypeInv /\ NetType /\ SrvSound(srv) /\ GhostType /\ m \in Wire
  BY <1>1 DEF DiskInv, TypeInv, NetType, SrvType
<1>3. /\ SrvSound(a.srv)
      /\ a.reply = NoReply \/ a.reply \in ReplyType
  BY <1>2, HandleType
<1> HIDE DEF a
<1>4. NetType'
  BY <1>1, <1>2, <1>3 DEF NetType
<1>5. SrvType'
  BY <1>1, <1>3 DEF SrvType
<1>6. GhostType'
  <2>1. latest' \in [Blocks -> Data]
    BY <1>1, <1>2 DEF GhostType, Data
  <2>2. allow' \in [Users -> SUBSET Data]
    BY <1>1, <1>2 DEF GhostType, Data
  <2> QED
    BY <1>1, <1>2, <2>1, <2>2 DEF GhostType
<1> QED
  BY <1>1, <1>4, <1>5, <1>6, OutsideStep

----------------------------------------------------------------------------
\* The calls.

\* A call is made by a user who does nothing else.
LEMMA Called ==
  ASSUME DiskInv, NEW p \in Users, NEW op, May(p, op)
  PROVE  /\ status = "ok" /\ call[p].at = "idle" /\ calls' \in Nat
         /\ p \in Procs /\ "rds" \in Procs /\ p # "rds" /\ Users \subseteq Procs
         /\ call \in [Procs -> CallType] /\ call[p] \in CallType
         /\ TypeInv /\ ListInv /\ AskInv /\ CountInv /\ HeldInv
BY RdsAssumption DEF May, DiskInv, TypeInv, CallInv, GhostType, Procs

\* A step of a user that changes neither the lists nor the semaphores, and stays away
\* from rd_availsem.
LEMMA UserStep ==
  ASSUME DiskInv, status = "ok", NEW p \in Users,
         call' \in [Procs -> CallType],
         call[p].at # "alloc", call'[p].at # "alloc",
         call'[p].at \in {"send", "recv"} => call'[p].msg \in Wire,
         \A q \in Procs : q # p => call'[q] = call[q],
         rd' \in RdType, rd'.free = rd.free, rd'.cache = rd.cache, rd'.reqq = rd.reqq,
         bufs' \in [Bufs -> BufType], \A b \in Bufs : bufs'[b].refcnt = bufs[b].refcnt,
         UNCHANGED <<availsem, reqsem>>,
         NetType', SrvType', GhostType',
         \A q \in Users : mbox'[q] = mbox[q] \/ mbox'[q] = 0
  PROVE  DiskInv'
<1>1. TypeInv /\ AskInv /\ p # "rds" /\ Users \subseteq Procs /\ "rds" \in Procs
  BY RdsAssumption DEF DiskInv, Procs
<1>2. DiskType'
  BY <1>1 DEF TypeInv, DiskType
<1>3. CallInv'
  BY <1>1 DEF TypeInv, CallInv
<1>4. TypeInv'
  BY <1>2, <1>3 DEF TypeInv
<1>5. AskInv'
  BY <1>1 DEF AskInv
<1>6. \A q \in Users : call'[q].at = "alloc" <=> call[q].at = "alloc"
  BY <1>1
<1> QED
  BY <1>4, <1>5, <1>6, QuietStep

LEMMA rdsopenDisk ==
  ASSUME DiskInv, NEW p \in Users, NEW id \in Ids, rdsopen(p, id)
  PROVE  DiskInv'
<1> DEFINE n == rd.seq + 1
           m == [NoMsg EXCEPT !.type = "OREQ", !.seq = rd.seq, !.id = id]
           c == [Idle EXCEPT !.at = "send", !.i = 1, !.msg = m]
<1>1. /\ May(p, "open")
      /\ rd' = [rd EXCEPT !.state = "PEND", !.id = id, !.seq = n]
      /\ call' = [call EXCEPT ![p] = c]
      /\ UNCHANGED <<bufs, availsem, reqsem, mbox, netVars, srv, ghosts, status>>
  BY DEF rdsopen
<1>2. /\ status = "ok" /\ call[p].at = "idle" /\ calls' \in Nat
      /\ p \in Procs /\ call \in [Procs -> CallType] /\ TypeInv
  BY <1>1, Called
<1>3. /\ rd \in RdType /\ bufs \in [Bufs -> BufType] /\ rd.seq \in Nat
  BY <1>2 DEF TypeInv, DiskType, RdType
<1>4. m \in Wire
  <2>1. m \in MsgType /\ m.type = "OREQ"
    BY <1>3, IdleTypes DEF MsgType, Requested, Disks
  <2> QED
    BY <2>1 DEF Wire, Requested
<1> HIDE DEF m
<1>5. c \in CallType /\ c.at = "send" /\ c.msg = m
  BY <1>4, IdleTypes, BufNumbers DEF CallType, Wire, Places
<1> HIDE DEF c
<1>6. /\ call' \in [Procs -> CallType] /\ call'[p] = c
      /\ \A q \in Procs : q # p => call'[q] = call[q]
  BY <1>1, <1>2, <1>5
<1>7. rd' \in RdType /\ rd'.free = rd.free /\ rd'.cache = rd.cache /\ rd'.reqq = rd.reqq
  <2>1. n \in Nat
    BY <1>3
  <2> HIDE DEF n
  <2> QED
    BY <1>1, <1>3, <2>1 DEF RdType, Disks
<1>8. NetType' /\ SrvType' /\ GhostType'
  BY <1>1, <1>2 DEF TypeInv, NetType, SrvType, GhostType, netVars, ghosts
<1> QED
  BY <1>1, <1>2, <1>3, <1>4, <1>5, <1>6, <1>7, <1>8, UserStep

LEMMA rdsopenRefusedDisk ==
  ASSUME DiskInv, NEW p \in Users, rdsopenRefused(p)
  PROVE  DiskInv'
<1>1. /\ May(p, "open")
      /\ rd' = [rd EXCEPT !.state = "PEND"]
      /\ UNCHANGED <<bufs, availsem, reqsem, call, mbox, netVars, srv, ghosts, status>>
  BY DEF rdsopenRefused
<1>2. /\ status = "ok" /\ call[p].at = "idle" /\ calls' \in Nat
      /\ call \in [Procs -> CallType] /\ TypeInv
  BY <1>1, Called
<1>3. rd \in RdType /\ bufs \in [Bufs -> BufType]
  BY <1>2 DEF TypeInv, DiskType
<1>4. rd' \in RdType /\ rd'.free = rd.free /\ rd'.cache = rd.cache /\ rd'.reqq = rd.reqq
  BY <1>1, <1>3 DEF RdType
<1>5. NetType' /\ SrvType' /\ GhostType'
  BY <1>1, <1>2 DEF TypeInv, NetType, SrvType, GhostType, netVars, ghosts
<1> QED
  BY <1>1, <1>2, <1>3, <1>4, <1>5, UserStep

\* A step of a user that ends a call, or one that never was in an exchange.
LEMMA Returned ==
  ASSUME call \in [Procs -> CallType], NEW p \in Procs, Return(p)
  PROVE  /\ call' \in [Procs -> CallType] /\ call'[p].at = "idle"
         /\ \A q \in Procs : q # p => call'[q] = call[q]
<1>1. Goto(p, Idle, "idle") /\ "idle" \in Places
  BY DEF Return, Places
<1> QED
  BY <1>1, IdleTypes, GotoType

LEMMA rdsopenDoneDisk ==
  ASSUME DiskInv, NEW p \in Users, rdsopenDone(p)
  PROVE  DiskInv'
<1> DEFINE s == IF call[p].at = "OK" THEN "OPEN" ELSE "FREE"
<1>1. /\ status = "ok" /\ call[p].at \in {"OK", "SYSERR"} /\ UNCHANGED calls
      /\ rd' = [rd EXCEPT !.state = s]
      /\ Return(p)
      /\ UNCHANGED <<bufs, availsem, reqsem, mbox, netVars, srv, ghosts, status>>
  BY DEF rdsopenDone, At
<1>2. /\ p \in Procs /\ call \in [Procs -> CallType] /\ TypeInv
      /\ rd \in RdType /\ bufs \in [Bufs -> BufType]
  BY DEF DiskInv, TypeInv, CallInv, DiskType, Procs
<1>3. /\ call' \in [Procs -> CallType] /\ call'[p].at = "idle"
      /\ \A q \in Procs : q # p => call'[q] = call[q]
  BY <1>1, <1>2, Returned
<1>4. rd' \in RdType /\ rd'.free = rd.free /\ rd'.cache = rd.cache /\ rd'.reqq = rd.reqq
  BY <1>1, <1>2 DEF RdType
<1>5. NetType' /\ SrvType' /\ GhostType'
  BY <1>1, <1>2 DEF TypeInv, NetType, SrvType, GhostType, netVars, ghosts
<1> QED
  BY <1>1, <1>2, <1>3, <1>4, <1>5, UserStep

LEMMA rdsdeleteDisk ==
  ASSUME DiskInv, NEW p \in Users, rdsdelete(p)
  PROVE  DiskInv'
<1> DEFINE n == rd.seq + 1
           m == [NoMsg EXCEPT !.type = "DREQ"]
<1>1. /\ May(p, "delete")
      /\ rd' = [rd EXCEPT !.seq = n]
      /\ Exchange(p, Idle, m)
      /\ UNCHANGED <<bufs, availsem, reqsem, mbox, netVars, srv, ghosts, status>>
  BY DEF rdsdelete
<1>2. /\ status = "ok" /\ call[p].at = "idle" /\ calls' \in Nat
      /\ p \in Procs /\ call \in [Procs -> CallType] /\ TypeInv
  BY <1>1, Called
<1>3. /\ rd \in RdType /\ bufs \in [Bufs -> BufType] /\ rd.seq \in Nat
  BY <1>2 DEF TypeInv, DiskType, RdType
<1>4. m \in MsgType /\ m.type \in Requested
  BY IdleTypes DEF MsgType, Requested
<1> HIDE DEF m
<1>5. /\ call' \in [Procs -> CallType]
      /\ call'[p].at = "send" /\ call'[p].msg \in Wire
      /\ \A q \in Procs : q # p => call'[q] = call[q]
  BY <1>1, <1>2, <1>3, <1>4, IdleTypes, ExchangeType
<1>6. rd' \in RdType /\ rd'.free = rd.free /\ rd'.cache = rd.cache /\ rd'.reqq = rd.reqq
  <2>1. n \in Nat
    BY <1>3
  <2> HIDE DEF n
  <2> QED
    BY <1>1, <1>3, <2>1 DEF RdType
<1>7. NetType' /\ SrvType' /\ GhostType'
  BY <1>1, <1>2 DEF TypeInv, NetType, SrvType, GhostType, netVars, ghosts
<1> QED
  BY <1>1, <1>2, <1>3, <1>5, <1>6, <1>7, UserStep

LEMMA rdssyncDoneDisk ==
  ASSUME DiskInv, NEW p \in Users, rdssyncDone(p)
  PROVE  DiskInv'
<1>1. /\ status = "ok" /\ call[p].at = "receive" /\ UNCHANGED calls
      /\ mbox' = [mbox EXCEPT ![p] = 0] /\ Return(p)
      /\ UNCHANGED <<diskVars, netVars, srv, ghosts, status>>
  BY DEF rdssyncDone, At
<1>2. /\ p \in Procs /\ call \in [Procs -> CallType] /\ TypeInv
      /\ rd \in RdType /\ bufs \in [Bufs -> BufType] /\ mbox \in [Users -> 0..OK]
  BY DEF DiskInv, TypeInv, CallInv, DiskType, NetType, Procs
<1>3. /\ call' \in [Procs -> CallType] /\ call'[p].at = "idle"
      /\ \A q \in Procs : q # p => call'[q] = call[q]
  BY <1>1, <1>2, Returned
<1>4. UNCHANGED <<rd, bufs, availsem, reqsem>>
  BY <1>1 DEF diskVars
<1>5. NetType' /\ SrvType' /\ GhostType'
  BY <1>1, <1>2, BufNumbers DEF TypeInv, NetType, SrvType, GhostType, netVars, ghosts
<1>6. \A q \in Users : mbox'[q] = mbox[q] \/ mbox'[q] = 0
  BY <1>1, <1>2
<1> QED
  BY <1>1, <1>2, <1>3, <1>4, <1>5, <1>6, UserStep

----------------------------------------------------------------------------
\* The steps of the users that move buffers.

\* What is left to show of a step of a user: the types, the lists and the counts.
LEMMA UserMove ==
  ASSUME DiskInv, NEW p \in Users,
         call' \in [Procs -> CallType], call'[p].at \notin {"send", "recv"},
         call'[p].at = "alloc" => Pending(call'[p]),
         \A q \in Procs : q # p => call'[q] = call[q],
         DiskType', NetType', SrvType', GhostType',
         ListInv', rd.reqq # << >> => rd'.reqq # << >>,
         status' = "ok" => CountInv' /\ HeldInv'
  PROVE  DiskInv'
<1>1. TypeInv /\ AskInv /\ p # "rds" /\ "rds" \in Procs
  BY RdsAssumption DEF DiskInv, Procs
<1>2. CallInv'
  BY <1>1 DEF TypeInv, CallInv
<1>3. TypeInv'
  BY <1>2 DEF TypeInv
<1>4. AskInv'
  BY <1>1, AskStays
<1> QED
  BY <1>3, <1>4 DEF DiskInv

\* The buffers that were sent stay held when none of them goes to the request queue, no
\* reference count changes and nothing new is sent.
LEMMA HeldStays ==
  ASSUME TypeInv, HeldInv, UNCHANGED mbox,
         \A b \in Bufs : Has(rd'.reqq, b) => Has(rd.reqq, b),
         \A b \in Bufs : bufs'[b].refcnt = bufs[b].refcnt
  PROVE  HeldInv'
BY DEF HeldInv

\* rd_availsem follows the buffers that come and go and the promises made and kept.
LEMMA CountMoves ==
  ASSUME DiskType, ListInv, ListInv', CountInv, NEW d \in Int, NEW e \in Int,
         Cardinality(Promised) \in Nat,
         Len(rd'.free) + Len(rd'.cache) = Len(rd.free) + Len(rd.cache) + d,
         Cardinality(Promised') = Cardinality(Promised) + e,
         availsem'.count = availsem.count + d - e
  PROVE  CountInv'
<1> DEFINE f == Len(rd.free)
           c == Len(rd.cache)
           n == Cardinality(Promised)
           a == availsem.count
           g == Len(rd'.free)
           h == Len(rd'.cache)
           m == Cardinality(Promised')
           b == availsem'.count
<1>1. f \in Nat /\ c \in Nat /\ g \in Nat /\ h \in Nat
  BY SMTT(60) DEF ListInv, Divided
<1>2. a = f + c - n /\ n \in Nat /\ g + h = f + c + d /\ m = n + e /\ b = a + d - e
  BY DEF CountInv
<1> HIDE DEF f, c, n, a, g, h, m, b
<1>3. b = g + h - m
  BY <1>1, <1>2
<1> QED
  BY <1>3 DEF CountInv, b, g, h, m

\* As many buffers may be had, and have been promised, as before.
LEMMA CountSame ==
  ASSUME ListInv, ListInv', CountInv, UNCHANGED availsem,
         Cardinality(Promised) \in Nat, Promised' = Promised,
         Len(rd'.free) + Len(rd'.cache) = Len(rd.free) + Len(rd.cache)
  PROVE  CountInv'
<1> DEFINE f == Len(rd.free)
           c == Len(rd.cache)
           n == Cardinality(Promised)
           a == availsem.count
           g == Len(rd'.free)
           h == Len(rd'.cache)
           m == Cardinality(Promised')
           b == availsem'.count
<1>0. f \in Nat /\ c \in Nat /\ g \in Nat /\ h \in Nat /\ n \in Nat
  BY DEF ListInv, Divided
<1>1. a = f + c - n /\ g + h = f + c /\ m = n /\ b = a
  BY DEF CountInv
<1> HIDE DEF f, c, n, a, g, h, m, b
<1>2. b = g + h - m
  BY <1>0, <1>1
<1> QED
  BY <1>2 DEF CountInv, b, g, h, m

\* A close moves the cache to the free list or changes nothing.
LEMMA ClosedMoves ==
  ASSUME TypeInv, ListInv, Closed
  PROVE  /\ rd' \in RdType /\ bufs' \in [Bufs -> BufType]
         /\ ListInv' /\ rd'.reqq = rd.reqq
         /\ Len(rd'.free) + Len(rd'.cache) = Len(rd.free) + Len(rd.cache)
         /\ \A b \in Bufs : bufs'[b].refcnt = bufs[b].refcnt
<1>1. rd \in RdType /\ bufs \in [Bufs -> BufType]
  BY DEF TypeInv, DiskType
<1>2. CASE rd.state # "OPEN" \/ rd.reqq # << >>
  <2>1. rd' = rd /\ bufs' = bufs
    BY <1>2 DEF Closed
  <2> QED
    BY <1>1, <2>1 DEF ListInv
<1>3. CASE ~(rd.state # "OPEN" \/ rd.reqq # << >>)
  <2> DEFINE g == Reverse(rd.cache) \o rd.free
             e == << >>
             inv(b) == [bufs[b] EXCEPT !.valid = FALSE]
  <2>1. /\ rd' = [rd EXCEPT !.state = "FREE", !.cache = e, !.free = g]
        /\ bufs' = [b \in Bufs |-> IF b \in Range(rd.cache) THEN inv(b) ELSE bufs[b]]
    BY <1>3 DEF Closed
  <2>2. Divided(g, e, rd.reqq) /\ Len(g) = Len(rd.free) + Len(rd.cache) /\ Len(e) = 0
    BY CacheToFree DEF ListInv
  <2>3. g \in Seq(Bufs) /\ e \in Seq(Bufs)
    BY <2>2 DEF Divided
  <2>4. \A b \in Bufs : inv(b) \in BufType /\ inv(b).refcnt = bufs[b].refcnt
    BY <1>1 DEF BufType
  <2> HIDE DEF g, e, inv
  <2>5. Len(g) \in Nat
    BY <2>3
  <2>6. /\ rd' \in RdType /\ rd'.free = g /\ rd'.cache = e /\ rd'.reqq = rd.reqq
    BY <1>1, <2>1, <2>3 DEF RdType
  <2>7. bufs' \in [Bufs -> BufType] /\ \A b \in Bufs : bufs'[b].refcnt = bufs[b].refcnt
    BY <1>1, <2>1, <2>4
  <2>8. ListInv'
    BY <2>2, <2>6 DEF ListInv
  <2>9. Len(rd'.free) + Len(rd'.cache) = Len(rd.free) + Len(rd.cache)
    <3>1. Len(rd'.free) = Len(g) /\ Len(rd'.cache) = 0
      BY <2>2, <2>6
    <3>2. Len(rd'.free) + Len(rd'.cache) = Len(g)
      BY <2>5, <3>1
    <3> QED
      BY <2>2, <3>2
  <2> QED
    BY <2>6, <2>7, <2>8, <2>9
<1> QED
  BY <1>2, <1>3

LEMMA rdscloseDisk ==
  ASSUME DiskInv, NEW p \in Users, rdsclose(p)
  PROVE  DiskInv'
<1>1. /\ May(p, "close") /\ Closed
      /\ UNCHANGED <<availsem, reqsem, call, mbox, netVars, srv, ghosts, status>>
  BY DEF rdsclose
<1>2. /\ status = "ok" /\ call[p].at = "idle" /\ calls' \in Nat
      /\ call \in [Procs -> CallType] /\ TypeInv /\ ListInv /\ CountInv /\ HeldInv
  BY <1>1, Called
<1>3. /\ rd' \in RdType /\ bufs' \in [Bufs -> BufType]
      /\ ListInv' /\ rd'.reqq = rd.reqq
      /\ Len(rd'.free) + Len(rd'.cache) = Len(rd.free) + Len(rd.cache)
      /\ \A b \in Bufs : bufs'[b].refcnt = bufs[b].refcnt
  BY <1>1, <1>2, ClosedMoves
<1>4. DiskType' /\ NetType' /\ SrvType' /\ GhostType'
  BY <1>1, <1>2, <1>3 DEF TypeInv, DiskType, NetType, SrvType, GhostType, netVars, ghosts
<1>5. CountInv'
  <2>1. Promised' = Promised
    BY <1>1 DEF Promised
  <2> QED
    BY <1>1, <1>2, <1>3, <2>1, PromisedFinite, CountSame
<1>6. HeldInv'
  BY <1>1, <1>2, <1>3, HeldStays
<1> QED
  BY <1>1, <1>2, <1>3, <1>4, <1>5, <1>6, UserMove

LEMMA rdsdeleteDoneDisk ==
  ASSUME DiskInv, NEW p \in Users, rdsdeleteDone(p)
  PROVE  DiskInv'
<1>1. /\ status = "ok" /\ call[p].at \in {"OK", "SYSERR"} /\ UNCHANGED calls
      /\ Closed \/ UNCHANGED <<rd, bufs>>
      /\ Return(p)
      /\ UNCHANGED <<availsem, reqsem, mbox, netVars, srv, ghosts, status>>
  BY DEF rdsdeleteDone, At
<1>2. /\ p \in Procs /\ call \in [Procs -> CallType] /\ TypeInv /\ ListInv /\ CountInv /\ HeldInv
      /\ rd \in RdType /\ bufs \in [Bufs -> BufType] /\ Users \subseteq Procs
  BY <1>1 DEF DiskInv, TypeInv, CallInv, DiskType, Procs
<1>3. /\ call' \in [Procs -> CallType] /\ call'[p].at = "idle"
      /\ \A q \in Procs : q # p => call'[q] = call[q]
  BY <1>1, <1>2, Returned
<1>4. /\ rd' \in RdType /\ bufs' \in [Bufs -> BufType]
      /\ ListInv' /\ rd'.reqq = rd.reqq
      /\ Len(rd'.free) + Len(rd'.cache) = Len(rd.free) + Len(rd.cache)
      /\ \A b \in Bufs : bufs'[b].refcnt = bufs[b].refcnt
  <2>1. CASE Closed
    BY <1>2, <2>1, ClosedMoves
  <2>2. CASE UNCHANGED <<rd, bufs>>
    BY <1>2, <2>2 DEF ListInv
  <2> QED
    BY <1>1, <2>1, <2>2
<1>5. DiskType' /\ NetType' /\ SrvType' /\ GhostType'
  BY <1>1, <1>2, <1>4 DEF TypeInv, DiskType, NetType, SrvType, GhostType, netVars, ghosts
<1>6. CountInv'
  <2>1. Promised' = Promised /\ Cardinality(Promised) \in Nat
    BY <1>1, <1>2, <1>3, PromisedChange
  <2> QED
    BY <1>1, <1>2, <1>4, <2>1, CountSame
<1>7. HeldInv'
  BY <1>1, <1>2, <1>4, HeldStays
<1> QED
  BY <1>3, <1>4, <1>5, <1>6, <1>7, UserMove

\* A user is promised a buffer.
LEMMA Promise ==
  ASSUME DiskInv, status = "ok", NEW p \in Users, call[p].at = "idle",
         NEW c \in CallType, Pending(c), Goto(p, c, "alloc"), availsem' = wait(availsem, p),
         UNCHANGED <<rd, bufs, reqsem, mbox, netVars, srv, status>>, GhostType'
  PROVE  DiskInv'
<1>1. /\ TypeInv /\ ListInv /\ CountInv /\ HeldInv /\ p \in Procs /\ Users \subseteq Procs
      /\ call \in [Procs -> CallType] /\ availsem \in SemType(Procs)
  BY DEF DiskInv, TypeInv, CallInv, DiskType, Procs
<1>2. "alloc" \in Places
  BY DEF Places
<1>3. /\ call' \in [Procs -> CallType]
      /\ call'[p].at = "alloc" /\ call'[p].msg = c.msg /\ call'[p].blk = c.blk
      /\ \A q \in Procs : q # p => call'[q] = call[q]
  BY <1>1, <1>2, GotoType
<1>4. /\ availsem' \in SemType(Procs) /\ availsem'.count = availsem.count - 1
      /\ availsem.count \in Int
  BY <1>1, SemCounts
<1>5. DiskType' /\ NetType' /\ SrvType'
  BY <1>1, <1>4 DEF TypeInv, DiskType, NetType, SrvType, netVars
<1>6. ListInv'
  BY <1>1 DEF ListInv
<1>7. CountInv'
  <2>1. Cardinality(Promised) \in Nat /\ Cardinality(Promised') = Cardinality(Promised) + 1
    BY <1>1, <1>3, PromisedChange
  <2>2. Len(rd.free) \in Nat /\ Len(rd.cache) \in Nat
    BY <1>1 DEF ListInv, Divided
  <2>3. DiskType
    BY <1>1 DEF TypeInv
  <2> DEFINE d == 0
             e == 1
  <2>4. /\ d \in Int /\ e \in Int
        /\ Len(rd'.free) + Len(rd'.cache) = Len(rd.free) + Len(rd.cache) + d
        /\ Cardinality(Promised') = Cardinality(Promised) + e
        /\ availsem'.count = availsem.count + d - e
    BY <1>4, <2>1, <2>2
  <2> HIDE DEF d, e
  <2> QED
    BY <1>1, <1>6, <2>1, <2>3, <2>4, CountMoves
<1>8. HeldInv'
  BY <1>1, HeldStays
<1>9. Pending(call'[p])
  BY <1>3 DEF Pending
<1> QED
  BY <1>3, <1>5, <1>6, <1>7, <1>8, <1>9, UserMove

\* A call that is about to be promised a buffer.
LEMMA PendingCall ==
  ASSUME NEW type \in {"READ", "WRITE", "SYNC"}, NEW k \in Nat, NEW v \in Data,
         type = "WRITE" => k \in Blocks
  PROVE  LET c == [Idle EXCEPT !.blk = k, !.data = v, !.msg.type = type] IN
         c \in CallType /\ Pending(c)
<1> DEFINE m == [NoMsg EXCEPT !.type = type]
           c == [Idle EXCEPT !.blk = k, !.data = v, !.msg.type = type]
           d == [Idle EXCEPT !.blk = k, !.data = v, !.msg = m]
<1>1. m \in MsgType /\ m.type = type
  BY IdleTypes DEF MsgType, Ops
<1>2. c = d
  BY DEF Idle
<1> HIDE DEF m
<1>3. d \in CallType /\ d.msg = m /\ d.blk = k
  BY <1>1, IdleTypes DEF CallType
<1> QED
  BY <1>1, <1>2, <1>3 DEF Pending

LEMMA PendingRead ==
  ASSUME NEW k \in Nat
  PROVE  LET c == [Idle EXCEPT !.blk = k, !.msg.type = "READ"] IN
         c \in CallType /\ Pending(c)
<1> DEFINE m == [NoMsg EXCEPT !.type = "READ"]
           c == [Idle EXCEPT !.blk = k, !.msg.type = "READ"]
           d == [Idle EXCEPT !.blk = k, !.msg = m]
<1>1. m \in MsgType /\ m.type = "READ"
  BY IdleTypes DEF MsgType, Ops
<1>2. c = d
  BY DEF Idle
<1> HIDE DEF m
<1>3. d \in CallType /\ d.msg = m
  BY <1>1, IdleTypes DEF CallType
<1> QED
  BY <1>1, <1>2, <1>3 DEF Pending

LEMMA rdssyncDisk ==
  ASSUME DiskInv, NEW p \in Users, rdssync(p)
  PROVE  DiskInv'
<1> DEFINE c == [Idle EXCEPT !.msg.type = "SYNC"]
<1>1. /\ May(p, "sync") /\ availsem' = wait(availsem, p)
      /\ Goto(p, [Idle EXCEPT !.msg.type = "SYNC"], "alloc")
      /\ UNCHANGED <<rd, bufs, reqsem, mbox, netVars, srv, ghosts, status>>
  BY DEF rdssync
<1>2. status = "ok" /\ call[p].at = "idle" /\ calls' \in Nat /\ TypeInv
  BY <1>1, Called
<1>3. Goto(p, c, "alloc")
  BY <1>1
<1>4. c \in CallType /\ Pending(c)
  <2> DEFINE m == [NoMsg EXCEPT !.type = "SYNC"]
             d == [Idle EXCEPT !.msg = m]
  <2>1. m \in MsgType /\ m.type = "SYNC"
    BY IdleTypes DEF MsgType, Ops
  <2>2. c = d
    BY DEF Idle
  <2> HIDE DEF m, c
  <2>3. d \in CallType /\ d.msg = m
    BY <2>1, IdleTypes DEF CallType
  <2> QED
    BY <2>1, <2>2, <2>3 DEF Pending
<1>5. GhostType'
  BY <1>1, <1>2 DEF TypeInv, GhostType, ghosts
<1> HIDE DEF c
<1> QED
  BY <1>1, <1>2, <1>3, <1>4, <1>5, Promise

\* What the searches of the lists find.
LEMMA Found ==
  ASSUME TypeInv, ListInv, NEW k
  PROVE  /\ InCache(k) # {} => /\ Min(InCache(k)) \in 1..Len(rd.cache)
                               /\ Cached(k) = rd.cache[Min(InCache(k))] /\ Cached(k) \in Bufs
         /\ Requests(k) # {} => LastRequest(k) \in Bufs
         /\ Writes(k) # {} => rd.reqq[Min(Writes(k))] \in Bufs
         /\ Hit(k) \in Bufs \cup {0}
         /\ rdsbufalloc \in Bufs \cup {0}
         /\ Reusable # {} => Max(Reusable) \in 1..Len(rd.cache)
<1>1. /\ rd.cache \in Seq(Bufs) /\ rd.reqq \in Seq(Bufs) /\ rd.free \in Seq(Bufs)
      /\ Len(rd.cache) \in Nat /\ Len(rd.reqq) \in Nat
  BY DEF ListInv, Divided
<1>2. InCache(k) \subseteq 1..Len(rd.cache) /\ Reusable \subseteq 1..Len(rd.cache)
  BY <1>1 DEF InCache, Reusable
<1>3. Requests(k) \subseteq 1..Len(rd.reqq) /\ Writes(k) \subseteq 1..Len(rd.reqq)
  BY <1>1 DEF Requests, Writes
<1>4. /\ InCache(k) # {} => Min(InCache(k)) \in InCache(k)
      /\ Writes(k) # {} => Min(Writes(k)) \in Writes(k)
  <2>1. InCache(k) \subseteq Nat /\ Writes(k) \subseteq Nat
    BY <1>2, <1>3
  <2> QED
    BY <2>1, LeastNat
<1>5. /\ Requests(k) # {} => Max(Requests(k)) \in Requests(k)
      /\ Reusable # {} => Max(Reusable) \in Reusable
  BY <1>1, <1>2, <1>3, GreatestIndex
<1>6. InCache(k) # {} => /\ Min(InCache(k)) \in 1..Len(rd.cache)
                         /\ Cached(k) = rd.cache[Min(InCache(k))] /\ Cached(k) \in Bufs
  BY <1>1, <1>2, <1>4 DEF Cached
<1>7. Requests(k) # {} => LastRequest(k) \in Bufs
  BY <1>1, <1>3, <1>5 DEF LastRequest
<1>8. Writes(k) # {} => rd.reqq[Min(Writes(k))] \in Bufs
  BY <1>1, <1>3, <1>4
<1>9. Hit(k) \in Bufs \cup {0}
  BY <1>6, <1>7 DEF Hit
<1>10. Reusable # {} => Max(Reusable) \in 1..Len(rd.cache)
  BY <1>2, <1>5
<1>11. rd.free # << >> => Head(rd.free) \in Bufs
  BY <1>1
<1>12. Reusable # {} => rd.cache[Max(Reusable)] \in Bufs
  BY <1>1, <1>10
<1>13. rdsbufalloc \in Bufs \cup {0}
  BY <1>11, <1>12 DEF rdsbufalloc
<1> QED
  BY <1>6, <1>7, <1>8, <1>9, <1>10, <1>13

LEMMA rdsreadDisk ==
  ASSUME DiskInv, NEW p \in Users, NEW k \in Blocks, rdsread(p, k)
  PROVE  DiskInv'
<1> DEFINE c == [Idle EXCEPT !.blk = k, !.msg.type = "READ"]
<1>1. /\ May(p, "read")
      /\ IF Hit(k) # 0
         THEN Gets(p, bufs[Hit(k)].data) /\ UNCHANGED <<call, availsem>>
         ELSE /\ availsem' = wait(availsem, p)
              /\ Goto(p, [Idle EXCEPT !.blk = k, !.msg.type = "READ"], "alloc")
              /\ Gets(p, "none")
      /\ allow' = [allow EXCEPT ![p] = {latest[k]}]
      /\ UNCHANGED <<rd, bufs, reqsem, mbox, netVars, srv, latest, status>>
  BY DEF rdsread
<1>2. /\ status = "ok" /\ call[p].at = "idle" /\ calls' \in Nat /\ TypeInv /\ ListInv
      /\ AskInv /\ CountInv /\ HeldInv /\ GhostType
      /\ rd \in RdType /\ bufs \in [Bufs -> BufType] /\ call \in [Procs -> CallType]
  BY <1>1, Called DEF TypeInv, DiskType
<1>3. Hit(k) # 0 => bufs[Hit(k)].data \in Data
  <2>1. Hit(k) \in Bufs \cup {0}
    BY <1>2, Found
  <2> QED
    BY <1>2, <2>1 DEF BufType
<1>4. GhostType'
  <2>1. latest' \in [Blocks -> Data] /\ allow' \in [Users -> SUBSET Data]
    <3>1. latest \in [Blocks -> Data] /\ allow \in [Users -> SUBSET Data] /\ latest[k] \in Data
      BY <1>2 DEF GhostType
    <3> QED
      BY <1>1, <3>1
  <2>2. \E d \in Data : Gets(p, d)
    BY <1>1, <1>3 DEF Data
  <2>3. got' \in [Users -> Data]
    BY <1>2, <2>2 DEF Gets, GhostType
  <2> QED
    BY <1>1, <1>2, <2>1, <2>3 DEF GhostType
<1>5. CASE Hit(k) # 0
  <2>1. DiskType' /\ NetType' /\ SrvType' /\ ListInv'
    BY <1>1, <1>2, <1>5 DEF TypeInv, DiskType, NetType, SrvType, ListInv, netVars
  <2>2. Promised' = Promised
    BY <1>1, <1>5 DEF Promised
  <2>3. CountInv' /\ HeldInv'
    BY <1>1, <1>2, <1>5, <2>1, <2>2, PromisedFinite, CountSame, HeldStays
  <2> QED
    BY <1>1, <1>2, <1>4, <1>5, <2>1, <2>3, UserMove
<1>6. CASE Hit(k) = 0
  <2>1. Goto(p, c, "alloc")
    BY <1>1, <1>6
  <2>2. c \in CallType /\ Pending(c)
    BY RdsAssumption, PendingRead
  <2> HIDE DEF c
  <2> QED
    BY <1>1, <1>2, <1>4, <1>6, <2>1, <2>2, Promise
<1> QED
  BY <1>5, <1>6

\* What is noted of a write.
LEMMA UpdateType ==
  ASSUME TypeInv, NEW k \in Blocks, NEW v \in Data, Update(k, v)
  PROVE  latest' \in [Blocks -> Data] /\ allow' \in [Users -> SUBSET Data]
<1> DEFINE new == IF rd.id \in srv.ofiles THEN v ELSE latest[k]
<1>1. latest \in [Blocks -> Data] /\ allow \in [Users -> SUBSET Data]
  BY DEF TypeInv, GhostType
<1>2. new \in Data
  BY <1>1
<1>3. /\ latest' = [latest EXCEPT ![k] = new]
      /\ allow' = [p \in Users |-> IF Reading(p, k) THEN allow[p] \cup {new} ELSE allow[p]]
  BY DEF Update
<1> HIDE DEF new
<1> QED
  BY <1>1, <1>2, <1>3

LEMMA RequestType ==
  ASSUME NEW p \in Procs, NEW op \in {"READ", "WRITE", "SYNC"}, NEW k \in Nat, NEW v \in Data
  PROVE  Request(p, op, k, v) \in BufType
<1> DEFINE w == op = "WRITE"
           n == IF op = "WRITE" THEN 0 ELSE 1
<1>1. w \in BOOLEAN /\ n \in 0..1 /\ op \in Ops
  BY DEF Ops
<1>2. Request(p, op, k, v) =
        [op |-> op, blk |-> k, data |-> v, valid |-> w, refcnt |-> n, pid |-> p]
  BY DEF Request
<1> HIDE DEF w, n
<1> QED
  BY <1>1, <1>2 DEF BufType

\* Only a buffer that nobody holds is changed or goes to the request queue.
LEMMA HeldMoves ==
  ASSUME TypeInv, HeldInv, NEW b \in Bufs, \A q \in Users : mbox[q] # b,
         \A q \in Users : mbox'[q] = mbox[q] \/ mbox'[q] \notin Bufs,
         \A x \in Bufs : Has(rd'.reqq, x) => Has(rd.reqq, x) \/ x = b,
         \A x \in Bufs : x # b => bufs'[x] = bufs[x]
  PROVE  HeldInv'
<1> SUFFICES ASSUME NEW p \in Users, mbox'[p] \in Bufs
             PROVE  /\ ~Has(rd'.reqq, mbox'[p])
                    /\ bufs'[mbox'[p]].refcnt = 1
                    /\ \A q \in Users : q # p => mbox'[q] # mbox'[p]
  BY DEF HeldInv
<1>1. mbox'[p] = mbox[p] /\ mbox[p] \in Bufs /\ mbox[p] # b
  OBVIOUS
<1>2. /\ ~Has(rd.reqq, mbox[p]) /\ bufs[mbox[p]].refcnt = 1
      /\ \A q \in Users : q # p => mbox[q] # mbox[p]
  BY <1>1 DEF HeldInv
<1>3. \A q \in Users : q # p => mbox'[q] # mbox'[p]
  BY <1>1, <1>2
<1> QED
  BY <1>1, <1>2, <1>3

LEMMA ReplaceDisk ==
  ASSUME DiskInv, NEW p \in Users, NEW k \in Blocks, NEW v \in Vals,
         status = "ok", call[p].at = "idle", calls' \in Nat, Writes(k) # {}, Replace(k, v),
         UNCHANGED <<mbox, netVars, srv, got>>
  PROVE  DiskInv'
<1> DEFINE b == rd.reqq[Min(Writes(k))]
           x == [bufs[b] EXCEPT !.data = v]
<1>1. /\ bufs' = [bufs EXCEPT ![b] = x]
      /\ Update(k, v) /\ UNCHANGED <<rd, availsem, reqsem, call, status>>
  BY DEF Replace
<1>2. /\ TypeInv /\ ListInv /\ CountInv /\ HeldInv /\ v \in Data
      /\ bufs \in [Bufs -> BufType] /\ call \in [Procs -> CallType] /\ rd \in RdType
  BY DEF DiskInv, TypeInv, DiskType, CallInv, Data
<1>3. b \in Bufs
  BY <1>2, Found
<1>4. x \in BufType /\ x.refcnt = bufs[b].refcnt
  BY <1>2, <1>3 DEF BufType
<1> HIDE DEF b, x
<1>5. bufs' \in [Bufs -> BufType] /\ \A c \in Bufs : bufs'[c].refcnt = bufs[c].refcnt
  BY <1>1, <1>2, <1>3, <1>4
<1>6. DiskType' /\ NetType' /\ SrvType'
  BY <1>1, <1>2, <1>5 DEF TypeInv, DiskType, NetType, SrvType, netVars
<1>7. GhostType'
  BY <1>1, <1>2, UpdateType DEF TypeInv, GhostType
<1>8. ListInv' /\ CountInv' /\ HeldInv'
  <2>1. ListInv'
    BY <1>1, <1>2 DEF ListInv
  <2>2. Promised' = Promised
    BY <1>1 DEF Promised
  <2> QED
    BY <1>1, <1>2, <1>5, <2>1, <2>2, PromisedFinite, CountSame, HeldStays
<1> QED
  BY <1>1, <1>2, <1>6, <1>7, <1>8, UserMove

LEMMA TakeDisk ==
  ASSUME DiskInv, NEW p \in Users, NEW k \in Blocks, NEW v \in Vals,
         status = "ok", call[p].at = "idle", calls' \in Nat, Takeable(k), Take(p, k, v),
         UNCHANGED <<mbox, netVars, srv, got>>
  PROVE  DiskInv'
<1> DEFINE i == Min(InCache(k))
           b == Cached(k)
           x == Request(p, "WRITE", k, v)
           n == availsem.count - 1
           c == RemoveAt(rd.cache, i)
           r == Append(rd.reqq, b)
<1>1. /\ rd' = [rd EXCEPT !.cache = c, !.reqq = r]
      /\ bufs' = [bufs EXCEPT ![b] = x]
      /\ availsem' = IF availsem.count > 0 THEN semreset(availsem, n) ELSE availsem
      /\ status' = IF availsem.count <= 0 THEN "uncounted"
                   ELSE IF Cardinality(InCache(k)) > 1 THEN "shadowed" ELSE status
      /\ reqsem' = signal(reqsem)
      /\ Update(k, v) /\ UNCHANGED call
  BY DEF Take
<1>2. /\ TypeInv /\ ListInv /\ CountInv /\ HeldInv /\ v \in Data /\ p \in Procs /\ k \in Nat
      /\ bufs \in [Bufs -> BufType] /\ call \in [Procs -> CallType] /\ rd \in RdType
      /\ availsem \in SemType(Procs) /\ reqsem \in SemType(Procs) /\ DiskType
  BY RdsAssumption DEF DiskInv, TypeInv, DiskType, CallInv, Data, Procs
<1>3. i \in 1..Len(rd.cache) /\ b = rd.cache[i] /\ b \in Bufs /\ bufs[b].refcnt <= 0
  BY <1>2, Found DEF Takeable
<1>4. /\ b \in Bufs /\ Divided(rd.free, c, r) /\ Len(c) = Len(rd.cache) - 1
      /\ \A y : Has(r, y) <=> Has(rd.reqq, y) \/ y = b
  <2> HIDE DEF i, b
  <2> QED
    BY <1>2, <1>3, CacheToQueue DEF ListInv
<1>5. x \in BufType
  BY <1>2, RequestType
<1>6. availsem.count \in Int /\ n \in Int /\ Len(rd.cache) \in Nat /\ Len(rd.free) \in Nat
  BY <1>2, SemCounts DEF ListInv, Divided
<1> HIDE DEF i, b, x, c, r
<1>7. c \in Seq(Bufs) /\ r \in Seq(Bufs)
  BY <1>4 DEF Divided
<1>8. /\ rd' \in RdType /\ rd'.free = rd.free /\ rd'.cache = c /\ rd'.reqq = r
  BY <1>1, <1>2, <1>7 DEF RdType
<1>9. bufs' \in [Bufs -> BufType] /\ \A y \in Bufs : y # b => bufs'[y] = bufs[y]
  BY <1>1, <1>2, <1>4, <1>5
<1>10. /\ availsem' \in SemType(Procs) /\ reqsem' \in SemType(Procs)
       /\ availsem.count > 0 => availsem'.count = n
  <2> HIDE DEF n
  <2> QED
    BY <1>1, <1>2, <1>6, SemCounts
<1>11. DiskType' /\ NetType' /\ SrvType'
  BY <1>1, <1>2, <1>8, <1>9, <1>10 DEF TypeInv, DiskType, NetType, SrvType, netVars
<1>12. GhostType'
  <2>1. latest' \in [Blocks -> Data] /\ allow' \in [Users -> SUBSET Data]
    BY <1>1, <1>2, UpdateType
  <2>2. status' \in Statuses
    BY <1>1 DEF Statuses
  <2> QED
    BY <1>1, <1>2, <2>1, <2>2 DEF TypeInv, GhostType
<1>13. ListInv'
  BY <1>4, <1>8 DEF ListInv
<1>14. r # << >>
  BY <1>4 DEF Has
<1>15. ASSUME status' = "ok" PROVE CountInv' /\ HeldInv'
  <2>1. availsem.count > 0
    BY <1>1, <1>6, <1>15
  <2>2. Promised' = Promised
    BY <1>1 DEF Promised
  <2> DEFINE d == -1
             e == 0
  <2>3. Len(rd'.free) = Len(rd.free) /\ Len(rd'.cache) = Len(rd.cache) - 1
    BY <1>4, <1>8
  <2>4. Len(rd'.free) + Len(rd'.cache) = Len(rd.free) + Len(rd.cache) + d
    BY <1>6, <2>3
  <2>5. Cardinality(Promised') = Cardinality(Promised)
    BY <2>2
  <2>6. Cardinality(Promised') = Cardinality(Promised) + e
    BY <2>5, PromisedFinite
  <2>7. availsem'.count = availsem.count + d - e
    BY <1>6, <1>10, <2>1
  <2>8. d \in Int /\ e \in Int
    OBVIOUS
  <2> HIDE DEF d, e
  <2>9. CountInv'
    BY <1>2, <1>13, <2>4, <2>6, <2>7, <2>8, PromisedFinite, CountMoves
  <2>10. \A q \in Users : mbox[q] # b
    BY <1>3, <1>4 DEF HeldInv, DiskInv
  <2>11. HeldInv'
    BY <1>2, <1>4, <1>8, <1>9, <2>10, HeldMoves
  <2> QED
    BY <2>9, <2>11
<1> QED
  BY <1>1, <1>2, <1>8, <1>11, <1>12, <1>13, <1>14, <1>15, UserMove

LEMMA rdswriteDisk ==
  ASSUME DiskInv, NEW p \in Users, NEW k \in Mine[p], NEW v \in Vals, rdswrite(p, k, v)
  PROVE  DiskInv'
<1> DEFINE c == [Idle EXCEPT !.blk = k, !.data = v, !.msg.type = "WRITE"]
<1>1. /\ May(p, "write")
      /\ UNCHANGED <<mbox, netVars, srv, got>>
      /\ \/ Writes(k) # {} /\ Replace(k, v)
         \/ Takeable(k) /\ Take(p, k, v)
         \/ /\ availsem' = wait(availsem, p)
            /\ Goto(p, c, "alloc")
            /\ UNCHANGED <<rd, bufs, reqsem, latest, allow, status>>
  BY DEF rdswrite
<1>2. /\ status = "ok" /\ call[p].at = "idle" /\ calls' \in Nat /\ TypeInv
      /\ k \in Blocks /\ k \in Nat /\ v \in Data
  BY <1>1, Called, RdsAssumption DEF Data
<1>3. CASE Writes(k) # {} /\ Replace(k, v)
  BY <1>1, <1>2, <1>3, ReplaceDisk
<1>4. CASE Takeable(k) /\ Take(p, k, v)
  BY <1>1, <1>2, <1>4, TakeDisk
<1>5. CASE /\ availsem' = wait(availsem, p)
           /\ Goto(p, c, "alloc")
           /\ UNCHANGED <<rd, bufs, reqsem, latest, allow, status>>
  <2>1. c \in CallType /\ Pending(c)
    BY <1>2, PendingCall
  <2> HIDE DEF c
  <2>2. GhostType'
    BY <1>1, <1>2, <1>5 DEF TypeInv, GhostType
  <2> QED
    BY <1>1, <1>2, <1>5, <2>1, <2>2, Promise
<1> QED
  BY <1>1, <1>3, <1>4, <1>5

\* The buffer that rdsbufalloc gives goes to the tail of the queue.
LEMMA Allocated ==
  ASSUME TypeInv, ListInv, rdsbufalloc # 0
  PROVE  LET b == rdsbufalloc
             f == IF rd.free # << >> THEN Tail(rd.free) ELSE rd.free
             c == IF rd.free # << >> THEN rd.cache ELSE RemoveAt(rd.cache, Max(Reusable))
             r == Append(rd.reqq, b)
         IN  /\ b \in Bufs /\ Divided(f, c, r)
             /\ Len(f) + Len(c) = Len(rd.free) + Len(rd.cache) - 1
             /\ \A x : Has(r, x) <=> Has(rd.reqq, x) \/ x = b
<1>1. /\ Divided(rd.free, rd.cache, rd.reqq)
      /\ Len(rd.free) \in Nat /\ Len(rd.cache) \in Nat
  <2>1. Divided(rd.free, rd.cache, rd.reqq)
    BY DEF ListInv
  <2>2. Len(rd.free) \in Nat /\ Len(rd.cache) \in Nat
    BY <2>1 DEF Divided
  <2> QED
    BY <2>1, <2>2
<1>2. CASE rd.free # << >>
  <2> DEFINE b == Head(rd.free)
             f == Tail(rd.free)
             r == Append(rd.reqq, b)
  <2>1. /\ b \in Bufs /\ Divided(f, rd.cache, r) /\ Len(f) = Len(rd.free) - 1
        /\ \A x : Has(r, x) <=> Has(rd.reqq, x) \/ x = b
    BY <1>1, <1>2, FreeToQueue
  <2>2. Len(f) + Len(rd.cache) = Len(rd.free) + Len(rd.cache) - 1
    <3> HIDE DEF f
    <3> QED
      BY <1>1, <2>1
  <2>3. rdsbufalloc = b
    BY <1>2 DEF rdsbufalloc
  <2> QED
    BY <1>2, <2>1, <2>2, <2>3
<1>3. CASE ~(rd.free # << >>)
  <2> DEFINE i == Max(Reusable)
             b == rd.cache[i]
             c == RemoveAt(rd.cache, i)
             r == Append(rd.reqq, b)
  <2>1. rdsbufalloc = b /\ Reusable # {}
    BY <1>3 DEF rdsbufalloc
  <2>2. i \in 1..Len(rd.cache)
    BY <2>1, Found
  <2>3. /\ b \in Bufs /\ Divided(rd.free, c, r) /\ Len(c) = Len(rd.cache) - 1
        /\ \A x : Has(r, x) <=> Has(rd.reqq, x) \/ x = b
    <3> HIDE DEF i
    <3> QED
      BY <1>1, <2>2, CacheToQueue
  <2>4. Len(rd.free) + Len(c) = Len(rd.free) + Len(rd.cache) - 1
    <3> HIDE DEF c
    <3> QED
      BY <1>1, <2>3
  <2> QED
    BY <1>3, <2>1, <2>3, <2>4
<1> QED
  BY <1>2, <1>3

LEMMA EnqueueDisk ==
  ASSUME DiskInv, NEW p \in Users, Enqueue(p)
  PROVE  DiskInv'
<1> DEFINE b == rdsbufalloc
           o == call[p]
           x == Request(p, o.msg.type, o.blk, o.data)
           f == IF rd.free # << >> THEN Tail(rd.free) ELSE rd.free
           c == IF rd.free # << >> THEN rd.cache ELSE RemoveAt(rd.cache, Max(Reusable))
           r == Append(rd.reqq, b)
<1>1. /\ status = "ok" /\ o.at = "alloc" /\ UNCHANGED <<calls, availsem, netVars, srv, got>>
      /\ IF b = 0
         THEN status' = "panic" /\ UNCHANGED <<rd, bufs, reqsem, call, mbox, latest, allow>>
         ELSE /\ rd' = [rd EXCEPT !.free = f, !.cache = c, !.reqq = r]
              /\ bufs' = [bufs EXCEPT ![b] = x]
              /\ reqsem' = IF o.msg.type = "SYNC" THEN reqsem ELSE signal(reqsem)
              /\ IF o.msg.type = "WRITE"
                 THEN Return(p) /\ Update(o.blk, o.data) /\ UNCHANGED mbox
                 ELSE /\ Goto(p, o, "receive")
                      /\ mbox' = [mbox EXCEPT ![p] = 0]
                      /\ UNCHANGED <<latest, allow>>
              /\ status' = IF \E q \in Users : mbox[q] = b THEN "reused" ELSE status
  BY DEF Enqueue, At
<1>2. /\ TypeInv /\ ListInv /\ CountInv /\ HeldInv /\ p \in Procs
      /\ bufs \in [Bufs -> BufType] /\ call \in [Procs -> CallType] /\ rd \in RdType
      /\ availsem \in SemType(Procs) /\ reqsem \in SemType(Procs) /\ DiskType
      /\ mbox \in [Users -> 0..OK]
  BY <1>1 DEF DiskInv, TypeInv, DiskType, CallInv, NetType, Procs
<1>3. /\ o \in CallType /\ o.msg.type \in {"READ", "WRITE", "SYNC"} /\ Pending(o)
      /\ o.msg.type = "WRITE" => o.blk \in Blocks
      /\ o.blk \in Nat /\ o.data \in Data
  BY <1>1, <1>2 DEF TypeInv, CallInv, Pending, CallType
<1>4. CASE b = 0
  <2>1. /\ status' = "panic" /\ UNCHANGED <<rd, bufs, reqsem, call, mbox, latest, allow>>
    BY <1>1, <1>4
  <2>2. DiskType' /\ NetType' /\ SrvType' /\ GhostType' /\ ListInv'
    BY <1>1, <1>2, <2>1
       DEF TypeInv, DiskType, NetType, SrvType, GhostType, ListInv, netVars, Statuses
  <2> QED
    BY <1>1, <1>2, <1>3, <2>1, <2>2, UserMove
<1>5. CASE b # 0
  <2>1. /\ b \in Bufs /\ Divided(f, c, r)
        /\ Len(f) + Len(c) = Len(rd.free) + Len(rd.cache) - 1
        /\ \A y : Has(r, y) <=> Has(rd.reqq, y) \/ y = b
    BY <1>2, <1>5, Allocated
  <2>2. x \in BufType
    BY <1>2, <1>3, RequestType
  <2> HIDE DEF b, x, f, c, r
  <2>3. /\ rd' = [rd EXCEPT !.free = f, !.cache = c, !.reqq = r]
        /\ bufs' = [bufs EXCEPT ![b] = x]
        /\ reqsem' = reqsem \/ reqsem' = signal(reqsem)
        /\ status' = IF \E q \in Users : mbox[q] = b THEN "reused" ELSE status
        /\ UNCHANGED mbox \/ mbox' = [mbox EXCEPT ![p] = 0]
        /\ Return(p) \/ Goto(p, o, "receive")
        /\ \/ o.msg.type = "WRITE" /\ Update(o.blk, o.data)
           \/ UNCHANGED <<latest, allow>>
    BY <1>1, <1>5
  <2>4. f \in Seq(Bufs) /\ c \in Seq(Bufs) /\ r \in Seq(Bufs)
    BY <2>1 DEF Divided
  <2>5. rd' \in RdType /\ rd'.free = f /\ rd'.cache = c /\ rd'.reqq = r
    BY <1>2, <2>3, <2>4 DEF RdType
  <2>6. bufs' \in [Bufs -> BufType] /\ \A y \in Bufs : y # b => bufs'[y] = bufs[y]
    BY <1>2, <2>1, <2>2, <2>3
  <2>7. reqsem' \in SemType(Procs)
    BY <1>2, <2>3, SemCounts
  <2>8. mbox' \in [Users -> 0..OK] /\ \A q \in Users : mbox'[q] = mbox[q] \/ mbox'[q] = 0
    BY <1>2, <2>3, BufNumbers
  <2>9. DiskType' /\ NetType' /\ SrvType'
    BY <1>1, <1>2, <2>5, <2>6, <2>7, <2>8 DEF TypeInv, DiskType, NetType, SrvType, netVars
  <2>10. GhostType'
    <3>1. latest' \in [Blocks -> Data] /\ allow' \in [Users -> SUBSET Data]
      <4>1. CASE o.msg.type = "WRITE" /\ Update(o.blk, o.data)
        BY <1>2, <1>3, <4>1, UpdateType
      <4>2. CASE UNCHANGED <<latest, allow>>
        BY <1>2, <4>2 DEF TypeInv, GhostType
      <4> QED
        BY <2>3, <4>1, <4>2
    <3>2. status' \in Statuses
      BY <1>1, <2>3 DEF Statuses
    <3> QED
      BY <1>1, <1>2, <3>1, <3>2 DEF TypeInv, GhostType
  <2>11. /\ call' \in [Procs -> CallType] /\ call'[p].at \in {"idle", "receive"}
         /\ \A q \in Procs : q # p => call'[q] = call[q]
    <3>1. CASE Return(p)
      BY <1>2, <3>1, Returned
    <3>2. CASE Goto(p, o, "receive")
      <4>1. "receive" \in Places
        BY DEF Places
      <4> HIDE DEF o
      <4> QED
        BY <1>2, <1>3, <3>2, <4>1, GotoType
    <3> QED
      BY <2>3, <3>1, <3>2
  <2>12. ListInv' /\ rd'.reqq # << >>
    BY <2>1, <2>5 DEF ListInv, Has
  <2>13. ASSUME status' = "ok" PROVE CountInv' /\ HeldInv'
    <3>1. \A q \in Users : mbox[q] # b
      BY <2>3, <2>13
    <3>2. HeldInv'
      BY <1>2, <2>1, <2>5, <2>6, <2>8, <3>1, BufNumbers, HeldMoves
    <3>3. Cardinality(Promised) \in Nat /\ Cardinality(Promised') = Cardinality(Promised) - 1
      <4>1. call'[p].at # "alloc" /\ \A q \in Users : q # p => call'[q] = call[q]
        BY <2>11 DEF Procs
      <4> QED
        BY <1>1, <4>1, PromisedChange
    <3> DEFINE d == -1
    <3>4. Len(rd'.free) + Len(rd'.cache) = Len(rd.free) + Len(rd.cache) + d
      <4>1. /\ Len(rd.free) \in Nat /\ Len(rd.cache) \in Nat
            /\ Len(rd'.free) \in Nat /\ Len(rd'.cache) \in Nat
        BY <1>2, <2>12 DEF ListInv, Divided
      <4>2. Len(rd'.free) + Len(rd'.cache) = Len(rd.free) + Len(rd.cache) - 1
        BY <2>1, <2>5
      <4> DEFINE v == Len(rd.free)
                 w == Len(rd.cache)
                 y == Len(rd'.free)
                 z == Len(rd'.cache)
      <4>3. v \in Nat /\ w \in Nat /\ y \in Nat /\ z \in Nat /\ y + z = v + w - 1
        BY <4>1, <4>2
      <4> HIDE DEF v, w, y, z
      <4>4. y + z = v + w + d
        BY <4>3
      <4> QED
        BY <4>4 DEF v, w, y, z
    <3>5. Cardinality(Promised') = Cardinality(Promised) + d
      BY <3>3
    <3>6. availsem'.count = availsem.count + d - d
      <4>1. availsem.count \in Int
        BY <1>2 DEF SemType
      <4> QED
        BY <1>1, <4>1
    <3>7. d \in Int
      OBVIOUS
    <3> HIDE DEF d
    <3>8. CountInv'
      BY <1>2, <2>12, <3>3, <3>4, <3>5, <3>6, <3>7, CountMoves
    <3> QED
      BY <3>2, <3>8
  <2> QED
    BY <2>9, <2>10, <2>11, <2>12, <2>13, UserMove
<1> QED
  BY <1>4, <1>5

\* A reader lets go of the buffer it was sent: nobody else holds it.
LEMMA rdsreadDoneDisk ==
  ASSUME DiskInv, NEW p \in Users, rdsreadDone(p)
  PROVE  DiskInv'
<1> DEFINE b == mbox[p]
           n == bufs[b].refcnt - 1
           x == [bufs[b] EXCEPT !.refcnt = n]
<1>1. /\ status = "ok" /\ call[p].at = "receive" /\ b \in Bufs
      /\ bufs' = [bufs EXCEPT ![b] = x]
      /\ got' = [got EXCEPT ![p] = bufs[b].data]
      /\ status' = IF bufs[b].refcnt <= 1 /\ (rd.cache = << >> \/ rd.cache[1] # b)
                   THEN "spins" ELSE status
      /\ mbox' = [mbox EXCEPT ![p] = 0] /\ Return(p)
      /\ UNCHANGED <<calls, rd, availsem, reqsem, netVars, srv, latest, allow>>
  BY DEF rdsreadDone, At, Gets
<1>2. /\ TypeInv /\ ListInv /\ CountInv /\ HeldInv /\ p \in Procs
      /\ bufs \in [Bufs -> BufType] /\ call \in [Procs -> CallType] /\ rd \in RdType
      /\ mbox \in [Users -> 0..OK]
  BY <1>1 DEF DiskInv, TypeInv, DiskType, CallInv, NetType, Procs
<1>3. bufs[b].refcnt = 1 /\ \A q \in Users : q # p => mbox[q] # b
  BY <1>1, <1>2 DEF HeldInv
<1>4. x \in BufType /\ bufs[b].data \in Data
  <2>1. n \in 0..1 /\ bufs[b] \in BufType
    BY <1>1, <1>2, <1>3
  <2> HIDE DEF n
  <2> QED
    BY <2>1 DEF BufType
<1> HIDE DEF x, n, b
<1>5. bufs' \in [Bufs -> BufType] /\ \A y \in Bufs : y # b => bufs'[y] = bufs[y]
  BY <1>1, <1>2, <1>4
<1>6. mbox' \in [Users -> 0..OK] /\ mbox'[p] = 0 /\ \A q \in Users : q # p => mbox'[q] = mbox[q]
  BY <1>1, <1>2, BufNumbers
<1>7. DiskType' /\ NetType' /\ SrvType'
  BY <1>1, <1>2, <1>5, <1>6 DEF TypeInv, DiskType, NetType, SrvType, netVars
<1>8. GhostType'
  BY <1>1, <1>2, <1>4 DEF TypeInv, GhostType, Statuses
<1>9. /\ call' \in [Procs -> CallType] /\ call'[p].at = "idle"
      /\ \A q \in Procs : q # p => call'[q] = call[q]
  BY <1>1, <1>2, Returned
<1>10. ListInv'
  BY <1>1, <1>2 DEF ListInv
<1>11. CountInv'
  <2>1. Promised' = Promised
    BY <1>1, <1>9 DEF Promised, Procs
  <2> QED
    BY <1>1, <1>2, <1>10, <2>1, PromisedFinite, CountSame
<1>12. HeldInv'
  <2> SUFFICES ASSUME NEW q \in Users, mbox'[q] \in Bufs
               PROVE  /\ ~Has(rd'.reqq, mbox'[q])
                      /\ bufs'[mbox'[q]].refcnt = 1
                      /\ \A s \in Users : s # q => mbox'[s] # mbox'[q]
    BY DEF HeldInv
  <2>1. q # p /\ mbox'[q] = mbox[q] /\ mbox[q] \in Bufs /\ mbox[q] # b
    BY <1>3, <1>6, BufNumbers
  <2>2. /\ ~Has(rd.reqq, mbox[q]) /\ bufs[mbox[q]].refcnt = 1
        /\ \A s \in Users : s # q => mbox[s] # mbox[q]
    BY <1>2, <2>1 DEF HeldInv
  <2>3. \A s \in Users : s # q => mbox'[s] # mbox'[q]
    BY <1>6, <2>1, <2>2, BufNumbers
  <2> QED
    BY <1>1, <1>5, <2>1, <2>2, <2>3
<1> QED
  BY <1>1, <1>7, <1>8, <1>9, <1>10, <1>11, <1>12, UserMove

----------------------------------------------------------------------------
\* The steps of rdsprocess.

\* What is left to show of a step of rdsprocess.
LEMMA ServerMove ==
  ASSUME DiskInv, call' \in [Procs -> CallType],
         call'["rds"].at \in {"idle", "head", "send"},
         call'["rds"].at = "send" => /\ call'["rds"].msg \in Wire
                                     /\ call'["rds"].msg.type = "RREQ" => rd'.reqq # << >>,
         \A q \in Procs : q # "rds" => call'[q] = call[q],
         DiskType', NetType', SrvType', GhostType', ListInv',
         status' = "ok" => CountInv' /\ HeldInv'
  PROVE  DiskInv'
<1>1. TypeInv /\ AskInv /\ "rds" \in Procs
  BY DEF DiskInv, Procs
<1>2. CallInv'
  BY <1>1 DEF TypeInv, CallInv
<1>3. TypeInv'
  BY <1>2 DEF TypeInv
<1>4. AskInv'
  BY <1>1 DEF AskInv
<1> QED
  BY <1>3, <1>4 DEF DiskInv

\* One more buffer may be had, and rd_availsem is signalled.
LEMMA CountSignal ==
  ASSUME TypeInv, ListInv, ListInv', CountInv, Promised' = Promised,
         availsem' = signal(availsem),
         Len(rd'.free) + Len(rd'.cache) = Len(rd.free) + Len(rd.cache) + 1
  PROVE  CountInv'
<1>1. DiskType /\ availsem \in SemType(Procs) /\ "rds" \in Procs
  BY DEF TypeInv, DiskType, Procs
<1>2. availsem'.count = availsem.count + 1 /\ availsem.count \in Int
  BY <1>1, SemCounts
<1>3. Cardinality(Promised') = Cardinality(Promised)
  OBVIOUS
<1> DEFINE d == 1
           e == 0
<1>4. Cardinality(Promised') = Cardinality(Promised) + e
  BY <1>3, PromisedFinite
<1>5. availsem'.count = availsem.count + d - e
  BY <1>2
<1>6. d \in Int /\ e \in Int
  OBVIOUS
<1>7. Len(rd'.free) + Len(rd'.cache) = Len(rd.free) + Len(rd.cache) + d
  OBVIOUS
<1> HIDE DEF d, e
<1> QED
  BY <1>1, <1>4, <1>5, <1>6, <1>7, PromisedFinite, CountMoves

\* rdsprocess is no user: what it does makes and keeps no promise.
LEMMA RdsPromises ==
  ASSUME \A q \in Procs : q # "rds" => call'[q] = call[q]
  PROVE  Promised' = Promised
BY RdsAssumption DEF Promised, Procs

LEMMA rdsprocessDisk ==
  ASSUME DiskInv, rdsprocess
  PROVE  DiskInv'
<1>1. /\ status = "ok" /\ call["rds"].at = "idle" /\ reqsem' = wait(reqsem, "rds")
      /\ Goto("rds", call["rds"], "head")
      /\ UNCHANGED <<calls, rd, bufs, availsem, mbox, netVars, srv, ghosts, status>>
  BY DEF rdsprocess, At
<1>2. /\ TypeInv /\ ListInv /\ CountInv /\ HeldInv /\ "rds" \in Procs /\ reqsem \in SemType(Procs)
      /\ call \in [Procs -> CallType] /\ call["rds"] \in CallType /\ "head" \in Places
  BY <1>1 DEF DiskInv, TypeInv, DiskType, CallInv, Procs, Places
<1>3. /\ call' \in [Procs -> CallType] /\ call'["rds"].at = "head"
      /\ \A q \in Procs : q # "rds" => call'[q] = call[q]
  BY <1>1, <1>2, GotoType
<1>4. reqsem' \in SemType(Procs)
  BY <1>1, <1>2, SemCounts
<1>5. DiskType' /\ NetType' /\ SrvType' /\ GhostType' /\ ListInv'
  BY <1>1, <1>2, <1>4
     DEF TypeInv, DiskType, NetType, SrvType, GhostType, ListInv, netVars, ghosts
<1>6. CountInv' /\ HeldInv'
  <2>1. Promised' = Promised
    BY <1>3, RdsPromises
  <2> QED
    BY <1>1, <1>2, <1>5, <2>1, PromisedFinite, CountSame, HeldStays
<1> QED
  BY <1>3, <1>5, <1>6, ServerMove

LEMMA WriteServedDisk ==
  ASSUME DiskInv, WriteServed
  PROVE  DiskInv'
<1>1. /\ status = "ok" /\ Goto("rds", call["rds"], "idle")
      /\ UNCHANGED <<calls, rd, bufs, availsem, reqsem, mbox, netVars, srv, ghosts, status>>
  BY DEF WriteServed, At, diskVars
<1>2. /\ TypeInv /\ ListInv /\ CountInv /\ HeldInv /\ "rds" \in Procs
      /\ call \in [Procs -> CallType] /\ call["rds"] \in CallType /\ "idle" \in Places
  BY <1>1 DEF DiskInv, TypeInv, CallInv, Procs, Places
<1>3. /\ call' \in [Procs -> CallType] /\ call'["rds"].at = "idle"
      /\ \A q \in Procs : q # "rds" => call'[q] = call[q]
  BY <1>1, <1>2, GotoType
<1>4. DiskType' /\ NetType' /\ SrvType' /\ GhostType' /\ ListInv'
  BY <1>1, <1>2
     DEF TypeInv, DiskType, NetType, SrvType, GhostType, ListInv, netVars, ghosts
<1>5. CountInv' /\ HeldInv'
  <2>1. Promised' = Promised
    BY <1>3, RdsPromises
  <2> QED
    BY <1>1, <1>2, <1>4, <2>1, PromisedFinite, CountSame, HeldStays
<1> QED
  BY <1>3, <1>4, <1>5, ServerMove

\* A system that has stopped is left as it is.
LEMMA UnreachableDisk ==
  ASSUME DiskInv, Unreachable
  PROVE  DiskInv'
<1>1. status' = "panic" /\ UNCHANGED <<calls, diskVars, call, mbox, netVars, srv, ghosts>>
  BY DEF Unreachable, At
<1>2. UNCHANGED <<rd, bufs, availsem, reqsem, slot, toServer, toClient, latest, got, allow>>
  BY <1>1 DEF diskVars, netVars, ghosts
<1>3. DiskType' /\ CallInv' /\ NetType' /\ SrvType' /\ GhostType'
  BY <1>1, <1>2
     DEF DiskInv, TypeInv, DiskType, CallInv, NetType, SrvType, GhostType, Statuses
<1>4. ListInv' /\ AskInv'
  BY <1>1, <1>2 DEF DiskInv, ListInv, AskInv
<1> QED
  BY <1>1, <1>3, <1>4 DEF DiskInv, TypeInv

LEMMA ServeReadDisk ==
  ASSUME DiskInv, ServeRead
  PROVE  DiskInv'
<1> DEFINE n == rd.seq + 1
           k == bufs[Head(rd.reqq)].blk
           m == [NoMsg EXCEPT !.type = "RREQ", !.blk = k]
<1>1. /\ status = "ok" /\ rd.reqq # << >>
      /\ rd' = [rd EXCEPT !.seq = n] /\ Exchange("rds", call["rds"], m)
      /\ UNCHANGED <<calls, bufs, availsem, reqsem, mbox, netVars, srv, ghosts, status>>
  BY DEF ServeRead, Asked, At
<1>2. /\ TypeInv /\ ListInv /\ CountInv /\ HeldInv /\ "rds" \in Procs
      /\ call \in [Procs -> CallType] /\ call["rds"] \in CallType
      /\ rd \in RdType /\ bufs \in [Bufs -> BufType] /\ rd.seq \in Nat /\ rd.reqq \in Seq(Bufs)
  BY <1>1 DEF DiskInv, TypeInv, DiskType, CallInv, RdType, Procs
<1>3. k \in Nat
  <2>1. Head(rd.reqq) \in Bufs
    BY <1>1, <1>2
  <2> QED
    BY <1>2, <2>1 DEF BufType
<1> HIDE DEF k
<1>4. m \in MsgType /\ m.type = "RREQ" /\ m.type \in Requested
  BY <1>3, IdleTypes DEF MsgType, Requested
<1> HIDE DEF m
<1>5. /\ call' \in [Procs -> CallType]
      /\ call'["rds"].at = "send" /\ call'["rds"].msg \in Wire
      /\ \A q \in Procs : q # "rds" => call'[q] = call[q]
  <2>1. Exchange("rds", call["rds"], m)
    BY <1>1
  <2>2. /\ call \in [Procs -> CallType] /\ rd \in RdType /\ "rds" \in Procs
        /\ call["rds"] \in CallType
    BY <1>2
  <2>3. m \in MsgType /\ m.type \in Requested
    BY <1>4
  <2> QED
    BY <2>1, <2>2, <2>3, ExchangeType
<1>6. n \in Nat
  BY <1>2
<1> HIDE DEF n
<1>7. /\ rd' \in RdType /\ rd'.free = rd.free /\ rd'.cache = rd.cache /\ rd'.reqq = rd.reqq
  BY <1>1, <1>2, <1>6 DEF RdType
<1>8. DiskType' /\ NetType' /\ SrvType' /\ GhostType' /\ ListInv'
  BY <1>1, <1>2, <1>7
     DEF TypeInv, DiskType, NetType, SrvType, GhostType, ListInv, netVars, ghosts
<1>9. CountInv' /\ HeldInv'
  <2>1. Promised' = Promised
    BY <1>5, RdsPromises
  <2> QED
    BY <1>1, <1>2, <1>7, <1>8, <2>1, PromisedFinite, CountSame, HeldStays
<1> QED
  BY <1>1, <1>5, <1>7, <1>8, <1>9, ServerMove

\* The buffer at the head of the queue goes to the cache.
LEMMA CachedHead ==
  ASSUME ListInv, rd.reqq # << >>, rd'.free = rd.free,
         rd'.cache = <<Head(rd.reqq)>> \o rd.cache, rd'.reqq = Tail(rd.reqq)
  PROVE  /\ Head(rd.reqq) \in Bufs /\ Has(rd.reqq, Head(rd.reqq))
         /\ ListInv'
         /\ Len(rd'.free) + Len(rd'.cache) = Len(rd.free) + Len(rd.cache) + 1
         /\ \A x : Has(rd'.reqq, x) <=> Has(rd.reqq, x) /\ x # Head(rd.reqq)
<1> DEFINE c == <<Head(rd.reqq)>> \o rd.cache
           r == Tail(rd.reqq)
<1>1. /\ Head(rd.reqq) \in Bufs /\ Has(rd.reqq, Head(rd.reqq))
      /\ Divided(rd.free, c, r) /\ Len(c) = Len(rd.cache) + 1
      /\ \A x : Has(r, x) <=> Has(rd.reqq, x) /\ x # Head(rd.reqq)
  BY QueueToCache DEF ListInv
<1> HIDE DEF c, r
<1>2. rd'.cache = c /\ rd'.reqq = r
  BY DEF c, r
<1>3. ListInv'
  BY <1>1, <1>2 DEF ListInv
<1>4. Len(rd'.free) = Len(rd.free) /\ Len(rd'.cache) = Len(rd.cache) + 1
  BY <1>1, <1>2
<1>5. Len(rd.free) \in Nat /\ Len(rd.cache) \in Nat
  BY DEF ListInv, Divided
<1>6. Len(rd'.free) + Len(rd'.cache) = Len(rd.free) + Len(rd.cache) + 1
  <2> DEFINE v == Len(rd.free)
             w == Len(rd.cache)
             y == Len(rd'.free)
             z == Len(rd'.cache)
  <2>1. v \in Nat /\ w \in Nat /\ y = v /\ z = w + 1
    BY <1>4, <1>5
  <2> HIDE DEF v, w, y, z
  <2>2. y + z = v + w + 1
    BY <2>1
  <2> QED
    BY <2>2 DEF v, w, y, z
<1> QED
  BY <1>1, <1>2, <1>3, <1>6

LEMMA ServeWriteDisk ==
  ASSUME DiskInv, ServeWrite
  PROVE  DiskInv'
<1> DEFINE n == rd.seq + 1
           b == Head(rd.reqq)
           c == <<Head(rd.reqq)>> \o rd.cache
           r == Tail(rd.reqq)
           x == [bufs[b] EXCEPT !.refcnt = 0]
           m == [NoMsg EXCEPT !.type = "WREQ", !.blk = bufs[b].blk, !.data = bufs[b].data]
<1>1. /\ status = "ok" /\ rd.reqq # << >>
      /\ rd' = [rd EXCEPT !.reqq = r, !.cache = c, !.seq = n]
      /\ bufs' = [bufs EXCEPT ![b] = x]
      /\ Exchange("rds", call["rds"], m)
      /\ availsem' = signal(availsem)
      /\ UNCHANGED <<calls, reqsem, mbox, netVars, srv, ghosts, status>>
  <2>1. ToCache = [rd EXCEPT !.reqq = r, !.cache = c]
    BY DEF ToCache
  <2> QED
    BY <2>1 DEF ServeWrite, Asked, At
<1>2. /\ TypeInv /\ ListInv /\ CountInv /\ HeldInv /\ "rds" \in Procs
      /\ call \in [Procs -> CallType] /\ call["rds"] \in CallType /\ availsem \in SemType(Procs)
      /\ rd \in RdType /\ bufs \in [Bufs -> BufType] /\ rd.seq \in Nat
  BY <1>1 DEF DiskInv, TypeInv, DiskType, CallInv, RdType, Procs
<1>3. b \in Bufs /\ Has(rd.reqq, b) /\ c \in Seq(Bufs) /\ r \in Seq(Bufs)
  <2>1. Divided(rd.free, c, r) /\ b \in Bufs /\ Has(rd.reqq, b)
    BY <1>1, <1>2, QueueToCache DEF ListInv
  <2> HIDE DEF c, r, b
  <2> QED
    BY <2>1 DEF Divided
<1>4. m \in MsgType /\ m.type = "WREQ" /\ m.type \in Requested
  <2>1. bufs[b].blk \in Nat /\ bufs[b].data \in Data
    BY <1>2, <1>3 DEF BufType
  <2> HIDE DEF b
  <2> QED
    BY <2>1, IdleTypes DEF MsgType, Requested
<1>5. x \in BufType /\ n \in Nat
  <2>1. bufs[b] \in BufType /\ n \in Nat
    BY <1>2, <1>3
  <2> HIDE DEF b, n
  <2> QED
    BY <2>1 DEF BufType
<1> HIDE DEF m, b, c, r, x, n
<1>6. /\ call' \in [Procs -> CallType]
      /\ call'["rds"].at = "send" /\ call'["rds"].msg \in Wire /\ call'["rds"].msg.type = "WREQ"
      /\ \A q \in Procs : q # "rds" => call'[q] = call[q]
  <2>1. /\ call' \in [Procs -> CallType]
        /\ call'["rds"].at = "send" /\ call'["rds"].msg \in Wire
        /\ call'["rds"].msg.type = m.type
        /\ \A q \in Procs : q # "rds" => call'[q] = call[q]
    <3>1. Exchange("rds", call["rds"], m)
      BY <1>1
    <3>2. /\ call \in [Procs -> CallType] /\ rd \in RdType /\ "rds" \in Procs
          /\ call["rds"] \in CallType
      BY <1>2
    <3>3. m \in MsgType /\ m.type \in Requested
      BY <1>4
    <3> QED
      BY <3>1, <3>2, <3>3, ExchangeType
  <2> QED
    BY <1>4, <2>1
<1>7. /\ rd' \in RdType /\ rd'.free = rd.free /\ rd'.cache = c /\ rd'.reqq = r
  BY <1>1, <1>2, <1>3, <1>5 DEF RdType
<1>8. /\ ListInv'
      /\ Len(rd'.free) + Len(rd'.cache) = Len(rd.free) + Len(rd.cache) + 1
      /\ \A y : Has(rd'.reqq, y) <=> Has(rd.reqq, y) /\ y # b
  BY <1>1, <1>2, <1>7, CachedHead DEF b, c, r
<1>9. bufs' \in [Bufs -> BufType] /\ \A y \in Bufs : y # b => bufs'[y] = bufs[y]
  BY <1>1, <1>2, <1>3, <1>5
<1>10. availsem' \in SemType(Procs)
  BY <1>1, <1>2, SemCounts
<1>11. DiskType' /\ NetType' /\ SrvType' /\ GhostType'
  BY <1>1, <1>2, <1>7, <1>9, <1>10
     DEF TypeInv, DiskType, NetType, SrvType, GhostType, netVars, ghosts
<1>12. CountInv'
  <2>1. Promised' = Promised
    BY <1>6, RdsPromises
  <2> QED
    BY <1>1, <1>2, <1>8, <2>1, CountSignal
<1>13. HeldInv'
  <2>1. \A q \in Users : mbox[q] # b
    BY <1>2, <1>3 DEF HeldInv
  <2>2. UNCHANGED mbox
    BY <1>1
  <2> QED
    BY <1>2, <1>3, <1>8, <1>9, <2>1, <2>2, HeldMoves
<1> QED
  BY <1>6, <1>8, <1>11, <1>12, <1>13, ServerMove

LEMMA ServeSyncDisk ==
  ASSUME DiskInv, ServeSync
  PROVE  DiskInv'
<1> DEFINE b == Head(rd.reqq)
           f == <<b>> \o rd.free
           r == Tail(rd.reqq)
           p == bufs[b].pid
<1>1. /\ status = "ok" /\ rd.reqq # << >>
      /\ rd' = [rd EXCEPT !.reqq = r, !.free = f]
      /\ mbox' = IF p \in Users /\ mbox[p] = 0 THEN [mbox EXCEPT ![p] = OK] ELSE mbox
      /\ Goto("rds", call["rds"], "idle")
      /\ availsem' = signal(availsem)
      /\ UNCHANGED <<calls, bufs, reqsem, netVars, srv, ghosts, status>>
  BY DEF ServeSync, Asked, At, Sent
<1>2. /\ TypeInv /\ ListInv /\ CountInv /\ HeldInv /\ "rds" \in Procs
      /\ call \in [Procs -> CallType] /\ call["rds"] \in CallType /\ availsem \in SemType(Procs)
      /\ rd \in RdType /\ bufs \in [Bufs -> BufType] /\ mbox \in [Users -> 0..OK]
      /\ "idle" \in Places /\ rd.free \in Seq(Bufs) /\ rd.cache \in Seq(Bufs)
  BY <1>1 DEF DiskInv, TypeInv, DiskType, CallInv, NetType, RdType, Procs, Places
<1>3. /\ b \in Bufs /\ Divided(f, rd.cache, r) /\ Len(f) = Len(rd.free) + 1
      /\ Has(rd.reqq, b) /\ \A y : Has(r, y) <=> Has(rd.reqq, y) /\ y # b
  <2>1. Divided(rd.cache, rd.free, rd.reqq)
    BY <1>2, DividedSwaps DEF ListInv
  <2>2. /\ b \in Bufs /\ Divided(rd.cache, f, r) /\ Len(f) = Len(rd.free) + 1
        /\ Has(rd.reqq, b) /\ \A y : Has(r, y) <=> Has(rd.reqq, y) /\ y # b
    BY <1>1, <2>1, QueueToCache
  <2> HIDE DEF b, f, r
  <2> QED
    BY <2>2, DividedSwaps
<1> HIDE DEF b, f, r, p
<1>4. f \in Seq(Bufs) /\ r \in Seq(Bufs) /\ Len(rd.free) \in Nat /\ Len(rd.cache) \in Nat
  BY <1>2, <1>3 DEF Divided
<1>5. /\ call' \in [Procs -> CallType] /\ call'["rds"].at = "idle"
      /\ \A q \in Procs : q # "rds" => call'[q] = call[q]
  BY <1>1, <1>2, GotoType
<1>6. /\ rd' \in RdType /\ rd'.free = f /\ rd'.cache = rd.cache /\ rd'.reqq = r
  BY <1>1, <1>2, <1>4 DEF RdType
<1>7. ListInv'
  BY <1>3, <1>6 DEF ListInv
<1>8. Len(rd'.free) + Len(rd'.cache) = Len(rd.free) + Len(rd.cache) + 1
  <2>1. Len(rd'.free) = Len(rd.free) + 1 /\ Len(rd'.cache) = Len(rd.cache)
    BY <1>3, <1>6
  <2> DEFINE v == Len(rd.free)
             w == Len(rd.cache)
             y == Len(rd'.free)
             z == Len(rd'.cache)
  <2>2. v \in Nat /\ w \in Nat /\ y = v + 1 /\ z = w
    BY <1>4, <2>1
  <2> HIDE DEF v, w, y, z
  <2>3. y + z = v + w + 1
    BY <2>2
  <2> QED
    BY <2>3 DEF v, w, y, z
<1>9. mbox' \in [Users -> 0..OK] /\ \A q \in Users : mbox'[q] = mbox[q] \/ mbox'[q] \notin Bufs
  BY <1>1, <1>2, BufNumbers
<1>10. availsem' \in SemType(Procs)
  BY <1>1, <1>2, SemCounts
<1>11. DiskType' /\ NetType' /\ SrvType' /\ GhostType'
  BY <1>1, <1>2, <1>6, <1>9, <1>10
     DEF TypeInv, DiskType, NetType, SrvType, GhostType, netVars, ghosts
<1>12. CountInv'
  <2>1. Promised' = Promised
    BY <1>5, RdsPromises
  <2> QED
    BY <1>1, <1>2, <1>7, <1>8, <2>1, CountSignal
<1>13. HeldInv'
  <2>1. \A q \in Users : mbox[q] # b
    BY <1>2, <1>3 DEF HeldInv
  <2>2. UNCHANGED bufs
    BY <1>1
  <2> QED
    BY <1>2, <1>3, <1>6, <1>9, <2>1, <2>2, HeldMoves
<1> QED
  BY <1>5, <1>7, <1>11, <1>12, <1>13, ServerMove

\* The buffer of a read goes to the cache and to its reader, who holds it from then on.
LEMMA ReadServedDisk ==
  ASSUME DiskInv, ReadServed
  PROVE  DiskInv'
<1> DEFINE b == Head(rd.reqq)
           c == <<Head(rd.reqq)>> \o rd.cache
           r == Tail(rd.reqq)
           d == call["rds"].resp
           x == [bufs[b] EXCEPT !.data = d, !.refcnt = 1]
           p == bufs[b].pid
<1>1. /\ status = "ok" /\ call["rds"].at = "OK" /\ call["rds"].msg.type = "RREQ"
      /\ rd' = [rd EXCEPT !.reqq = r, !.cache = c]
      /\ bufs' = [bufs EXCEPT ![b] = x]
      /\ mbox' = IF p \in Users /\ mbox[p] = 0 THEN [mbox EXCEPT ![p] = b] ELSE mbox
      /\ status' \in {"relinked", status}
      /\ Goto("rds", call["rds"], "idle")
      /\ availsem' = signal(availsem)
      /\ UNCHANGED <<calls, reqsem, netVars, srv, ghosts>>
  <2>1. ToCache = [rd EXCEPT !.reqq = r, !.cache = c]
    BY DEF ToCache
  <2>2. bufs' = [bufs EXCEPT ![b] = x]
    BY DEF ReadServed
  <2> HIDE DEF c, r, d, x
  <2> QED
    BY <2>1, <2>2 DEF ReadServed, At, Sent
<1>2. /\ TypeInv /\ ListInv /\ CountInv /\ HeldInv /\ "rds" \in Procs
      /\ call \in [Procs -> CallType] /\ call["rds"] \in CallType /\ availsem \in SemType(Procs)
      /\ rd \in RdType /\ bufs \in [Bufs -> BufType] /\ mbox \in [Users -> 0..OK]
      /\ "idle" \in Places /\ rd.reqq # << >> /\ d \in Data
  BY <1>1 DEF DiskInv, TypeInv, DiskType, CallInv, CallType, AskInv, NetType, Procs, Places
<1>3. b \in Bufs /\ Has(rd.reqq, b) /\ c \in Seq(Bufs) /\ r \in Seq(Bufs)
  <2>1. Divided(rd.free, c, r) /\ b \in Bufs /\ Has(rd.reqq, b)
    BY <1>2, QueueToCache DEF ListInv
  <2> HIDE DEF c, r, b
  <2> QED
    BY <2>1 DEF Divided
<1>4. x \in BufType /\ x.refcnt = 1
  <2> DEFINE y == bufs[b]
  <2>1. y \in BufType /\ d \in Data
    BY <1>2, <1>3
  <2> HIDE DEF y, d
  <2> DEFINE z == [y EXCEPT !.data = d]
  <2>2. z \in BufType
    BY <2>1 DEF BufType
  <2>3. x = [z EXCEPT !.refcnt = 1]
    BY DEF y
  <2> HIDE DEF x, z
  <2> QED
    BY <2>2, <2>3 DEF BufType
<1> HIDE DEF b, c, r, d, x, p
<1>5. /\ call' \in [Procs -> CallType] /\ call'["rds"].at = "idle"
      /\ \A q \in Procs : q # "rds" => call'[q] = call[q]
  BY <1>1, <1>2, GotoType
<1>6. /\ rd' \in RdType /\ rd'.free = rd.free /\ rd'.cache = c /\ rd'.reqq = r
  BY <1>1, <1>2, <1>3 DEF RdType
<1>7. /\ ListInv'
      /\ Len(rd'.free) + Len(rd'.cache) = Len(rd.free) + Len(rd.cache) + 1
      /\ \A y : Has(rd'.reqq, y) <=> Has(rd.reqq, y) /\ y # b
  BY <1>2, <1>6, CachedHead DEF b, c, r
<1>8. bufs' \in [Bufs -> BufType] /\ bufs'[b] = x /\ \A y \in Bufs : y # b => bufs'[y] = bufs[y]
  BY <1>1, <1>2, <1>3, <1>4
<1>9. mbox' \in [Users -> 0..OK]
  BY <1>1, <1>2, <1>3, BufNumbers
<1>10. availsem' \in SemType(Procs)
  BY <1>1, <1>2, SemCounts
<1>11. DiskType' /\ NetType' /\ SrvType' /\ GhostType'
  BY <1>1, <1>2, <1>6, <1>8, <1>9, <1>10
     DEF TypeInv, DiskType, NetType, SrvType, GhostType, netVars, ghosts, Statuses
<1>12. CountInv'
  <2>1. Promised' = Promised
    BY <1>5, RdsPromises
  <2> QED
    BY <1>1, <1>2, <1>7, <2>1, CountSignal
<1>13. \A q \in Users : mbox[q] # b
  BY <1>2, <1>3 DEF HeldInv
<1>14. HeldInv'
  <2>1. CASE ~(p \in Users /\ mbox[p] = 0)
    <3>1. UNCHANGED mbox
      BY <1>1, <2>1
    <3> QED
      BY <1>2, <1>3, <1>7, <1>8, <1>13, <3>1, HeldMoves
  <2>2. CASE p \in Users /\ mbox[p] = 0
    <3>1. mbox'[p] = b /\ \A q \in Users : q # p => mbox'[q] = mbox[q] /\ mbox'[q] # b
      BY <1>1, <1>2, <1>13, <2>2
    <3> SUFFICES ASSUME NEW q \in Users, mbox'[q] \in Bufs
                 PROVE  /\ ~Has(rd'.reqq, mbox'[q])
                        /\ bufs'[mbox'[q]].refcnt = 1
                        /\ \A s \in Users : s # q => mbox'[s] # mbox'[q]
      BY DEF HeldInv
    <3>2. CASE q = p
      BY <1>4, <1>7, <1>8, <3>1, <3>2
    <3>3. CASE q # p
      <4>1. mbox'[q] = mbox[q] /\ mbox[q] \in Bufs /\ mbox[q] # b
        BY <3>1, <3>3
      <4>2. /\ ~Has(rd.reqq, mbox[q]) /\ bufs[mbox[q]].refcnt = 1
            /\ \A s \in Users : s # q => mbox[s] # mbox[q]
        BY <1>2, <4>1 DEF HeldInv
      <4>3. \A s \in Users : s # q => mbox'[s] # mbox'[q]
        BY <3>1, <4>1, <4>2
      <4> QED
        BY <1>7, <1>8, <4>1, <4>2, <4>3
    <3> QED
      BY <3>2, <3>3
  <2> QED
    BY <2>1, <2>2
<1> QED
  BY <1>5, <1>7, <1>11, <1>12, <1>14, ServerMove

----------------------------------------------------------------------------
\* The invariant and the theorem.

\* At first every buffer is on the free list, in order.
LEMMA AllFree ==
  LET f == [i \in Bufs |-> i] IN
  Divided(f, << >>, << >>) /\ Len(f) = RD_BUFFS
<1> DEFINE f == [i \in Bufs |-> i]
           e == << >>
<1>1. RD_BUFFS \in Nat
  BY BufNumbers
<1>2. f \in Seq(Bufs) /\ Len(f) = RD_BUFFS /\ \A i \in 1..RD_BUFFS : f[i] = i
  BY <1>1 DEF Bufs
<1>3. e \in Seq(Bufs) /\ Len(e) = 0 /\ Distinct(e) /\ \A b : ~Has(e, b)
  BY DEF Distinct, Has
<1> HIDE DEF f, e
<1>4. Distinct(f)
  BY <1>2 DEF Distinct
<1>5. \A b \in Bufs : Has(f, b)
  BY <1>2 DEF Has, Bufs
<1>6. Len(f) + Len(e) + Len(e) = RD_BUFFS
  BY <1>1, <1>2, <1>3
<1>7. Divided(f, e, e)
  BY <1>2, <1>3, <1>4, <1>5, <1>6 DEF Divided
<1> QED
  BY <1>2, <1>7 DEF f, e

LEMMA InitDisk == Init => DiskInv
<1> SUFFICES ASSUME Init PROVE DiskInv
  OBVIOUS
<1> DEFINE f == [i \in Bufs |-> i]
           e == << >>
<1>1. /\ rd = [state |-> "FREE", id |-> "none", seq |-> 1, free |-> f, cache |-> e, reqq |-> e]
      /\ bufs = [b \in Bufs |-> Empty]
      /\ availsem = semcreate(RD_BUFFS) /\ reqsem = semcreate(0)
      /\ call = [p \in Procs |-> Idle] /\ mbox = [p \in Users |-> 0]
      /\ slot = "none" /\ toServer = {} /\ toClient = {} /\ srv = ServerInit
      /\ latest = [k \in Blocks |-> "none"] /\ got = [p \in Users |-> "none"]
      /\ allow = [p \in Users |-> {}] /\ calls = 0 /\ status = "ok"
  BY DEF Init
<1>2. Divided(f, e, e) /\ Len(f) = RD_BUFFS /\ Len(e) = 0
  BY AllFree
<1>3. "rds" \in Procs /\ Users \subseteq Procs
  BY DEF Procs
<1> HIDE DEF f, e
<1>4. f \in Seq(Bufs) /\ e \in Seq(Bufs)
  BY <1>2 DEF Divided
<1>5. DiskType
  <2>1. rd \in RdType
    BY <1>1, <1>4 DEF RdType, Disks
  <2>2. Empty \in BufType
    BY DEF Empty, BufType, Ops, Data
  <2>3. bufs \in [Bufs -> BufType]
    BY <1>1, <2>2
  <2>4. availsem \in SemType(Procs) /\ reqsem \in SemType(Procs)
    <3>1. \A n \in Int : semcreate(n) \in SemType(Procs)
      BY DEF semcreate, SemType
    <3> QED
      BY <1>1, <3>1, BufNumbers
  <2> QED
    BY <2>1, <2>3, <2>4 DEF DiskType
<1>6. CallInv
  BY <1>1, IdleTypes DEF CallInv
<1>7. NetType
  BY <1>1, BufNumbers DEF NetType
<1>8. SrvType
  <2>1. srv = [seq |-> 0, ofiles |-> {}, files |-> << >>]
    BY <1>1 DEF ServerInit
  <2>2. << >> \in [{} -> Seq(Data)] /\ DOMAIN << >> = {}
    OBVIOUS
  <2> QED
    BY <2>1, <2>2 DEF SrvType, SrvSound
<1>9. GhostType
  BY <1>1 DEF GhostType, Data, Statuses
<1>10. ListInv
  BY <1>1, <1>2 DEF ListInv
<1>11. AskInv
  BY <1>1, <1>3, IdleTypes DEF AskInv
<1>12. CountInv
  <2>1. Promised = {}
    BY <1>1, <1>3, IdleTypes DEF Promised
  <2>2. Cardinality(Promised) = 0
    BY <2>1, FS_EmptySet
  <2>3. Len(rd.free) = RD_BUFFS /\ Len(rd.cache) = 0 /\ availsem.count = RD_BUFFS
    BY <1>1, <1>2 DEF semcreate
  <2> QED
    BY <2>2, <2>3, BufNumbers DEF CountInv
<1>13. HeldInv
  BY <1>1, BufNumbers DEF HeldInv
<1> QED
  BY <1>5, <1>6, <1>7, <1>8, <1>9, <1>10, <1>11, <1>12, <1>13 DEF DiskInv, TypeInv

LEMMA StutterDisk ==
  ASSUME DiskInv, UNCHANGED vars
  PROVE  DiskInv'
<1>1. UNCHANGED <<rd, bufs, availsem, reqsem, call, mbox, slot, toServer, toClient, srv,
                  latest, got, allow, calls, status>>
  BY DEF vars, diskVars, netVars, ghosts
<1>2. DiskType' /\ CallInv' /\ NetType' /\ SrvType' /\ GhostType'
  BY <1>1 DEF DiskInv, TypeInv, DiskType, CallInv, NetType, SrvType, GhostType
<1>3. Promised' = Promised
  BY <1>1 DEF Promised
<1>4. ListInv' /\ AskInv'
  BY <1>1 DEF DiskInv, ListInv, AskInv
<1>5. status' = "ok" => CountInv' /\ HeldInv'
  BY <1>1, <1>3 DEF DiskInv, CountInv, HeldInv
<1> QED
  BY <1>2, <1>4, <1>5 DEF DiskInv, TypeInv

LEMMA NextDisk == DiskInv /\ [Next]_vars => DiskInv'
<1> SUFFICES ASSUME DiskInv, [Next]_vars PROVE DiskInv'
  OBVIOUS
<1>1. ASSUME NEW p \in Users, Enter(p) PROVE DiskInv'
  BY <1>1, rdsopenDisk, rdsopenRefusedDisk, rdscloseDisk, rdsdeleteDisk, rdssyncDisk,
     rdsreadDisk, rdswriteDisk
     DEF Enter
<1>2. ASSUME NEW p \in Users, Proceed(p) PROVE DiskInv'
  BY <1>2, EnqueueDisk, rdsreadDoneDisk, rdssyncDoneDisk, rdsopenDoneDisk, rdsdeleteDoneDisk
     DEF Proceed
<1>3. ASSUME NEW p \in Procs, Comm(p) PROVE DiskInv'
  BY <1>3, rdscommDisk, rdscommReplyDisk, rdscommTimeoutDisk DEF Comm
<1>4. CASE Rdsprocess
  BY <1>4, rdsprocessDisk, ServeReadDisk, ServeWriteDisk, ServeSyncDisk, ReadServedDisk,
     WriteServedDisk, UnreachableDisk DEF Rdsprocess
<1>5. ASSUME NEW m, Serve(m) PROVE DiskInv'
  BY <1>5, ServeDisk
<1>6. CASE Lose
  BY <1>6, LoseDisk
<1>7. CASE UNCHANGED vars
  BY <1>7, StutterDisk
<1> QED
  BY <1>1, <1>2, <1>3, <1>4, <1>5, <1>6, <1>7 DEF Next

\* The lists of the disk stay sound up to the step in which the model stops: each buffer
\* is on exactly one of the three lists, rdsprocess has a request at the head of the
\* queue as long as it asks for a block, and before that step the semaphore counts what
\* may be had and a buffer sent to a reader is held for it.
THEOREM DiskStaysSound == Spec => []DiskInv
<1>1. Init => DiskInv
  BY InitDisk
<1>2. DiskInv /\ [Next]_vars => DiskInv'
  BY NextDisk
<1> QED
  BY <1>1, <1>2, PTL DEF Spec

\* All buffers are on the lists put end to end.
LEMMA AllOnLists ==
  ASSUME NEW f, NEW c, NEW q, Divided(f, c, q)
  PROVE  LET all == f \o c \o q IN Len(all) = RD_BUFFS /\ Range(all) = Bufs
<1> DEFINE fc == f \o c
           all == fc \o q
<1>1. /\ f \in Seq(Bufs) /\ c \in Seq(Bufs) /\ q \in Seq(Bufs)
      /\ Len(f) \in Nat /\ Len(c) \in Nat /\ Len(q) \in Nat
      /\ Len(f) + Len(c) + Len(q) = RD_BUFFS
  BY DEF Divided
<1>2. /\ fc \in Seq(Bufs) /\ Len(fc) = Len(f) + Len(c)
      /\ \A i \in 1..(Len(f) + Len(c)) : fc[i] = IF i <= Len(f) THEN f[i] ELSE c[i - Len(f)]
  BY <1>1, ConcatProperties
<1> HIDE DEF fc
<1>3. /\ all \in Seq(Bufs) /\ Len(all) = Len(fc) + Len(q)
      /\ \A i \in 1..(Len(fc) + Len(q)) : all[i] = IF i <= Len(fc) THEN fc[i] ELSE q[i - Len(fc)]
  <2>1. fc \in Seq(Bufs) /\ q \in Seq(Bufs)
    BY <1>1, <1>2
  <2> QED
    BY <2>1, ConcatProperties
<1> HIDE DEF all
<1>4. Len(all) = RD_BUFFS
  BY <1>1, <1>2, <1>3
<1>5. DOMAIN all = 1..Len(all) /\ Range(all) = {all[i] : i \in 1..Len(all)}
  BY <1>3 DEF Range
<1>6. Range(all) \subseteq Bufs
  BY <1>3, <1>5
<1>7. ASSUME NEW b \in Bufs PROVE \E i \in 1..Len(all) : all[i] = b
  <2>1. ASSUME NEW i \in 1..Len(fc) PROVE i \in 1..Len(all) /\ all[i] = fc[i]
    BY <1>1, <1>2, <1>3
  <2>2. CASE Has(f, b)
    <3>1. PICK i \in 1..Len(f) : f[i] = b
      BY <2>2 DEF Has
    <3>2. i \in 1..Len(fc) /\ fc[i] = b
      BY <1>1, <1>2, <3>1
    <3> QED
      BY <2>1, <3>2
  <2>3. CASE Has(c, b)
    <3>1. PICK i \in 1..Len(c) : c[i] = b
      BY <2>3 DEF Has
    <3>2. i + Len(f) \in 1..(Len(f) + Len(c)) /\ ~(i + Len(f) <= Len(f))
          /\ (i + Len(f)) - Len(f) = i
      BY <1>1
    <3>3. i + Len(f) \in 1..Len(fc) /\ fc[i + Len(f)] = b
      BY <1>2, <3>1, <3>2
    <3> QED
      BY <2>1, <3>3
  <2>4. CASE Has(q, b)
    <3>1. PICK i \in 1..Len(q) : q[i] = b
      BY <2>4 DEF Has
    <3>2. i + Len(fc) \in 1..(Len(fc) + Len(q)) /\ ~(i + Len(fc) <= Len(fc))
          /\ (i + Len(fc)) - Len(fc) = i
      BY <1>1, <1>2
    <3>3. i + Len(fc) \in 1..Len(all) /\ all[i + Len(fc)] = b
      BY <1>3, <3>1, <3>2
    <3> QED
      BY <3>3
  <2> QED
    BY <2>2, <2>3, <2>4 DEF Divided
<1>8. Range(all) = Bufs
  BY <1>5, <1>6, <1>7
<1> QED
  BY <1>4, <1>8 DEF all, fc

LEMMA OwnedOfDisk == DiskInv => BuffersOwned
<1> SUFFICES ASSUME DiskInv PROVE BuffersOwned
  OBVIOUS
<1>1. TypeOK
  <2>1. rd.state \in {"FREE", "PEND", "OPEN"} /\ rd.seq \in Nat
    BY DEF DiskInv, TypeInv, DiskType, RdType
  <2>2. \A b \in Bufs : bufs[b].refcnt \in 0..1
    BY DEF DiskInv, TypeInv, DiskType, BufType
  <2>3. \A p \in Procs : call[p].i \in 0..RD_RETRIES
    BY DEF DiskInv, TypeInv, CallInv, CallType
  <2>4. slot \in Procs \cup {"none"} /\ status \in Statuses
    BY DEF DiskInv, TypeInv, NetType, GhostType
  <2> QED
    BY <2>1, <2>2, <2>3, <2>4 DEF TypeOK, Statuses
<1>2. Len(rd.free \o rd.cache \o rd.reqq) = RD_BUFFS /\ Range(rd.free \o rd.cache \o rd.reqq) = Bufs
  BY AllOnLists DEF DiskInv, ListInv
<1>3. status = "ok" => availsem.count = Len(rd.free) + Len(rd.cache)
                                        - Cardinality({p \in Users : call[p].at = "alloc"})
  BY DEF DiskInv, CountInv, Promised
<1> QED
  BY <1>1, <1>2, <1>3 DEF BuffersOwned

\* The lists of rds.h: every buffer is on exactly one of the three lists, and
\* rd_availsem counts those that are not on the request queue, less the ones promised to
\* a process, for any number of users, disks, blocks, buffers and retries.  This holds as
\* long as status is "ok".  It says nothing of what follows a read that is answered while
\* the queue holds another request for its block, where rdsprocess relinks the wrong
\* buffer, a reader that does not find its buffer first in the cache and loops in rdsread,
\* a buffer that is reused before its reader has copied it, or a write that semreset does
\* not count: the model stops at each of these.
THEOREM BuffersStayOwned == Spec => []BuffersOwned
<1>1. DiskInv => BuffersOwned
  BY OwnedOfDisk
<1> QED
  BY <1>1, DiskStaysSound, PTL

----------------------------------------------------------------------------
\* The users share one disk on the server.
OneDisk == \A d \in Ids : \A e \in Ids : d = e

\* What rdscomm and rdswrite need of a step for no write to be lost: udp_recv does not
\* time out while a message is still under way, ...
Timely == \A p \in Procs : rdscommTimeout(p) => toServer = {} /\ toClient = {}

\* Buffer b is a write of block k that has not been sent.
Unsent(b, k) == Has(rd.reqq, b) /\ bufs[b].op = "WRITE" /\ bufs[b].blk = k

\* A user has been promised a buffer for a write of block k.
ToWrite(p, k) == call[p].at = "alloc" /\ call[p].msg.type = "WRITE" /\ call[p].blk = k

\* ... and nobody begins to write a block while another waits for a buffer to write it.
OneByOne ==
    \A p \in Users : \A k \in Mine[p] : \A v \in Vals : rdswrite(p, k, v) =>
        \A q \in Users : ~ToWrite(q, k)

Orderly == Timely /\ OneByOne

Talking == {"send", "recv", "OK", "SYSERR"}
Exchanging(p) == call[p].at \in Talking

\* Requests for blocks are made by rdsprocess, requests about the disk by users.
OfBlock == {"RREQ", "WREQ"}

RoleInv ==
    /\ Exchanging("rds") => call["rds"].msg.type \in OfBlock
    /\ \A p \in Users : Exchanging(p) => call[p].msg.type \in {"OREQ", "DREQ"}

\* The numbers given so far, and what the server has seen of them.
SeqInv ==
    /\ rd.seq >= 1 /\ srv.seq < rd.seq
    /\ \A m \in toServer : m.seq >= 1 /\ m.seq < rd.seq /\ m.id \in Ids
    /\ \A r \in toClient : r.seq <= srv.seq
    /\ \A p \in Procs : Exchanging(p) =>
         call[p].msg.seq >= 1 /\ call[p].msg.seq < rd.seq /\ call[p].msg.id \in Ids

\* The request of rdsprocess has a number of its own.
OwnInv ==
    Exchanging("rds") =>
      /\ call["rds"].msg.seq # 1
      /\ \A p \in Users : Exchanging(p) => call[p].msg.seq # call["rds"].msg.seq
      /\ \A m \in toServer : m.seq = call["rds"].msg.seq => m = call["rds"].msg
      /\ \A r \in toClient : r.seq = call["rds"].msg.seq => r.type = call["rds"].msg.type

\* The exchange with number 1, to which the server listens whatever it has seen.
First(p) == Exchanging(p) /\ call[p].msg.seq = 1

\* It goes on alone, with one copy of its message at a time, and leaves none.
Alone(p) ==
    /\ rd.seq = 2 /\ rd.state = "PEND" /\ rd.reqq = << >>
    /\ \A q \in Procs : q # p => call[q].at \in {"idle", "head"}
    /\ call[p].msg.type = "OREQ"
    /\ call[p].at = "send" => slot = "none"
    /\ call[p].at # "recv" => toServer = {} /\ toClient = {}
    /\ toServer = {} \/ toClient = {}
    /\ toServer \subseteq {call[p].msg}
    /\ \A r \in toClient : r.type = "OREQ" /\ r.seq = 1 /\ \A s \in toClient : s = r

Begun == rd.seq # 1 /\ \A p \in Users : ~First(p)

StartInv ==
    /\ rd.seq = 1 => /\ rd.state # "OPEN" /\ rd.reqq = << >> /\ slot = "none"
                     /\ toServer = {} /\ toClient = {}
                     /\ \A p \in Procs : call[p].at \in {"idle", "head"}
    /\ \A p \in Users : First(p) => Alone(p)
    /\ Begun => \A m \in toServer : m.seq # 1
    /\ rd.seq # 1 => rd.id \in Ids

\* The request of rdsprocess has not been answered to it yet.
Waiting == call["rds"].at \in {"send", "recv", "SYSERR"}
Answered == \E r \in toClient : r.type \in OfBlock
Resending == call["rds"].at = "send" /\ call["rds"].xmit

\* The server ignores what is left of earlier requests, and has one answer for this one.
CopyInv ==
    /\ \A m \in toServer : m.type \in OfBlock =>
         (m.seq < srv.seq /\ m.seq # 1) \/ (Waiting /\ m = call["rds"].msg)
    /\ \A r \in toClient : r.type \in OfBlock =>
         /\ Waiting /\ r.seq = call["rds"].msg.seq
         /\ \A s \in toClient : s.type \in OfBlock => s = r
    /\ Waiting /\ (Answered \/ Resending) =>
         call["rds"].msg.seq < srv.seq \/ call["rds"].msg \notin toServer
    /\ Resending /\ Answered => call["rds"].msg.seq < srv.seq

WireInv == RoleInv /\ SeqInv /\ OwnInv /\ StartInv /\ CopyInv

Sending(k) == Waiting /\ call["rds"].msg.type = "WREQ" /\ call["rds"].msg.blk = k

InFile(k) == k < Len(srv.files[rd.id]) /\ srv.files[rd.id][k + 1] = latest[k]

OpenInv ==
    /\ srv.ofiles \subseteq Ids /\ srv.ofiles \cap BadIds = {}
    /\ \A k \in Blocks : latest[k] # "none" => rd.id \in srv.ofiles

\* A block has one write on the queue, and none when one, the only one, is about to go
\* there.
SoleInv ==
    /\ \A k \in Blocks : \A b \in Bufs : \A c \in Bufs : Unsent(b, k) /\ Unsent(c, k) => b = c
    /\ \A p \in Users : \A k \in Blocks : ToWrite(p, k) =>
         /\ k \in Mine[p] /\ \A b \in Bufs : ~Unsent(b, k)
         /\ \A q \in Users : q # p => ~ToWrite(q, k)

\* The request at the head of the queue is the one that rdsprocess asks the server for.
HeadInv ==
    Exchanging("rds") /\ call["rds"].msg.type = "RREQ" => bufs[Head(rd.reqq)].op = "READ"

\* The newest write of a block is on the queue; if none is, on its way; if not, in the file.
KeptInv ==
    \A k \in Blocks : latest[k] # "none" =>
      /\ \A b \in Bufs : Unsent(b, k) => bufs[b].data = latest[k]
      /\ (\A b \in Bufs : ~Unsent(b, k)) =>
           /\ Sending(k) => call["rds"].msg.data = latest[k]
           /\ ~Sending(k) \/ Answered => InFile(k)

DataInv == OpenInv /\ SoleInv /\ HeadInv /\ KeptInv

WriteInv == DiskInv /\ (status = "ok" => WireInv /\ DataInv)

----------------------------------------------------------------------------
\* The messages.

LEMMA WireTypes ==
  ASSUME TypeInv
  PROVE  /\ rd.seq \in Nat /\ srv.seq \in Nat
         /\ \A m \in toServer : m.seq \in Nat /\ m \in Wire /\ m.blk \in Nat /\ m.data \in Data
         /\ \A r \in toClient : r.seq \in Nat
         /\ \A p \in Procs : call[p].msg.seq \in Nat /\ call[p] \in CallType
         /\ "rds" \in Procs /\ "rds" \notin Users /\ Users \subseteq Procs
         /\ \A p \in Procs : p \in Users \/ p = "rds"
<1>1. /\ rd \in RdType /\ SrvSound(srv) /\ toServer \subseteq Wire /\ toClient \subseteq ReplyType
      /\ call \in [Procs -> CallType]
  BY DEF TypeInv, DiskType, SrvType, NetType, CallInv
<1>2. rd.seq \in Nat /\ srv.seq \in Nat
  BY <1>1 DEF RdType, SrvSound
<1>3. \A m \in toServer : m.seq \in Nat /\ m \in Wire /\ m.blk \in Nat /\ m.data \in Data
  BY <1>1 DEF Wire, MsgType
<1>4. \A r \in toClient : r.seq \in Nat
  BY <1>1 DEF ReplyType
<1>5. \A p \in Procs : call[p].msg.seq \in Nat /\ call[p] \in CallType
  BY <1>1 DEF CallType, MsgType
<1> QED
  BY <1>2, <1>3, <1>4, <1>5, RdsAssumption DEF Procs

\* The first exchange is over when a disk is open, or a request is queued or made.
LEMMA HasBegun ==
  ASSUME TypeInv, WireInv, NEW p \in Procs,
         \/ rd.state = "OPEN" \/ rd.reqq # << >>
         \/ call[p].at \in {"alloc", "receive"}
         \/ p = "rds" /\ Exchanging("rds")
         \/ rd.state = "FREE" /\ rd.seq # 1
  PROVE  Begun /\ rd.id \in Ids
<1>1. StartInv
  BY DEF WireInv
<1>2. p \in Procs /\ "rds" \notin Users
  BY WireTypes
<1>3. rd.seq # 1
  BY <1>1 DEF StartInv, Exchanging, Talking
<1>4. ASSUME NEW q \in Users, First(q) PROVE FALSE
  <2>1. Alone(q)
    BY <1>1, <1>4 DEF StartInv
  <2>2. CASE p = q
    BY <1>2, <1>4, <2>1, <2>2 DEF Alone, First, Exchanging, Talking
  <2>3. CASE p # q
    BY <1>2, <2>1, <2>3 DEF Alone, Exchanging, Talking
  <2> QED
    BY <2>2, <2>3
<1> QED
  BY <1>1, <1>3, <1>4 DEF Begun, StartInv

\* Steps that do not touch the network: an exchange may end, and none begins.
LEMMA QuietWire ==
  ASSUME TypeInv, WireInv, rd.seq # 1,
         \A q \in Users : First(q) => call'[q].at \notin Talking /\ toServer = {},
         \A q \in Procs : call'[q] = call[q] \/ call'[q].at \notin Talking,
         call'["rds"] = call["rds"] \/ ~Waiting,
         rd'.seq = rd.seq, rd'.id = rd.id, UNCHANGED <<netVars, srv>>
  PROVE  WireInv'
<1>1. UNCHANGED <<slot, toServer, toClient, srv>>
  BY DEF netVars
<1>2. "rds" \in Procs /\ Users \subseteq Procs
  BY WireTypes
<1>3. \A q \in Procs : Exchanging(q)' => call'[q] = call[q] /\ Exchanging(q)
  BY DEF Exchanging
<1>4. RoleInv'
  BY <1>2, <1>3 DEF WireInv, RoleInv
<1>5. SeqInv'
  BY <1>1, <1>2, <1>3 DEF WireInv, SeqInv
<1>6. OwnInv'
  BY <1>1, <1>2, <1>3 DEF WireInv, OwnInv
<1>7. StartInv'
  <2>1. \A q \in Users : ~First(q)'
    BY <1>2, <1>3 DEF First, Exchanging
  <2>2. \A m \in toServer : m.seq # 1
    BY DEF WireInv, StartInv, Begun
  <2> QED
    BY <1>1, <2>1, <2>2 DEF WireInv, StartInv
<1>8. CopyInv'
  <2>1. call'["rds"] = call["rds"] \/ (~Waiting /\ ~Waiting')
    BY <1>2 DEF Waiting, Talking
  <2>2. CASE call'["rds"] = call["rds"]
    BY <1>1, <2>2 DEF WireInv, CopyInv, Waiting, Answered, Resending
  <2>3. CASE ~Waiting /\ ~Waiting'
    BY <1>1, <2>3 DEF WireInv, CopyInv, Waiting, Answered, Resending
  <2> QED
    BY <2>1, <2>2, <2>3
<1> QED
  BY <1>4, <1>5, <1>6, <1>7, <1>8 DEF WireInv

\* Steps that change neither the network nor the state of the disk.
LEMMA IdleWire ==
  ASSUME TypeInv, WireInv,
         \A q \in Procs : call'[q] = call[q] \/ (call[q].at = "idle" /\ call'[q].at = "head"),
         UNCHANGED <<rd, netVars, srv>>
  PROVE  WireInv'
<1>1. UNCHANGED <<slot, toServer, toClient, srv>>
  BY DEF netVars
<1>2. "rds" \in Procs /\ Users \subseteq Procs
  BY WireTypes
<1>3. /\ \A q \in Procs : Exchanging(q)' <=> Exchanging(q)
      /\ \A q \in Procs : Exchanging(q) => call'[q] = call[q]
  BY DEF Exchanging, Talking
<1>4. RoleInv'
  BY <1>2, <1>3 DEF WireInv, RoleInv
<1>5. SeqInv'
  BY <1>1, <1>2, <1>3 DEF WireInv, SeqInv
<1>6. OwnInv'
  BY <1>1, <1>2, <1>3 DEF WireInv, OwnInv
<1>7. StartInv'
  <2>1. \A q \in Users : First(q)' <=> First(q)
    BY <1>2, <1>3 DEF First
  <2>2. \A q \in Procs : call[q].at \in {"idle", "head"} => call'[q].at \in {"idle", "head"}
    OBVIOUS
  <2>3. ASSUME NEW q \in Users, First(q) PROVE Alone(q)'
    <3>1. Alone(q) /\ call'[q] = call[q]
      BY <1>2, <1>3, <2>3 DEF WireInv, StartInv, First
    <3> QED
      BY <1>1, <2>2, <3>1 DEF Alone
  <2>4. Begun' <=> Begun
    BY <2>1 DEF Begun
  <2> QED
    BY <1>1, <2>1, <2>2, <2>3, <2>4 DEF WireInv, StartInv
<1>8. CopyInv'
  <2>1. call'["rds"] = call["rds"] \/ (~Waiting /\ ~Waiting')
    BY <1>2 DEF Waiting
  <2>2. CASE call'["rds"] = call["rds"]
    BY <1>1, <2>2 DEF WireInv, CopyInv, Waiting, Answered, Resending
  <2>3. CASE ~Waiting /\ ~Waiting'
    BY <1>1, <2>3 DEF WireInv, CopyInv, Waiting, Answered, Resending
  <2> QED
    BY <2>1, <2>2, <2>3
<1> QED
  BY <1>4, <1>5, <1>6, <1>7, <1>8 DEF WireInv

\* An exchange begins: the message has the next number.
LEMMA BeginWire ==
  ASSUME TypeInv, WireInv, NEW p \in Procs, ~Exchanging(p),
         call'[p].at = "send", call'[p].msg.seq = rd.seq, call'[p].msg.id \in Ids,
         p = "rds" => call'[p].msg.type \in OfBlock,
         p # "rds" => call'[p].msg.type \in {"OREQ", "DREQ"},
         \A q \in Procs : q # p => call'[q] = call[q],
         rd'.seq = rd.seq + 1, rd'.id \in Ids, UNCHANGED <<netVars, srv>>,
         \/ Begun
         \/ /\ rd.seq = 1 /\ p # "rds" /\ rd'.state = "PEND" /\ rd'.reqq = << >>
            /\ call'[p].msg.type = "OREQ"
  PROVE  WireInv'
<1>1. UNCHANGED <<slot, toServer, toClient, srv>>
  BY DEF netVars
<1>2. /\ "rds" \in Procs /\ Users \subseteq Procs /\ rd.seq \in Nat
      /\ \A q \in Procs : call[q].msg.seq \in Nat
      /\ \A q \in Procs : q \in Users \/ q = "rds"
  BY WireTypes
<1>3. /\ \A q \in Procs : Exchanging(q)' => q = p \/ (Exchanging(q) /\ call'[q] = call[q])
      /\ RoleInv /\ SeqInv /\ OwnInv /\ StartInv /\ CopyInv
  BY DEF Exchanging, WireInv
<1>4. RoleInv'
  <2>1. Exchanging("rds")' => call'["rds"].msg.type \in OfBlock
    BY <1>2, <1>3 DEF RoleInv
  <2>2. ASSUME NEW q \in Users, Exchanging(q)' PROVE call'[q].msg.type \in {"OREQ", "DREQ"}
    <3>1. q \in Procs /\ q # "rds"
      BY <1>2, RdsAssumption
    <3> QED
      BY <1>3, <2>2, <3>1 DEF RoleInv
  <2> QED
    BY <2>1, <2>2 DEF RoleInv
<1>5. SeqInv'
  <2>1. rd'.seq >= 1 /\ srv'.seq < rd'.seq
    BY <1>1, <1>2, <1>3, WireTypes DEF SeqInv
  <2>2. ASSUME NEW m \in toServer' PROVE m.seq >= 1 /\ m.seq < rd'.seq /\ m.id \in Ids
    BY <1>1, <1>2, <1>3, WireTypes DEF SeqInv
  <2>3. \A r \in toClient' : r.seq <= srv'.seq
    BY <1>1, <1>3 DEF SeqInv
  <2>4. ASSUME NEW q \in Procs, Exchanging(q)'
        PROVE  call'[q].msg.seq >= 1 /\ call'[q].msg.seq < rd'.seq /\ call'[q].msg.id \in Ids
    <3>1. CASE q = p
      BY <1>2, <1>3, <3>1 DEF SeqInv
    <3>2. CASE q # p
      BY <1>2, <1>3, <2>4, <3>2 DEF SeqInv
    <3> QED
      BY <3>1, <3>2
  <2> QED
    BY <2>1, <2>2, <2>3, <2>4 DEF SeqInv
<1>6. OwnInv'
  <2>1. CASE p = "rds"
    <3>1. rd.seq # 1
      BY <2>1 DEF Begun
    <3>2. \A q \in Users : Exchanging(q)' => call'[q].msg.seq # rd.seq
      BY <1>2, <1>3, <2>1, RdsAssumption DEF SeqInv
    <3>3. \A m \in toServer : m.seq # rd.seq
      BY <1>2, <1>3, WireTypes DEF SeqInv
    <3>4. \A r \in toClient : r.seq # rd.seq
      BY <1>2, <1>3, WireTypes DEF SeqInv
    <3> QED
      BY <1>1, <2>1, <3>1, <3>2, <3>3, <3>4 DEF OwnInv
  <2>2. CASE p # "rds"
    <3> SUFFICES ASSUME Exchanging("rds")' PROVE OwnInv'
      BY DEF OwnInv
    <3>1. Exchanging("rds") /\ call'["rds"] = call["rds"]
      BY <1>2, <1>3, <2>2
    <3>2. ASSUME NEW q \in Users, Exchanging(q)'
          PROVE  call'[q].msg.seq # call["rds"].msg.seq
      <4>1. call["rds"].msg.seq < rd.seq
        BY <1>2, <1>3, <3>1 DEF SeqInv
      <4> QED
        BY <1>2, <1>3, <3>1, <3>2, <4>1 DEF OwnInv
    <3> QED
      BY <1>1, <1>3, <3>1, <3>2 DEF OwnInv
  <2> QED
    BY <2>1, <2>2
<1>7. StartInv'
  <2>1. rd'.seq # 1
    BY <1>2, <1>3 DEF SeqInv
  <2>2. CASE Begun
    <3>1. \A q \in Users : ~First(q)'
      BY <1>2, <1>3, <2>2 DEF First, Begun
    <3> QED
      BY <1>1, <1>3, <2>1, <2>2, <3>1 DEF StartInv
  <2>3. CASE /\ rd.seq = 1 /\ p # "rds" /\ rd'.state = "PEND" /\ rd'.reqq = << >>
             /\ call'[p].msg.type = "OREQ"
    <3>1. /\ slot = "none" /\ toServer = {} /\ toClient = {}
          /\ \A q \in Procs : call[q].at \in {"idle", "head"}
      BY <1>3, <2>3 DEF StartInv
    <3>2. Alone(p)'
      BY <1>1, <1>2, <2>3, <3>1 DEF Alone
    <3>3. \A q \in Users : First(q)' => q = p
      BY <1>2, <1>3, <3>1 DEF First, Exchanging, Talking
    <3> QED
      BY <1>1, <2>1, <3>1, <3>2, <3>3 DEF StartInv
  <2> QED
    BY <2>2, <2>3
<1>8. CopyInv'
  <2>1. CASE p = "rds"
    <3>1. ~Waiting
      BY <2>1 DEF Waiting, Exchanging, Talking
    <3>2. ~Answered
      BY <1>3, <3>1 DEF CopyInv, Answered
    <3>3. \A m \in toServer : m # call'["rds"].msg
      BY <1>2, <1>3, <2>1, WireTypes DEF SeqInv
    <3>4. ~Answered'
      BY <1>1, <3>2 DEF Answered
    <3>5. \A m \in toServer : m.type \in OfBlock => m.seq < srv.seq /\ m.seq # 1
      BY <1>3, <3>1 DEF CopyInv
    <3>6. \A r \in toClient : r.type \notin OfBlock
      BY <3>2 DEF Answered
    <3> QED
      BY <1>1, <3>3, <3>4, <3>5, <3>6 DEF CopyInv
  <2>2. CASE p # "rds"
    <3>1. call'["rds"] = call["rds"]
      BY <1>2, <2>2
    <3> QED
      BY <1>1, <1>3, <3>1 DEF CopyInv, Waiting, Answered, Resending
  <2> QED
    BY <2>1, <2>2
<1> QED
  BY <1>4, <1>5, <1>6, <1>7, <1>8 DEF WireInv

\* A try: the message may go to the network.
LEMMA rdscommWire ==
  ASSUME TypeInv, WireInv, NEW p \in Procs, rdscomm(p)
  PROVE  WireInv'
<1>1. /\ call[p].at = "send"
      /\ toServer' = IF call[p].xmit THEN toServer \cup {call[p].msg} ELSE toServer
      /\ IF slot = "none" THEN slot' = p /\ Goto(p, call[p], "recv")
         ELSE Goto(p, call[p], "SYSERR") /\ UNCHANGED slot
      /\ UNCHANGED <<rd, toClient, srv>>
  BY DEF rdscomm, At, diskVars
<1>2. /\ "rds" \in Procs /\ "rds" \notin Users /\ Users \subseteq Procs
      /\ call \in [Procs -> CallType] /\ call[p] \in CallType
      /\ "recv" \in Places /\ "SYSERR" \in Places
      /\ \A q \in Procs : q \in Users \/ q = "rds"
  BY WireTypes DEF TypeInv, CallInv, Places
<1>3. /\ call'[p].at \in {"recv", "SYSERR"} /\ call'[p].msg = call[p].msg
      /\ slot = "none" => call'[p].at = "recv"
      /\ \A q \in Procs : q # p => call'[q] = call[q]
  BY <1>1, <1>2, GotoType
<1>4. /\ \A q \in Procs : Exchanging(q)' <=> Exchanging(q)
      /\ \A q \in Procs : call'[q].msg = call[q].msg
      /\ Exchanging(p)
      /\ RoleInv /\ SeqInv /\ OwnInv /\ StartInv /\ CopyInv
  BY <1>1, <1>3 DEF Exchanging, Talking, WireInv
<1>5. \A m \in toServer' : m \in toServer \/ m = call[p].msg
  BY <1>1
<1>6. RoleInv'
  BY <1>2, <1>4 DEF RoleInv
<1>7. SeqInv'
  BY <1>1, <1>4, <1>5 DEF SeqInv
<1>8. OwnInv'
  <2>1. Exchanging("rds") => \A m \in toServer' :
           m.seq = call["rds"].msg.seq => m = call["rds"].msg
    BY <1>2, <1>4, <1>5 DEF OwnInv
  <2> QED
    BY <1>1, <1>2, <1>4, <2>1 DEF OwnInv
<1>9. StartInv'
  <2>1. \A q \in Users : First(q)' <=> First(q)
    BY <1>2, <1>4 DEF First
  <2>2. ASSUME NEW q \in Users, First(q) PROVE Alone(q)'
    <3>1. Alone(q)
      BY <1>4, <2>2 DEF StartInv
    <3>2. q = p
      BY <1>1, <3>1 DEF Alone
    <3>3. slot = "none" /\ toServer = {} /\ toClient = {} /\ call'[p].at = "recv"
      BY <1>1, <1>3, <3>1, <3>2 DEF Alone
    <3>4. toServer' \subseteq {call[p].msg}
      BY <1>1, <3>3
    <3> QED
      BY <1>1, <1>3, <3>1, <3>2, <3>3, <3>4 DEF Alone
  <2>3. Begun' <=> Begun
    BY <1>1, <2>1 DEF Begun
  <2>4. Begun => \A m \in toServer' : m.seq # 1
    <3> SUFFICES ASSUME Begun PROVE call[p].msg.seq # 1
      BY <1>4, <1>5 DEF StartInv
    <3>1. CASE p = "rds"
      BY <1>4, <3>1 DEF OwnInv
    <3>2. CASE p \in Users
      BY <1>4, <3>2 DEF Begun, First
    <3> QED
      BY <1>2, <3>1, <3>2
  <2>5. rd.seq # 1
    BY <1>1, <1>4 DEF StartInv
  <2> QED
    BY <1>1, <1>4, <2>1, <2>2, <2>3, <2>4, <2>5 DEF StartInv
<1>10. CopyInv'
  <2>1. Answered' <=> Answered
    BY <1>1 DEF Answered
  <2>2. CASE p = "rds"
    <3>1. Waiting /\ Waiting' /\ ~Resending' /\ call'["rds"].msg = call["rds"].msg
      BY <1>1, <1>3, <2>2 DEF Waiting, Resending
    <3>2. \A m \in toServer' : m.type \in OfBlock =>
             (m.seq < srv.seq /\ m.seq # 1) \/ m = call["rds"].msg
      BY <1>4, <1>5, <2>2 DEF CopyInv
    <3>3. Answered => call["rds"].msg.seq < srv.seq \/ call["rds"].msg \notin toServer'
      <4>1. CASE call["rds"].xmit
        BY <1>1, <1>4, <2>2, <4>1 DEF CopyInv, Resending
      <4>2. CASE ~call["rds"].xmit
        BY <1>1, <1>4, <2>2, <3>1, <4>2 DEF CopyInv
      <4> QED
        BY <4>1, <4>2
    <3> QED
      BY <1>1, <1>4, <2>1, <3>1, <3>2, <3>3 DEF CopyInv
  <2>3. CASE p # "rds"
    <3>1. call'["rds"] = call["rds"]
      BY <1>2, <1>3, <2>3
    <3>2. Waiting => call["rds"].msg # call[p].msg
      BY <1>2, <1>4, <2>3 DEF OwnInv, Waiting, Exchanging, Talking
    <3>3. call[p].msg.type \notin OfBlock
      BY <1>2, <1>4, <2>3 DEF RoleInv, OfBlock
    <3> QED
      BY <1>1, <1>4, <1>5, <2>1, <3>1, <3>2, <3>3 DEF CopyInv, Waiting, Resending
  <2> QED
    BY <2>2, <2>3
<1> QED
  BY <1>6, <1>7, <1>8, <1>9, <1>10 DEF WireInv

\* Messages are lost.
LEMMA LoseWire ==
  ASSUME TypeInv, WireInv, toServer' \subseteq toServer, toClient' \subseteq toClient,
         UNCHANGED <<rd, call, slot, srv>>
  PROVE  WireInv'
<1>1. RoleInv /\ SeqInv /\ OwnInv /\ StartInv /\ CopyInv
  BY DEF WireInv
<1>2. RoleInv'
  BY <1>1 DEF RoleInv, Exchanging
<1>3. SeqInv'
  BY <1>1 DEF SeqInv, Exchanging
<1>4. OwnInv'
  BY <1>1 DEF OwnInv, Exchanging
<1>5. StartInv'
  <2>1. \A q \in Users : First(q)' <=> First(q)
    BY DEF First, Exchanging
  <2>2. ASSUME NEW q \in Users, First(q) PROVE Alone(q)'
    <3>1. Alone(q)
      BY <1>1, <2>2 DEF StartInv
    <3> QED
      BY <3>1 DEF Alone
  <2>3. Begun' <=> Begun
    BY <2>1 DEF Begun
  <2> QED
    BY <1>1, <2>1, <2>2, <2>3 DEF StartInv
<1>6. CopyInv'
  <2>1. /\ Answered' => Answered
        /\ Waiting' <=> Waiting
        /\ Resending' <=> Resending
    BY DEF Answered, Waiting, Resending
  <2> QED
    BY <1>1, <2>1 DEF CopyInv, Waiting, Resending
<1> QED
  BY <1>2, <1>3, <1>4, <1>5, <1>6 DEF WireInv

\* What is left of an exchange after a try that failed, and how it goes on.
LEMMA AgainPlace ==
  ASSUME call \in [Procs -> CallType], NEW p \in Procs, NEW c \in CallType,
         NEW x \in BOOLEAN, Again(p, c, x)
  PROVE  /\ call'[p].at \in {"send", "SYSERR"} /\ call'[p].msg = c.msg
         /\ \A q \in Procs : q # p => call'[q] = call[q]
         /\ call'[p].at = "send" => call'[p].xmit = x
<1>1. /\ call'[p].at \in {"send", "SYSERR"} /\ call'[p].msg = c.msg
      /\ \A q \in Procs : q # p => call'[q] = call[q]
  BY AgainType
<1>2. CASE c.i = RD_RETRIES
  <2>1. Goto(p, c, "SYSERR") /\ "SYSERR" \in Places
    BY <1>2 DEF Again, Places
  <2>2. call'[p].at = "SYSERR"
    BY <2>1, GotoType
  <2> QED
    BY <1>1, <2>2
<1>3. CASE c.i # RD_RETRIES
  <2>1. Goto(p, [c EXCEPT !.i = @ + 1, !.xmit = x], "send")
    BY <1>3 DEF Again
  <2>2. call'[p].xmit = x
    BY <2>1 DEF Goto, CallType
  <2> QED
    BY <1>1, <2>2
<1> QED
  BY <1>2, <1>3

\* An answer is taken from the network, or thrown away.
LEMMA rdscommReplyWire ==
  ASSUME TypeInv, WireInv, NEW p \in Procs, NEW r, rdscommReply(p, r)
  PROVE  /\ WireInv'
         /\ call[p].at = "recv" /\ call'[p].at \in Talking
         /\ \A q \in Procs : q # p => call'[q] = call[q]
         /\ call'["rds"] = call["rds"]
            \/ (Waiting /\ Waiting' /\ call'["rds"].msg = call["rds"].msg)
            \/ (Waiting /\ Answered /\ ~Waiting' /\ call'["rds"].msg = call["rds"].msg)
<1> DEFINE m == call[p].msg
           c == [call[p] EXCEPT !.resp = IF r.data = "none" THEN @ ELSE r.data]
           x == ~(r.seq < m.seq)
<1>1. /\ call[p].at = "recv" /\ r \in toClient
      /\ toClient' = toClient \ {r} /\ slot' = "none"
      /\ CASE Mismatch(r, m) -> Again(p, c, x)
           [] ~Mismatch(r, m) /\ r.status # 0 -> Goto(p, c, "SYSERR")
           [] OTHER -> Goto(p, c, "OK")
      /\ UNCHANGED <<rd, toServer, srv>>
  BY DEF rdscommReply, At, diskVars
<1>2. /\ "rds" \in Procs /\ "rds" \notin Users /\ Users \subseteq Procs
      /\ call \in [Procs -> CallType] /\ call[p] \in CallType /\ r \in ReplyType
      /\ "OK" \in Places /\ "SYSERR" \in Places /\ x \in BOOLEAN
      /\ \A q \in Procs : q \in Users \/ q = "rds"
  BY <1>1, WireTypes DEF TypeInv, CallInv, NetType, Places
<1>3. c \in CallType /\ c.msg = m
  <2>1. (IF r.data = "none" THEN call[p].resp ELSE r.data) \in Data
    BY <1>2 DEF CallType, ReplyType
  <2> QED
    BY <1>2, <2>1 DEF CallType
<1>4. RoleInv /\ SeqInv /\ OwnInv /\ StartInv /\ CopyInv
  BY DEF WireInv
<1> HIDE DEF c
<1>5. /\ call'[p].at \in {"send", "SYSERR", "OK"} /\ call'[p].msg = m
      /\ \A q \in Procs : q # p => call'[q] = call[q]
      /\ call'[p].at = "send" => Mismatch(r, m) /\ call'[p].xmit = x
      /\ call'[p].at = "OK" => ~Mismatch(r, m)
  <2>1. CASE Mismatch(r, m)
    <3>1. Again(p, c, x)
      BY <1>1, <2>1
    <3> QED
      BY <1>2, <1>3, <2>1, <3>1, AgainPlace
  <2>2. CASE ~Mismatch(r, m)
    <3>1. Goto(p, c, "SYSERR") \/ Goto(p, c, "OK")
      BY <1>1, <2>2
    <3>2. CASE Goto(p, c, "SYSERR")
      <4>1. call'[p].at = "SYSERR" /\ call'[p].msg = c.msg
            /\ \A q \in Procs : q # p => call'[q] = call[q]
        BY <1>2, <1>3, <3>2, GotoType
      <4> QED
        BY <1>3, <4>1
    <3>3. CASE Goto(p, c, "OK")
      <4>1. call'[p].at = "OK" /\ call'[p].msg = c.msg
            /\ \A q \in Procs : q # p => call'[q] = call[q]
        BY <1>2, <1>3, <3>3, GotoType
      <4> QED
        BY <1>3, <2>2, <4>1
    <3> QED
      BY <3>1, <3>2, <3>3
  <2> QED
    BY <2>1, <2>2
<1>6. /\ \A q \in Procs : Exchanging(q)' <=> Exchanging(q)
      /\ \A q \in Procs : call'[q].msg = call[q].msg
      /\ Exchanging(p)
  BY <1>1, <1>5 DEF Exchanging, Talking
<1>7. RoleInv'
  BY <1>2, <1>4, <1>6 DEF RoleInv
<1>8. SeqInv'
  BY <1>1, <1>4, <1>6 DEF SeqInv
<1>9. OwnInv'
  BY <1>1, <1>2, <1>4, <1>6 DEF OwnInv
<1>10. StartInv'
  <2>1. \A q \in Users : First(q)' <=> First(q)
    BY <1>2, <1>6 DEF First
  <2>2. ASSUME NEW q \in Users, First(q) PROVE Alone(q)'
    <3>1. Alone(q)
      BY <1>4, <2>2 DEF StartInv
    <3>2. q = p
      BY <1>1, <3>1 DEF Alone
    <3>3. /\ toServer = {} /\ toClient' = {} /\ r.type = "OREQ" /\ r.seq = 1
          /\ m.type = "OREQ" /\ m.seq = 1
      BY <1>1, <2>2, <3>1, <3>2 DEF Alone, First
    <3>4. ~Mismatch(r, m)
      BY <3>3 DEF Mismatch
    <3>5. call'[p].at # "send"
      BY <1>5, <3>4
    <3> QED
      BY <1>1, <1>5, <3>1, <3>2, <3>3, <3>5 DEF Alone
  <2>3. Begun' <=> Begun
    BY <1>1, <2>1 DEF Begun
  <2>4. rd.seq # 1
    BY <1>1, <1>4 DEF StartInv
  <2> QED
    BY <1>1, <1>4, <2>1, <2>2, <2>3, <2>4 DEF StartInv
<1>13. call'[p].at \in Talking
  BY <1>5 DEF Talking
<1>11. CASE p # "rds"
  <2>1. call'["rds"] = call["rds"]
    BY <1>2, <1>5, <1>11
  <2>2. Answered' => Answered
    BY <1>1 DEF Answered
  <2>3. CopyInv'
    BY <1>1, <1>4, <2>1, <2>2 DEF CopyInv, Waiting, Resending
  <2> QED
    BY <1>1, <1>5, <1>7, <1>8, <1>9, <1>10, <1>13, <2>1, <2>3 DEF WireInv
<1>12. CASE p = "rds"
  <2>1. Waiting /\ m = call["rds"].msg /\ call'["rds"].msg = m /\ m.type \in OfBlock
    BY <1>1, <1>4, <1>5, <1>6, <1>12 DEF Waiting, RoleInv
  <2>2. r.seq \in Nat /\ m.seq \in Nat /\ srv.seq \in Nat
    BY <1>1, <1>2, <1>12, WireTypes
  <2>3. CASE call'["rds"].at = "OK"
    <3>1. ~Waiting' /\ r.type = m.type
      BY <1>5, <1>12, <2>3 DEF Waiting, Mismatch
    <3>2. Answered
      BY <1>1, <2>1, <3>1 DEF Answered
    <3>3. m.seq # 1 /\ (m.seq < srv.seq \/ m \notin toServer)
      BY <1>4, <1>6, <1>12, <2>1, <3>2 DEF OwnInv, CopyInv
    <3>4. \A y \in toServer : y.type \in OfBlock => y.seq < srv.seq /\ y.seq # 1
      BY <1>4, <2>1, <3>3 DEF CopyInv
    <3>5. \A s \in toClient' : s.type \notin OfBlock
      BY <1>1, <1>4, <2>1, <3>1 DEF CopyInv
    <3>6. ~Resending'
      BY <2>3 DEF Resending
    <3>7. CopyInv'
      BY <1>1, <3>1, <3>4, <3>5, <3>6 DEF CopyInv
    <3> QED
      BY <1>1, <1>5, <1>7, <1>8, <1>9, <1>10, <1>13, <2>1, <3>1, <3>2, <3>7 DEF WireInv
  <2>4. CASE call'["rds"].at # "OK"
    <3>1. Waiting'
      BY <1>5, <1>12, <2>4 DEF Waiting
    <3>2. Answered' => Answered
      BY <1>1 DEF Answered
    <3>3. ASSUME Resending' PROVE m.seq < srv.seq
      <4>1. Mismatch(r, m) /\ ~(r.seq < m.seq)
        BY <1>5, <1>12, <3>3 DEF Resending
      <4>2. r.seq > m.seq \/ (r.seq = m.seq /\ r.type # m.type)
        BY <2>2, <4>1 DEF Mismatch
      <4>3. r.seq > m.seq
        BY <1>1, <1>4, <1>6, <1>12, <4>2 DEF OwnInv
      <4>4. r.seq <= srv.seq
        BY <1>1, <1>4 DEF SeqInv
      <4> QED
        BY <2>2, <4>3, <4>4
    <3>4. CopyInv'
      BY <1>1, <1>4, <2>1, <3>1, <3>2, <3>3 DEF CopyInv
    <3> QED
      BY <1>1, <1>5, <1>7, <1>8, <1>9, <1>10, <1>13, <2>1, <3>1, <3>4 DEF WireInv
  <2> QED
    BY <2>3, <2>4
<1> QED
  BY <1>11, <1>12

\* udp_recv times out only when there is nothing left to wait for.
LEMMA rdscommTimeoutWire ==
  ASSUME Timely, TypeInv, WireInv, NEW p \in Procs, rdscommTimeout(p)
  PROVE  /\ WireInv'
         /\ call'["rds"] = call["rds"]
            \/ (Waiting /\ Waiting' /\ call'["rds"].msg = call["rds"].msg)
<1>1. /\ call[p].at = "recv" /\ toServer = {} /\ toClient = {}
      /\ slot' = "none" /\ Again(p, call[p], TRUE)
      /\ UNCHANGED <<rd, toServer, toClient, srv>>
  BY DEF rdscommTimeout, At, diskVars, Timely
<1>2. /\ "rds" \in Procs /\ "rds" \notin Users /\ Users \subseteq Procs
      /\ call \in [Procs -> CallType] /\ call[p] \in CallType
  BY WireTypes DEF TypeInv, CallInv
<1>3. /\ call'[p].at \in {"send", "SYSERR"} /\ call'[p].msg = call[p].msg
      /\ \A q \in Procs : q # p => call'[q] = call[q]
  BY <1>1, <1>2, AgainType
<1>4. /\ \A q \in Procs : Exchanging(q)' <=> Exchanging(q)
      /\ \A q \in Procs : call'[q].msg = call[q].msg
      /\ RoleInv /\ SeqInv /\ OwnInv /\ StartInv /\ CopyInv
  BY <1>1, <1>3 DEF Exchanging, Talking, WireInv
<1>5. RoleInv'
  BY <1>2, <1>4 DEF RoleInv
<1>6. SeqInv'
  BY <1>1, <1>4 DEF SeqInv
<1>7. OwnInv'
  BY <1>1, <1>2, <1>4 DEF OwnInv
<1>8. StartInv'
  <2>1. \A q \in Users : First(q)' <=> First(q)
    BY <1>2, <1>4 DEF First
  <2>2. ASSUME NEW q \in Users, First(q) PROVE Alone(q)'
    <3>1. Alone(q)
      BY <1>4, <2>2 DEF StartInv
    <3>2. q = p
      BY <1>1, <3>1 DEF Alone
    <3> QED
      BY <1>1, <1>3, <3>1, <3>2 DEF Alone
  <2>3. Begun' <=> Begun
    BY <1>1, <2>1 DEF Begun
  <2>4. rd.seq # 1
    BY <1>1, <1>4 DEF StartInv
  <2> QED
    BY <1>1, <1>4, <2>1, <2>2, <2>3, <2>4 DEF StartInv
<1>9. CopyInv' /\ ~Answered'
  BY <1>1 DEF CopyInv, Answered
<1>10. call'["rds"] = call["rds"]
       \/ (Waiting /\ Waiting' /\ call'["rds"].msg = call["rds"].msg)
  BY <1>1, <1>2, <1>3 DEF Waiting
<1> QED
  BY <1>5, <1>6, <1>7, <1>8, <1>9, <1>10 DEF WireInv

\* What the server makes of a request that it does not ignore: it notes the number; only a
\* write changes the file of a disk that is open and stays open.
LEMMA Handled ==
  ASSUME NEW s, SrvSound(s), NEW m \in Wire, ~Ignored(s, m)
  PROVE  LET t == Handle(s, m).srv IN
         /\ t.seq = m.seq
         /\ t.ofiles \subseteq s.ofiles \cup ({m.id} \ BadIds)
         /\ m.id \in s.ofiles /\ m.id \in t.ofiles /\ m.id \notin BadIds =>
              t.files = IF m.type = "WREQ"
                        THEN [s.files EXCEPT ![m.id] = Written(@, m.blk, m.data)] ELSE s.files
<1> DEFINE z == [s EXCEPT !.seq = m.seq]
           Fine(t) == /\ t.seq = m.seq
                      /\ t.ofiles \subseteq s.ofiles \cup ({m.id} \ BadIds)
                      /\ m.id \in s.ofiles /\ m.id \in t.ofiles /\ m.id \notin BadIds =>
                           t.files = IF m.type = "WREQ"
                                     THEN [s.files EXCEPT ![m.id] = Written(@, m.blk, m.data)]
                                     ELSE s.files
<1>m. m.type \in Requested
  BY DEF Wire
<1>s. s = [seq |-> s.seq, ofiles |-> s.ofiles, files |-> s.files]
  BY DEF SrvSound
<1>z. /\ z = [seq |-> m.seq, ofiles |-> s.ofiles, files |-> s.files]
      /\ z.seq = m.seq /\ z.ofiles = s.ofiles /\ z.files = s.files
  BY <1>s
<1> HIDE DEF z
<1>1. /\ m.id \in BadIds => Handle(s, m) = Answer(z, snderr(m))
      /\ m.id \notin BadIds =>
           /\ m.type = "OREQ" => Handle(s, m) = rdopen(z, m)
           /\ m.type = "RREQ" => Handle(s, m) = rdread(z, m)
           /\ m.type = "WREQ" => Handle(s, m) = rdwrite(z, m)
           /\ m.type = "DREQ" => Handle(s, m) = rddelete(z, m)
  BY DEF Handle, z
<1>2. ASSUME m.id \in BadIds PROVE Fine(Handle(s, m).srv)
  BY <1>1, <1>2, <1>z DEF Answer
<1>3. ASSUME m.id \notin BadIds, m.type = "OREQ" PROVE Fine(Handle(s, m).srv)
  <2> DEFINE y == rdofile(z, m.id)
  <2>1. Handle(s, m).srv = z \/ (m.id \notin s.ofiles /\ Handle(s, m).srv = y)
    BY <1>1, <1>3, <1>z DEF rdopen, Answer
  <2>2. y.seq = m.seq /\ y.ofiles = s.ofiles \cup {m.id}
    BY <1>z DEF rdofile
  <2> HIDE DEF y
  <2> QED
    BY <1>3, <1>z, <2>1, <2>2
<1>4. ASSUME m.id \notin BadIds, m.type = "RREQ" PROVE Fine(Handle(s, m).srv)
  BY <1>1, <1>4, <1>z DEF rdread, Answer
<1>5. ASSUME m.id \notin BadIds, m.type = "WREQ" PROVE Fine(Handle(s, m).srv)
  <2> DEFINE y == [z EXCEPT !.files[m.id] = Written(@, m.blk, m.data)]
  <2>1. (m.id \notin s.ofiles /\ Handle(s, m).srv = z) \/ Handle(s, m).srv = y
    BY <1>1, <1>5, <1>z DEF rdwrite, Answer
  <2>2. /\ y.seq = m.seq /\ y.ofiles = s.ofiles
        /\ y.files = [s.files EXCEPT ![m.id] = Written(@, m.blk, m.data)]
    BY <1>z
  <2> HIDE DEF y
  <2> QED
    BY <1>5, <1>z, <2>1, <2>2
<1>6. ASSUME m.id \notin BadIds, m.type = "DREQ" PROVE Fine(Handle(s, m).srv)
  <2> DEFINE x == [z EXCEPT !.ofiles = @ \ {m.id}]
             y == [z EXCEPT !.ofiles = @ \ {m.id},
                            !.files = [d \in DOMAIN @ \ {m.id} |-> @[d]]]
  <2>1. Handle(s, m).srv = x \/ Handle(s, m).srv = y
    BY <1>1, <1>6 DEF rddelete, Answer
  <2>2. x.seq = m.seq /\ x.ofiles = s.ofiles \ {m.id}
    BY <1>z
  <2>3. y.seq = m.seq /\ y.ofiles = s.ofiles \ {m.id}
    BY <1>z
  <2> HIDE DEF x, y
  <2> QED
    BY <2>1, <2>2, <2>3
<1> QED
  BY <1>m, <1>2, <1>3, <1>4, <1>5, <1>6 DEF Requested

\* The server never goes back to an older number.
LEMMA NotOlder ==
  ASSUME TypeInv, WireInv, NEW m \in toServer, ~Ignored(srv, m)
  PROVE  m.seq >= srv.seq
<1>1. m.seq \in Nat /\ srv.seq \in Nat /\ rd.seq \in Nat /\ SeqInv /\ StartInv
  BY WireTypes DEF WireInv
<1>2. CASE m.seq = 1
  <2>1. rd.seq # 1
    BY <1>1 DEF StartInv
  <2>2. ~Begun
    BY <1>1, <1>2 DEF StartInv
  <2>3. PICK p \in Users : First(p)
    BY <2>1, <2>2 DEF Begun
  <2>4. rd.seq = 2
    BY <1>1, <2>3 DEF StartInv, Alone
  <2> QED
    BY <1>1, <1>2, <2>4 DEF SeqInv
<1>3. CASE m.seq # 1
  BY <1>1, <1>3 DEF Ignored, SeqInv
<1> QED
  BY <1>2, <1>3

\* The server handles a message.
LEMMA ServeWire ==
  ASSUME TypeInv, WireInv, NEW m, Serve(m)
  PROVE  WireInv'
<1> DEFINE a == Handle(srv, m)
<1>1. /\ m \in toServer /\ toServer' = toServer \ {m} /\ srv' = a.srv
      /\ toClient' = IF a.reply = NoReply THEN toClient ELSE toClient \cup {a.reply}
      /\ UNCHANGED <<rd, call, slot>>
  BY DEF Serve, diskVars
<1>2. /\ m \in Wire /\ SrvSound(srv) /\ srv.seq \in Nat /\ rd.seq \in Nat /\ m.seq \in Nat
      /\ "rds" \in Procs /\ Users \subseteq Procs
      /\ \A y \in toServer : y.seq \in Nat
      /\ \A r \in toClient : r.seq \in Nat
      /\ \A p \in Procs : call[p].msg.seq \in Nat
  BY <1>1, WireTypes DEF TypeInv, SrvType
<1>3. CASE Ignored(srv, m)
  <2>1. a.srv = srv /\ a.reply = NoReply
    BY <1>3 DEF Handle, Answer
  <2> HIDE DEF a
  <2>2. toServer' \subseteq toServer /\ toClient' \subseteq toClient /\ UNCHANGED <<rd, call, slot, srv>>
    BY <1>1, <2>1
  <2> QED
    BY <2>2, LoseWire
<1>4. CASE ~Ignored(srv, m)
  <2> DEFINE t == a.reply
  <2>1. /\ a.srv.seq = m.seq
        /\ t = NoReply \/ (t.type = m.type /\ t.seq = m.seq)
    BY <1>2, <1>4, Handled, HandleType, ZenonT(60)
  <2> HIDE DEF a, t
  <2>2. /\ RoleInv /\ SeqInv /\ OwnInv /\ StartInv /\ CopyInv
        /\ m.seq >= srv.seq /\ srv'.seq = m.seq
        /\ \A r \in toClient' : r \in toClient \/ (r = t /\ r.type = m.type /\ r.seq = m.seq)
        /\ \A y \in toServer' : y \in toServer /\ y # m
    BY <1>1, <1>4, <2>1, NotOlder DEF WireInv, t
  <2>3. RoleInv'
    BY <1>1, <2>2 DEF RoleInv, Exchanging
  <2>4. SeqInv'
    <3>1. srv'.seq < rd'.seq /\ rd'.seq >= 1
      BY <1>1, <2>2 DEF SeqInv
    <3>2. \A y \in toServer' : y.seq >= 1 /\ y.seq < rd'.seq /\ y.id \in Ids
      BY <1>1, <2>2 DEF SeqInv
    <3>3. \A r \in toClient' : r.seq <= srv'.seq
      <4> TAKE r \in toClient'
      <4>1. CASE r \in toClient
        BY <1>2, <2>2, <4>1 DEF SeqInv
      <4>2. CASE r \notin toClient
        BY <1>2, <2>2, <4>2
      <4> QED
        BY <4>1, <4>2
    <3> QED
      BY <1>1, <2>2, <3>1, <3>2, <3>3 DEF SeqInv, Exchanging
  <2>5. OwnInv'
    <3> SUFFICES ASSUME Exchanging("rds") PROVE OwnInv'
      BY <1>1 DEF OwnInv, Exchanging
    <3>1. \A r \in toClient' : r.seq = call["rds"].msg.seq => r.type = call["rds"].msg.type
      BY <1>1, <2>2 DEF OwnInv
    <3> QED
      BY <1>1, <2>2, <3>1 DEF OwnInv, Exchanging
  <2>6. StartInv'
    <3>1. \A q \in Users : First(q)' <=> First(q)
      BY <1>1 DEF First, Exchanging
    <3>2. ASSUME NEW q \in Users, First(q) PROVE Alone(q)'
      <4>1. Alone(q) /\ call[q].msg.seq = 1 /\ call[q].msg.type = "OREQ"
        BY <2>2, <3>2 DEF StartInv, First, Alone
      <4>2. toClient = {} /\ toServer \subseteq {m} /\ m = call[q].msg
        BY <1>1, <4>1 DEF Alone
      <4>3. toServer' = {} /\ \A r \in toClient' : r = t /\ r.type = "OREQ" /\ r.seq = 1
        BY <1>1, <2>2, <4>1, <4>2
      <4>4. call[q].at = "recv"
        BY <1>1, <4>1 DEF Alone
      <4> QED
        BY <1>1, <4>1, <4>3, <4>4 DEF Alone
    <3>3. Begun' <=> Begun
      BY <1>1, <3>1 DEF Begun
    <3>4. rd.seq # 1
      BY <1>1, <2>2 DEF StartInv
    <3> QED
      BY <1>1, <2>2, <3>1, <3>2, <3>3, <3>4 DEF StartInv
  <2>7. CopyInv'
    <3> DEFINE w == call["rds"].msg
    <3>1. /\ Waiting' <=> Waiting
          /\ Resending' <=> Resending
          /\ call' = call
      BY <1>1 DEF Waiting, Resending
    <3>2. w.seq \in Nat /\ (w.seq < srv.seq => w.seq < srv'.seq)
      BY <1>2, <2>2
    <3>3. m.type \in OfBlock => Waiting /\ m = w
      BY <1>1, <1>2, <2>2 DEF CopyInv
    <3>4. m.type \in OfBlock => ~Answered /\ ~Resending
      <4> SUFFICES ASSUME m.type \in OfBlock, Answered \/ Resending PROVE FALSE
        OBVIOUS
      <4>1. w.seq < srv.seq \/ w \notin toServer
        BY <2>2, <3>3 DEF CopyInv
      <4> QED
        BY <1>1, <1>2, <2>2, <3>3, <4>1
    <3>5. \A y \in toServer' : y.type \in OfBlock =>
             (y.seq < srv'.seq /\ y.seq # 1) \/ (Waiting /\ y = w)
      <4> TAKE y \in toServer'
      <4>1. y \in toServer /\ y.seq \in Nat /\ (y.seq < srv.seq => y.seq < srv'.seq)
        BY <1>2, <2>2
      <4> QED
        BY <2>2, <4>1 DEF CopyInv
    <3>6. \A r \in toClient' : r.type \in OfBlock =>
             /\ Waiting /\ r.seq = w.seq
             /\ \A s \in toClient' : s.type \in OfBlock => s = r
      <4>1. CASE m.type \in OfBlock
        BY <2>2, <3>3, <3>4, <4>1 DEF Answered
      <4>2. CASE m.type \notin OfBlock
        <5>1. \A r \in toClient' : r.type \in OfBlock => r \in toClient
          BY <2>2, <4>2
        <5> QED
          BY <2>2, <5>1 DEF CopyInv
      <4> QED
        BY <4>1, <4>2
    <3>7. Answered' => Answered \/ m.type \in OfBlock
      BY <2>2 DEF Answered
    <3>8. Waiting /\ (Answered' \/ Resending) => w.seq < srv'.seq \/ w \notin toServer'
      <4> SUFFICES ASSUME Waiting, Answered' \/ Resending PROVE w.seq < srv'.seq \/ w \notin toServer'
        OBVIOUS
      <4>1. CASE Answered \/ Resending
        BY <1>1, <2>2, <3>2, <4>1 DEF CopyInv
      <4>2. CASE m.type \in OfBlock
        BY <2>2, <3>3, <4>2
      <4> QED
        BY <3>7, <4>1, <4>2
    <3>9. Resending /\ Answered' => w.seq < srv'.seq
      BY <2>2, <3>2, <3>4, <3>7 DEF CopyInv
    <3> HIDE DEF w
    <3>10. w' = w
      BY <3>1 DEF w
    <3> QED
      BY <3>1, <3>5, <3>6, <3>8, <3>9 DEF CopyInv, w
  <2> QED
    BY <2>3, <2>4, <2>5, <2>6, <2>7 DEF WireInv
<1> QED
  BY <1>3, <1>4

----------------------------------------------------------------------------
\* The newest writes.

\* Steps that put no write on the queue and take none off it.
LEMMA DataCalm ==
  ASSUME OpenInv, SoleInv, KeptInv, UNCHANGED <<latest, srv>>,
         \A k \in Blocks : latest[k] # "none" => rd'.id = rd.id,
         \A b \in Bufs : \A k \in Blocks : Unsent(b, k)' <=> Unsent(b, k),
         \A b \in Bufs : \A k \in Blocks : Unsent(b, k) => bufs'[b].data = bufs[b].data,
         \A p \in Users : \A k \in Blocks : ToWrite(p, k)' =>
            ToWrite(p, k) \/ (/\ k \in Mine[p] /\ \A b \in Bufs : ~Unsent(b, k)
                              /\ \A q \in Users : q # p => ~ToWrite(q, k)'),
         \A k \in Blocks : Sending(k)' =>
            Sending(k) /\ call'["rds"].msg.data = call["rds"].msg.data,
         \A k \in Blocks : Sending(k) /\ ~Sending(k)' => Answered,
         Answered' => Answered
  PROVE  OpenInv' /\ SoleInv' /\ KeptInv'
<1>1. OpenInv'
  BY DEF OpenInv
<1>2. SoleInv'
  <2>1. ASSUME NEW k \in Blocks, NEW b \in Bufs, NEW c \in Bufs, Unsent(b, k)', Unsent(c, k)'
        PROVE  b = c
    <3>1. Unsent(b, k) /\ Unsent(c, k)
      BY <2>1
    <3> QED
      BY <3>1 DEF SoleInv
  <2>2. ASSUME NEW p \in Users, NEW k \in Blocks, ToWrite(p, k)'
        PROVE  /\ k \in Mine[p] /\ \A b \in Bufs : ~Unsent(b, k)'
               /\ \A q \in Users : q # p => ~ToWrite(q, k)'
    <3>1. k \in Mine[p] /\ \A b \in Bufs : ~Unsent(b, k)
      BY <2>2 DEF SoleInv
    <3>2. ASSUME NEW q \in Users, q # p, ToWrite(q, k)' PROVE FALSE
      <4>1. ToWrite(p, k) /\ ToWrite(q, k)
        BY <2>2, <3>2
      <4> QED
        BY <3>2, <4>1 DEF SoleInv
    <3> QED
      BY <3>1, <3>2
  <2> QED
    BY <2>1, <2>2 DEF SoleInv
<1>3. KeptInv'
  <2> SUFFICES ASSUME NEW k \in Blocks, latest[k] # "none"
               PROVE  /\ \A b \in Bufs : Unsent(b, k)' => bufs'[b].data = latest[k]
                      /\ (\A b \in Bufs : ~Unsent(b, k)') =>
                           /\ Sending(k)' => call'["rds"].msg.data = latest[k]
                           /\ ~Sending(k)' \/ Answered' => InFile(k)'
    BY DEF KeptInv
  <2>1. /\ \A b \in Bufs : Unsent(b, k) => bufs[b].data = latest[k]
        /\ (\A b \in Bufs : ~Unsent(b, k)) =>
             /\ Sending(k) => call["rds"].msg.data = latest[k]
             /\ ~Sending(k) \/ Answered => InFile(k)
    BY DEF KeptInv
  <2>2. rd'.id = rd.id /\ (InFile(k)' <=> InFile(k))
    BY DEF InFile
  <2>3. \A b \in Bufs : Unsent(b, k)' => bufs'[b].data = latest[k]
    BY <2>1
  <2>4. ASSUME \A b \in Bufs : ~Unsent(b, k)'
        PROVE  /\ Sending(k)' => call'["rds"].msg.data = latest[k]
               /\ ~Sending(k)' \/ Answered' => InFile(k)'
    <3>1. \A b \in Bufs : ~Unsent(b, k)
      BY <2>4
    <3> QED
      BY <2>1, <2>2, <3>1
  <2> QED
    BY <2>3, <2>4
<1> QED
  BY <1>1, <1>2, <1>3

\* The request at the head of the queue stays there.
LEMMA HeadStays ==
  ASSUME AskInv, ListInv, HeadInv,
         Exchanging("rds")' /\ call'["rds"].msg.type = "RREQ" =>
            Exchanging("rds") /\ call["rds"].msg.type = "RREQ",
         rd'.reqq = rd.reqq \/ \E b \in Bufs : rd'.reqq = Append(rd.reqq, b),
         \A b \in Bufs : Has(rd.reqq, b) => bufs'[b].op = bufs[b].op
  PROVE  HeadInv'
<1> SUFFICES ASSUME Exchanging("rds")', call'["rds"].msg.type = "RREQ"
             PROVE  bufs'[Head(rd'.reqq)].op = "READ"
  BY DEF HeadInv
<1>1. Exchanging("rds") /\ call["rds"].msg.type = "RREQ" /\ rd.reqq \in Seq(Bufs)
  BY DEF ListInv, Divided
<1>2. rd.reqq # << >> /\ bufs[Head(rd.reqq)].op = "READ"
  BY <1>1 DEF AskInv, HeadInv, Exchanging, Talking
<1>3. Head(rd'.reqq) = Head(rd.reqq)
  BY <1>1, <1>2
<1>4. Head(rd.reqq) \in Bufs /\ Has(rd.reqq, Head(rd.reqq))
  <2>1. 1 \in 1..Len(rd.reqq) /\ Head(rd.reqq) = rd.reqq[1]
    BY <1>1, <1>2
  <2> QED
    BY <1>1, <2>1 DEF Has
<1> QED
  BY <1>2, <1>3, <1>4

\* Steps of a user that leave the queue and the network alone.
LEMMA UserData ==
  ASSUME TypeInv, ListInv, AskInv, DataInv, NEW p \in Users,
         \A q \in Procs : q # p => call'[q] = call[q],
         \A k \in Blocks : ToWrite(p, k)' => /\ k \in Mine[p] /\ \A b \in Bufs : ~Unsent(b, k)
                                             /\ \A q \in Users : ~ToWrite(q, k),
         \A k \in Blocks : latest[k] # "none" => rd'.id = rd.id,
         rd'.reqq = rd.reqq,
         \A b \in Bufs : Has(rd.reqq, b) =>
            bufs'[b].op = bufs[b].op /\ bufs'[b].blk = bufs[b].blk /\ bufs'[b].data = bufs[b].data,
         UNCHANGED <<latest, srv, toClient>>
  PROVE  DataInv'
<1>1. "rds" \in Procs /\ "rds" # p /\ Users \subseteq Procs
  BY WireTypes
<1>2. call'["rds"] = call["rds"]
  BY <1>1
<1>3. /\ Waiting' <=> Waiting
      /\ \A k \in Blocks : Sending(k)' <=> Sending(k)
      /\ Answered' <=> Answered
      /\ Exchanging("rds")' <=> Exchanging("rds")
  BY <1>2 DEF Waiting, Sending, Answered, Exchanging
<1>4. \A b \in Bufs : \A k \in Blocks : Unsent(b, k)' <=> Unsent(b, k)
  BY DEF Unsent
<1>5. \A b \in Bufs : \A k \in Blocks : Unsent(b, k) => bufs'[b].data = bufs[b].data
  BY DEF Unsent
<1>6. \A q \in Users : \A k \in Blocks : ToWrite(q, k)' =>
         ToWrite(q, k) \/ (/\ k \in Mine[q] /\ \A b \in Bufs : ~Unsent(b, k)
                           /\ \A u \in Users : u # q => ~ToWrite(u, k)')
  <2>1. \A q \in Users : \A k \in Blocks : q # p => (ToWrite(q, k)' <=> ToWrite(q, k))
    BY <1>1 DEF ToWrite
  <2> QED
    BY <2>1
<1>7. OpenInv' /\ SoleInv' /\ KeptInv'
  BY <1>2, <1>3, <1>4, <1>5, <1>6, DataCalm DEF DataInv
<1>8. HeadInv'
  BY <1>2, <1>3, HeadStays DEF DataInv
<1> QED
  BY <1>7, <1>8 DEF DataInv

----------------------------------------------------------------------------
\* The steps of the network.

LEMMA CommData ==
  ASSUME TypeInv, ListInv, AskInv, DataInv, NEW p \in Procs,
         call[p].at \in {"send", "recv"}, call'[p].at \in Talking,
         \A q \in Procs : q # p => call'[q] = call[q],
         call'["rds"] = call["rds"]
            \/ (Waiting /\ Waiting' /\ call'["rds"].msg = call["rds"].msg)
            \/ (Waiting /\ Answered /\ ~Waiting' /\ call'["rds"].msg = call["rds"].msg),
         toClient' \subseteq toClient,
         UNCHANGED <<rd, bufs, latest, srv>>
  PROVE  DataInv'
<1>1. /\ Answered' => Answered
      /\ \A k \in Blocks : Sending(k)' =>
            Sending(k) /\ call'["rds"].msg.data = call["rds"].msg.data
      /\ \A k \in Blocks : Sending(k) /\ ~Sending(k)' => Answered
  BY DEF Answered, Sending, Waiting
<1>2. \A b \in Bufs : \A k \in Blocks : Unsent(b, k)' <=> Unsent(b, k)
  BY DEF Unsent
<1>3. \A q \in Users : \A k \in Blocks : ToWrite(q, k)' => ToWrite(q, k)
  BY WireTypes DEF Talking, ToWrite
<1>4. OpenInv' /\ SoleInv' /\ KeptInv'
  BY <1>1, <1>2, <1>3, DataCalm DEF DataInv
<1>5. Exchanging("rds")' /\ call'["rds"].msg.type = "RREQ" =>
         Exchanging("rds") /\ call["rds"].msg.type = "RREQ"
  BY DEF Exchanging, Waiting, Talking
<1>6. HeadInv'
  BY <1>5, HeadStays DEF DataInv
<1> QED
  BY <1>4, <1>6 DEF DataInv

LEMMA rdscommKeeps ==
  ASSUME DiskInv, WireInv, DataInv, NEW p \in Procs, rdscomm(p)
  PROVE  WireInv' /\ DataInv'
<1>1. /\ call[p].at = "send"
      /\ Goto(p, call[p], "recv") \/ Goto(p, call[p], "SYSERR")
      /\ UNCHANGED <<rd, bufs, latest, toClient, srv>>
  BY DEF rdscomm, At, diskVars, ghosts
<1>2. /\ TypeInv /\ ListInv /\ AskInv
      /\ call \in [Procs -> CallType] /\ call[p] \in CallType
      /\ "recv" \in Places /\ "SYSERR" \in Places /\ "rds" \in Procs
  BY WireTypes DEF DiskInv, TypeInv, CallInv, Places
<1>3. /\ call'[p].at \in {"recv", "SYSERR"} /\ call'[p].msg = call[p].msg
      /\ \A q \in Procs : q # p => call'[q] = call[q]
  BY <1>1, <1>2, GotoType
<1>4. call'["rds"] = call["rds"]
      \/ (Waiting /\ Waiting' /\ call'["rds"].msg = call["rds"].msg)
  BY <1>1, <1>2, <1>3 DEF Waiting
<1>5. DataInv'
  BY <1>1, <1>2, <1>3, <1>4, CommData DEF Talking
<1> QED
  BY <1>2, <1>5, rdscommWire

LEMMA rdscommReplyKeeps ==
  ASSUME DiskInv, WireInv, DataInv, NEW p \in Procs, NEW r, rdscommReply(p, r)
  PROVE  WireInv' /\ DataInv'
<1>1. TypeInv /\ ListInv /\ AskInv
  BY DEF DiskInv
<1>2. /\ WireInv'
      /\ call[p].at = "recv" /\ call'[p].at \in Talking
      /\ \A q \in Procs : q # p => call'[q] = call[q]
      /\ call'["rds"] = call["rds"]
         \/ (Waiting /\ Waiting' /\ call'["rds"].msg = call["rds"].msg)
         \/ (Waiting /\ Answered /\ ~Waiting' /\ call'["rds"].msg = call["rds"].msg)
  BY <1>1, rdscommReplyWire
<1>3. toClient' \subseteq toClient /\ UNCHANGED <<rd, bufs, latest, srv>>
  BY DEF rdscommReply, diskVars, ghosts
<1>4. DataInv'
  BY <1>1, <1>2, <1>3, CommData
<1> QED
  BY <1>2, <1>4

LEMMA rdscommTimeoutKeeps ==
  ASSUME Timely, DiskInv, WireInv, DataInv, NEW p \in Procs, rdscommTimeout(p)
  PROVE  WireInv' /\ DataInv'
<1>1. /\ call[p].at = "recv" /\ Again(p, call[p], TRUE)
      /\ UNCHANGED <<rd, bufs, latest, toClient, srv>>
  BY DEF rdscommTimeout, At, diskVars, ghosts
<1>2. /\ TypeInv /\ ListInv /\ AskInv
      /\ call \in [Procs -> CallType] /\ call[p] \in CallType
  BY WireTypes DEF DiskInv, TypeInv, CallInv
<1>3. /\ call'[p].at \in {"send", "SYSERR"}
      /\ \A q \in Procs : q # p => call'[q] = call[q]
  BY <1>1, <1>2, AgainType
<1>4. /\ WireInv'
      /\ call'["rds"] = call["rds"]
         \/ (Waiting /\ Waiting' /\ call'["rds"].msg = call["rds"].msg)
  BY <1>2, rdscommTimeoutWire
<1>5. DataInv'
  BY <1>1, <1>2, <1>3, <1>4, CommData DEF Talking
<1> QED
  BY <1>4, <1>5

LEMMA LoseKeeps ==
  ASSUME DiskInv, WireInv, DataInv, Lose
  PROVE  WireInv' /\ DataInv'
<1>1. /\ toServer' \subseteq toServer /\ toClient' \subseteq toClient
      /\ UNCHANGED <<rd, bufs, call, slot, latest, srv>>
  BY DEF Lose, diskVars, ghosts
<1>2. TypeInv /\ ListInv /\ AskInv
  BY DEF DiskInv
<1>3. WireInv'
  BY <1>1, <1>2, LoseWire
<1>4. /\ Answered' => Answered
      /\ \A k \in Blocks : Sending(k)' <=> Sending(k)
      /\ \A b \in Bufs : \A k \in Blocks : Unsent(b, k)' <=> Unsent(b, k)
  BY <1>1 DEF Answered, Sending, Waiting, Unsent
<1>7. \A q \in Users : \A k \in Blocks : ToWrite(q, k)' <=> ToWrite(q, k)
  BY <1>1 DEF ToWrite
<1>5. OpenInv' /\  SoleInv' /\ KeptInv'
  BY <1>1, <1>4, <1>7, DataCalm DEF DataInv
<1>6. HeadInv'
  BY <1>1 DEF DataInv, HeadInv, Exchanging
<1> QED
  BY <1>3, <1>5, <1>6 DEF DataInv

\* What a block that is written leaves of the others.
LEMMA WrittenBlocks ==
  ASSUME NEW f \in Seq(Data), NEW k \in Nat, NEW v \in Data
  PROVE  /\ k < Len(Written(f, k, v)) /\ Written(f, k, v)[k + 1] = v
         /\ \A j \in Nat : j # k /\ j < Len(f) =>
              j < Len(Written(f, k, v)) /\ Written(f, k, v)[j + 1] = f[j + 1]
<1> DEFINE n == IF k + 1 > Len(f) THEN k + 1 ELSE Len(f)
           e(i) == IF i = k + 1 THEN v ELSE IF i <= Len(f) THEN f[i] ELSE "zero"
<1>1. Len(f) \in Nat /\ n \in Nat /\ n >= k + 1 /\ n >= Len(f)
  OBVIOUS
<1>2. Written(f, k, v) = [i \in 1..n |-> e(i)]
  BY DEF Written
<1> HIDE DEF n
<1>3. Len(Written(f, k, v)) = n /\ \A i \in 1..n : Written(f, k, v)[i] = e(i)
  BY <1>1, <1>2
<1>4. k + 1 \in 1..n /\ k < n
  BY <1>1
<1>5. ASSUME NEW j \in Nat, j # k, j < Len(f) PROVE j + 1 \in 1..n /\ j < n /\ e(j + 1) = f[j + 1]
  BY <1>1, <1>5
<1> QED
  BY <1>3, <1>4, <1>5

\* A request for a block that the server does not ignore is the one rdsprocess waits for.
LEMMA HandledIsCurrent ==
  ASSUME TypeInv, WireInv, NEW m \in toServer, ~Ignored(srv, m), m.type \in OfBlock
  PROVE  Waiting /\ m = call["rds"].msg
<1>1. m.seq >= srv.seq /\ m.seq \in Nat /\ srv.seq \in Nat
  BY WireTypes, NotOlder
<1> QED
  BY <1>1 DEF WireInv, CopyInv

LEMMA ServeKeeps ==
  ASSUME OneDisk, DiskInv, WireInv, DataInv, NEW m, Serve(m)
  PROVE  WireInv' /\ DataInv'
<1> DEFINE a == Handle(srv, m)
<1>1. /\ m \in toServer /\ srv' = a.srv
      /\ toClient' = IF a.reply = NoReply THEN toClient ELSE toClient \cup {a.reply}
      /\ IF m.id \in a.srv.ofiles THEN UNCHANGED latest
         ELSE latest' = [k \in Blocks |-> "none"]
      /\ UNCHANGED <<rd, bufs, call, slot>>
  BY DEF Serve, diskVars
<1>2. /\ m \in Wire /\ SrvSound(srv) /\ m.id \in Ids /\ m.blk \in Nat /\ m.data \in Data
      /\ m.type \in Requested
      /\ TypeInv /\ WireInv' /\ Blocks \subseteq Nat
  BY <1>1, WireTypes, ServeWire, RdsAssumption
     DEF TypeInv, SrvType, DiskInv, WireInv, SeqInv, Wire
<1>3. /\ OpenInv /\ SoleInv /\ KeptInv /\ HeadInv
      /\ \A b \in Bufs : \A k \in Blocks : Unsent(b, k)' <=> Unsent(b, k)
      /\ \A q \in Users : \A k \in Blocks : ToWrite(q, k)' <=> ToWrite(q, k)
      /\ \A k \in Blocks : Sending(k)' <=> Sending(k)
  BY <1>1 DEF DataInv, Unsent, ToWrite, Sending, Waiting
<1>4. HeadInv'
  BY <1>1, <1>3 DEF HeadInv, Exchanging
<1>5. SoleInv'
  BY <1>3 DEF SoleInv
<1>6. srv'.ofiles \subseteq srv.ofiles \cup ({m.id} \ BadIds)
  <2>1. CASE Ignored(srv, m)
    BY <1>1, <2>1 DEF Handle, Answer
  <2>2. CASE ~Ignored(srv, m)
    BY <1>1, <1>2, <2>2, Handled
  <2> QED
    BY <2>1, <2>2
<1>7. srv'.ofiles \subseteq Ids /\ srv'.ofiles \cap BadIds = {}
  BY <1>2, <1>3, <1>6 DEF OpenInv
<1>8. CASE m.id \notin a.srv.ofiles
  <2>1. \A k \in Blocks : latest'[k] = "none"
    BY <1>1, <1>8
  <2>2. OpenInv' /\ KeptInv'
    BY <1>7, <2>1 DEF OpenInv, KeptInv
  <2> QED
    BY <1>2, <1>4, <1>5, <2>2 DEF DataInv
<1>9. CASE m.id \in a.srv.ofiles
  <2>1. UNCHANGED latest
    BY <1>1, <1>9
  <2>2. ASSUME NEW k \in Blocks, latest[k] # "none"
        PROVE  /\ rd.id = m.id /\ m.id \in srv.ofiles /\ m.id \notin BadIds
               /\ srv.files[m.id] \in Seq(Data)
    <3>1. rd.id \in srv.ofiles /\ rd.id \in Ids /\ rd.id \notin BadIds
      BY <1>3, <2>2 DEF OpenInv
    <3>2. rd.id = m.id
      BY <1>2, <3>1 DEF OneDisk
    <3>3. srv.files[m.id] \in Seq(Data)
      BY <1>2, <3>1, <3>2 DEF SrvSound
    <3> QED
      BY <3>1, <3>2, <3>3
  <2>3. OpenInv'
    <3> SUFFICES ASSUME NEW k \in Blocks, latest'[k] # "none" PROVE rd'.id \in srv'.ofiles
      BY <1>7 DEF OpenInv
    <3> QED
      BY <1>1, <1>9, <2>1, <2>2
  <2>4. KeptInv'
    <3> SUFFICES ASSUME NEW k \in Blocks, latest[k] # "none",
                        \A b \in Bufs : ~Unsent(b, k), ~Sending(k) \/ Answered'
                 PROVE  InFile(k)'
      BY <1>1, <1>3, <2>1 DEF KeptInv
    <3>1. /\ rd.id = m.id /\ m.id \in srv.ofiles /\ m.id \notin BadIds
          /\ srv.files[m.id] \in Seq(Data) /\ k \in Nat
          /\ Sending(k) => call["rds"].msg.data = latest[k]
          /\ ~Sending(k) \/ Answered => InFile(k)
      BY <1>2, <1>3, <2>2 DEF KeptInv
    <3>2. ASSUME srv'.files = srv.files, InFile(k) PROVE InFile(k)'
      BY <1>1, <2>1, <3>2 DEF InFile
    <3>3. CASE Ignored(srv, m)
      <4>1. srv' = srv /\ toClient' = toClient
        BY <1>1, <3>3 DEF Handle, Answer
      <4>2. ~Sending(k) \/ Answered
        BY <4>1 DEF Answered
      <4> QED
        BY <3>1, <3>2, <4>1, <4>2
    <3>4. CASE ~Ignored(srv, m) /\ m.type # "WREQ"
      <4>1. srv'.files = srv.files
        BY <1>1, <1>2, <1>9, <3>1, <3>4, Handled
      <4>2. Answered' => Answered \/ m.type \in OfBlock
        BY <1>1, <1>2, HandleType DEF Answered
      <4>3. m.type \in OfBlock => ~Sending(k)
        BY <1>1, <1>2, <3>4, HandledIsCurrent DEF Sending
      <4> QED
        BY <3>1, <3>2, <4>1, <4>2, <4>3
    <3>5. CASE ~Ignored(srv, m) /\ m.type = "WREQ"
      <4> DEFINE w == Written(srv.files[m.id], m.blk, m.data)
      <4>1. Waiting /\ m = call["rds"].msg
        BY <1>1, <1>2, <3>5, HandledIsCurrent DEF OfBlock
      <4>2. srv'.files = [srv.files EXCEPT ![m.id] = w]
        BY <1>1, <1>2, <1>9, <3>1, <3>5, Handled
      <4>3. srv'.files[m.id] = w
        BY <1>2, <3>1, <4>2 DEF SrvSound
      <4>4. /\ m.blk < Len(w) /\ w[m.blk + 1] = m.data
            /\ \A j \in Nat : j # m.blk /\ j < Len(srv.files[m.id]) =>
                 j < Len(w) /\ w[j + 1] = srv.files[m.id][j + 1]
        BY <1>2, <3>1, WrittenBlocks
      <4> HIDE DEF w
      <4>5. CASE k = m.blk
        <5>1. Sending(k)
          BY <3>5, <4>1, <4>5 DEF Sending
        <5> QED
          BY <1>1, <2>1, <3>1, <4>1, <4>3, <4>4, <4>5, <5>1 DEF InFile
      <4>6. CASE k # m.blk
        <5>1. ~Sending(k)
          BY <4>1, <4>6 DEF Sending
        <5>2. InFile(k)
          BY <3>1, <5>1
        <5> QED
          BY <1>1, <2>1, <3>1, <4>3, <4>4, <4>6, <5>2 DEF InFile
      <4> QED
        BY <4>5, <4>6
    <3> QED
      BY <3>3, <3>4, <3>5
  <2> QED
    BY <1>2, <1>4, <1>5, <2>3, <2>4 DEF DataInv
<1> QED
  BY <1>8, <1>9

----------------------------------------------------------------------------
\* The steps of a user.

\* A step of a process that exchanges nothing, after the first exchange.
LEMMA StepWire ==
  ASSUME TypeInv, WireInv, Begun, NEW p \in Procs, ~Exchanging(p),
         call'[p] = call[p] \/ call'[p].at \notin Talking,
         \A q \in Procs : q # p => call'[q] = call[q],
         rd'.seq = rd.seq, rd'.id = rd.id, UNCHANGED <<netVars, srv>>
  PROVE  WireInv'
<1>1. rd.seq # 1 /\ \A q \in Users : ~First(q)
  BY DEF Begun
<1>2. call'["rds"] = call["rds"] \/ ~Waiting
  BY WireTypes DEF Exchanging, Talking, Waiting
<1> QED
  BY <1>1, <1>2, QuietWire

\* An exchange ends.
LEMMA EndWire ==
  ASSUME TypeInv, WireInv, NEW p \in Procs, call[p].at \in {"OK", "SYSERR"},
         p = "rds" => call[p].at = "OK", call'[p].at \notin Talking,
         \A q \in Procs : q # p => call'[q] = call[q],
         rd'.seq = rd.seq, rd'.id = rd.id, UNCHANGED <<netVars, srv>>
  PROVE  WireInv'
<1>1. StartInv /\ "rds" \in Procs /\ Users \subseteq Procs
  BY WireTypes DEF WireInv
<1>2. rd.seq # 1
  BY <1>1 DEF StartInv
<1>3. ASSUME NEW q \in Users, First(q) PROVE call'[q].at \notin Talking /\ toServer = {}
  <2>1. Alone(q)
    BY <1>1, <1>3 DEF StartInv
  <2>2. q = p
    BY <2>1 DEF Alone
  <2> QED
    BY <2>1, <2>2 DEF Alone
<1>4. call'["rds"] = call["rds"] \/ ~Waiting
  BY <1>1 DEF Waiting
<1> QED
  BY <1>2, <1>3, <1>4, QuietWire

LEMMA rdsopenKeeps ==
  ASSUME OneDisk, DiskInv, WireInv, DataInv, NEW p \in Users, NEW id \in Ids, rdsopen(p, id)
  PROVE  WireInv' /\ DataInv'
<1> DEFINE m == [NoMsg EXCEPT !.type = "OREQ", !.seq = rd.seq, !.id = id]
           c == [Idle EXCEPT !.at = "send", !.i = 1, !.msg = m]
<1>1. /\ May(p, "open") /\ rd.state = "FREE"
      /\ rd' = [rd EXCEPT !.state = "PEND", !.id = id, !.seq = @ + 1]
      /\ call' = [call EXCEPT ![p] = c]
      /\ UNCHANGED <<bufs, latest, toClient, srv, netVars>>
  BY DEF rdsopen, ghosts, netVars
<1>2. /\ call[p].at = "idle" /\ p \in Procs /\ p # "rds" /\ call \in [Procs -> CallType]
      /\ TypeInv /\ ListInv /\ AskInv /\ rd \in RdType
  BY <1>1, Called DEF TypeInv, DiskType
<1>3. c.at = "send" /\ c.msg.type = "OREQ" /\ c.msg.seq = rd.seq /\ c.msg.id = id
  BY DEF Idle, NoMsg
<1> HIDE DEF m, c
<1>4. /\ call'[p] = c /\ \A q \in Procs : q # p => call'[q] = call[q]
      /\ rd'.state = "PEND" /\ rd'.id = id /\ rd'.seq = rd.seq + 1 /\ rd'.reqq = rd.reqq
  BY <1>1, <1>2 DEF RdType
<1>5. WireInv'
  <2>1. Begun \/ (rd.seq = 1 /\ rd.reqq = << >>)
    BY <1>1, <1>2, HasBegun DEF WireInv, StartInv
  <2>2. ~Exchanging(p)
    BY <1>2 DEF Exchanging, Talking
  <2> QED
    BY <1>1, <1>2, <1>3, <1>4, <2>1, <2>2, BeginWire
<1>6. DataInv'
  <2>1. ASSUME NEW k \in Blocks, latest[k] # "none" PROVE rd'.id = rd.id
    BY <1>4, <2>1 DEF DataInv, OpenInv, OneDisk
  <2>2. \A k \in Blocks : ~ToWrite(p, k)'
    BY <1>3, <1>4 DEF ToWrite
  <2> QED
    BY <1>1, <1>2, <1>4, <2>1, <2>2, UserData
<1> QED
  BY <1>5, <1>6

LEMMA rdsopenRefusedKeeps ==
  ASSUME DiskInv, WireInv, DataInv, NEW p \in Users, rdsopenRefused(p)
  PROVE  WireInv' /\ DataInv'
<1>1. /\ May(p, "open") /\ rd.state = "FREE"
      /\ rd' = [rd EXCEPT !.state = "PEND"]
      /\ UNCHANGED <<bufs, call, latest, toClient, srv, netVars>>
  BY DEF rdsopenRefused, ghosts, netVars
<1>2. /\ call[p].at = "idle" /\ p \in Procs /\ TypeInv /\ ListInv /\ AskInv /\ rd \in RdType
  BY <1>1, Called DEF TypeInv, DiskType
<1>3. /\ rd'.state = "PEND" /\ rd'.id = rd.id /\ rd'.seq = rd.seq /\ rd'.reqq = rd.reqq
      /\ UNCHANGED <<slot, toServer>>
  BY <1>1, <1>2 DEF RdType, netVars
<1>4. WireInv'
  <2>1. RoleInv' /\ SeqInv' /\ OwnInv' /\ CopyInv'
    BY <1>1, <1>3 DEF WireInv, RoleInv, SeqInv, OwnInv, CopyInv, Exchanging, Waiting,
                      Answered, Resending
  <2>2. StartInv'
    <3>1. ASSUME NEW q \in Users, First(q) PROVE Alone(q)'
      <4>1. Alone(q)
        BY <3>1 DEF WireInv, StartInv
      <4> QED
        BY <1>1, <1>3, <4>1 DEF Alone
    <3> QED
      BY <1>1, <1>3, <3>1 DEF WireInv, StartInv, Begun, First, Exchanging
  <2> QED
    BY <2>1, <2>2 DEF WireInv
<1>5. \A k \in Blocks : ~ToWrite(p, k)'
  BY <1>1, <1>2 DEF ToWrite
<1>6. DataInv'
  BY <1>1, <1>2, <1>3, <1>5, UserData
<1> QED
  BY <1>4, <1>6

LEMMA rdsopenDoneKeeps ==
  ASSUME DiskInv, WireInv, DataInv, NEW p \in Users, rdsopenDone(p)
  PROVE  WireInv' /\ DataInv'
<1>1. /\ call[p].at \in {"OK", "SYSERR"} /\ Return(p)
      /\ rd' = [rd EXCEPT !.state = IF call[p].at = "OK" THEN "OPEN" ELSE "FREE"]
      /\ UNCHANGED <<bufs, latest, toClient, srv, netVars>>
  BY DEF rdsopenDone, At, ghosts, netVars
<1>2. /\ p \in Procs /\ p # "rds" /\ call \in [Procs -> CallType]
      /\ TypeInv /\ ListInv /\ AskInv /\ rd \in RdType
  BY WireTypes DEF DiskInv, TypeInv, DiskType, CallInv
<1>3. call'[p].at = "idle" /\ \A q \in Procs : q # p => call'[q] = call[q]
  BY <1>1, <1>2, Returned
<1>4. rd'.id = rd.id /\ rd'.seq = rd.seq /\ rd'.reqq = rd.reqq
  BY <1>1, <1>2 DEF RdType
<1>5. WireInv'
  BY <1>1, <1>2, <1>3, <1>4, EndWire DEF Talking
<1>6. \A k \in Blocks : ~ToWrite(p, k)'
  BY <1>3 DEF ToWrite
<1>7. DataInv'
  BY <1>1, <1>2, <1>3, <1>4, <1>6, UserData
<1> QED
  BY <1>5, <1>7

LEMMA rdsdeleteKeeps ==
  ASSUME DiskInv, WireInv, DataInv, NEW p \in Users, rdsdelete(p)
  PROVE  WireInv' /\ DataInv'
<1> DEFINE d == [NoMsg EXCEPT !.type = "DREQ"]
           m == [d EXCEPT !.seq = rd.seq, !.id = rd.id]
           c == [Idle EXCEPT !.msg = m, !.i = 1, !.xmit = TRUE]
           e == [c EXCEPT !.at = "send"]
<1>1. /\ May(p, "delete") /\ rd.state = "OPEN"
      /\ rd' = [rd EXCEPT !.seq = @ + 1]
      /\ call' = [call EXCEPT ![p] = e]
      /\ UNCHANGED <<bufs, latest, toClient, srv, netVars>>
  BY DEF rdsdelete, ghosts, netVars, Exchange, Goto
<1>2. /\ call[p].at = "idle" /\ p \in Procs /\ p # "rds" /\ call \in [Procs -> CallType]
      /\ TypeInv /\ ListInv /\ AskInv /\ rd \in RdType
  BY <1>1, Called DEF TypeInv, DiskType
<1>3. e.at = "send" /\ e.msg.type = "DREQ" /\ e.msg.seq = rd.seq /\ e.msg.id = rd.id
  BY DEF Idle, NoMsg
<1> HIDE DEF d, m, c, e
<1>4. /\ call'[p] = e /\ \A q \in Procs : q # p => call'[q] = call[q]
      /\ rd'.id = rd.id /\ rd'.seq = rd.seq + 1 /\ rd'.reqq = rd.reqq
  BY <1>1, <1>2 DEF RdType
<1>5. WireInv'
  <2>1. Begun /\ rd.id \in Ids
    BY <1>1, <1>2, HasBegun
  <2>2. ~Exchanging(p)
    BY <1>2 DEF Exchanging, Talking
  <2> QED
    BY <1>1, <1>2, <1>3, <1>4, <2>1, <2>2, BeginWire
<1>6. \A k \in Blocks : ~ToWrite(p, k)'
  BY <1>3, <1>4 DEF ToWrite
<1>7. DataInv'
  BY <1>1, <1>2, <1>4, <1>6, UserData
<1> QED
  BY <1>5, <1>7

\* rdsclose and a deletion move buffers to the free list, or do nothing.
LEMMA ClosedKeeps ==
  ASSUME TypeInv, ListInv, Closed
  PROVE  /\ rd'.id = rd.id /\ rd'.seq = rd.seq /\ rd'.reqq = rd.reqq
         /\ \A b \in Bufs : /\ bufs'[b].op = bufs[b].op /\ bufs'[b].blk = bufs[b].blk
                            /\ bufs'[b].data = bufs[b].data /\ bufs'[b].pid = bufs[b].pid
                            /\ bufs'[b].valid => bufs[b].valid
         /\ UNCHANGED <<rd, bufs>> \/ rd'.cache = << >>
         /\ UNCHANGED rd \/ rd.state = "OPEN"
<1>1. rd \in RdType /\ bufs \in [Bufs -> BufType]
  BY DEF TypeInv, DiskType
<1>2. CASE rd.state # "OPEN" \/ rd.reqq # << >>
  BY <1>2 DEF Closed
<1>3. CASE ~(rd.state # "OPEN" \/ rd.reqq # << >>)
  <2>1. /\ rd' = [rd EXCEPT !.state = "FREE", !.cache = << >>,
                            !.free = Reverse(rd.cache) \o @]
        /\ bufs' = [b \in Bufs |-> IF b \in Range(rd.cache)
                                   THEN [bufs[b] EXCEPT !.valid = FALSE] ELSE bufs[b]]
    BY <1>3 DEF Closed
  <2>2. rd'.id = rd.id /\ rd'.seq = rd.seq /\ rd'.reqq = rd.reqq /\ rd'.cache = << >>
    BY <1>1, <2>1 DEF RdType
  <2>3. ASSUME NEW b \in Bufs
        PROVE  /\ bufs'[b].op = bufs[b].op /\ bufs'[b].blk = bufs[b].blk
               /\ bufs'[b].data = bufs[b].data /\ bufs'[b].pid = bufs[b].pid
               /\ bufs'[b].valid => bufs[b].valid
    <3>1. bufs[b] \in BufType
      BY <1>1
    <3>2. bufs'[b] = bufs[b] \/ bufs'[b] = [bufs[b] EXCEPT !.valid = FALSE]
      BY <2>1
    <3> QED
      BY <3>1, <3>2 DEF BufType
  <2> QED
    BY <1>3, <2>2, <2>3
<1> QED
  BY <1>2, <1>3

LEMMA rdscloseKeeps ==
  ASSUME DiskInv, WireInv, DataInv, NEW p \in Users, rdsclose(p)
  PROVE  WireInv' /\ DataInv'
<1>1. /\ May(p, "close") /\ Closed
      /\ UNCHANGED <<call, latest, toClient, srv, netVars>>
  BY DEF rdsclose, ghosts, netVars
<1>2. /\ call[p].at = "idle" /\ p \in Procs /\ TypeInv /\ ListInv /\ AskInv
  BY <1>1, Called
<1>3. /\ rd'.id = rd.id /\ rd'.seq = rd.seq /\ rd'.reqq = rd.reqq
      /\ \A b \in Bufs : /\ bufs'[b].op = bufs[b].op /\ bufs'[b].blk = bufs[b].blk
                         /\ bufs'[b].data = bufs[b].data
      /\ UNCHANGED rd \/ rd.state = "OPEN"
  BY <1>1, <1>2, ClosedKeeps
<1>4. WireInv'
  <2>1. CASE UNCHANGED rd
    BY <1>1, <1>2, <2>1, IdleWire
  <2>2. CASE rd.state = "OPEN"
    <3>1. Begun /\ ~Exchanging(p)
      BY <1>2, <2>2, HasBegun DEF Exchanging, Talking
    <3> QED
      BY <1>1, <1>2, <1>3, <3>1, StepWire
  <2> QED
    BY <1>3, <2>1, <2>2
<1>5. \A k \in Blocks : ~ToWrite(p, k)'
  BY <1>1, <1>2 DEF ToWrite
<1>6. DataInv'
  BY <1>1, <1>2, <1>3, <1>5, UserData
<1> QED
  BY <1>4, <1>6

LEMMA rdsdeleteDoneKeeps ==
  ASSUME DiskInv, WireInv, DataInv, NEW p \in Users, rdsdeleteDone(p)
  PROVE  WireInv' /\ DataInv'
<1>1. /\ call[p].at \in {"OK", "SYSERR"} /\ Return(p)
      /\ IF call[p].at = "OK" THEN Closed ELSE UNCHANGED <<rd, bufs>>
      /\ UNCHANGED <<latest, toClient, srv, netVars>>
  BY DEF rdsdeleteDone, At, ghosts, netVars
<1>2. /\ p \in Procs /\ p # "rds" /\ call \in [Procs -> CallType]
      /\ TypeInv /\ ListInv /\ AskInv
  BY WireTypes DEF DiskInv, TypeInv, CallInv
<1>3. call'[p].at = "idle" /\ \A q \in Procs : q # p => call'[q] = call[q]
  BY <1>1, <1>2, Returned
<1>4. /\ rd'.id = rd.id /\ rd'.seq = rd.seq /\ rd'.reqq = rd.reqq
      /\ \A b \in Bufs : /\ bufs'[b].op = bufs[b].op /\ bufs'[b].blk = bufs[b].blk
                         /\ bufs'[b].data = bufs[b].data
  BY <1>1, <1>2, ClosedKeeps
<1>5. WireInv'
  BY <1>1, <1>2, <1>3, <1>4, EndWire DEF Talking
<1>6. \A k \in Blocks : ~ToWrite(p, k)'
  BY <1>3 DEF ToWrite
<1>7. DataInv'
  BY <1>1, <1>2, <1>3, <1>4, <1>6, UserData
<1> QED
  BY <1>5, <1>7

\* A call that waits for a buffer.
LEMMA PromiseKeeps ==
  ASSUME DiskInv, WireInv, DataInv, NEW p \in Users, call[p].at = "idle", rd.state = "OPEN",
         NEW c \in CallType, Goto(p, c, "alloc"),
         c.msg.type = "WRITE" => /\ c.blk \in Mine[p] /\ \A b \in Bufs : ~Unsent(b, c.blk)
                                 /\ \A q \in Users : ~ToWrite(q, c.blk),
         UNCHANGED <<rd, bufs, netVars, srv, latest>>
  PROVE  WireInv' /\ DataInv'
<1>1. /\ TypeInv /\ ListInv /\ AskInv /\ p \in Procs /\ call \in [Procs -> CallType]
      /\ "alloc" \in Places
  BY WireTypes DEF DiskInv, TypeInv, CallInv, Places
<1>2. /\ call'[p].at = "alloc" /\ call'[p].msg = c.msg /\ call'[p].blk = c.blk
      /\ \A q \in Procs : q # p => call'[q] = call[q]
  BY <1>1, GotoType
<1>3. Begun /\ ~Exchanging(p)
  BY <1>1, HasBegun DEF Exchanging, Talking
<1>4. WireInv'
  BY <1>1, <1>2, <1>3, StepWire DEF Talking
<1>5. \A k \in Blocks : ToWrite(p, k)' => /\ k \in Mine[p] /\ \A b \in Bufs : ~Unsent(b, k)
                                          /\ \A q \in Users : ~ToWrite(q, k)
  <2>1. \A k \in Blocks : ToWrite(p, k)' => c.msg.type = "WRITE" /\ c.blk = k
    BY <1>2 DEF ToWrite
  <2> QED
    BY <2>1
<1>6. DataInv'
  BY <1>1, <1>2, <1>5, UserData DEF netVars
<1> QED
  BY <1>4, <1>6

LEMMA rdssyncKeeps ==
  ASSUME DiskInv, WireInv, DataInv, NEW p \in Users, rdssync(p)
  PROVE  WireInv' /\ DataInv'
<1> DEFINE c == [Idle EXCEPT !.msg.type = "SYNC"]
<1>1. /\ May(p, "sync") /\ rd.state = "OPEN" /\ Goto(p, c, "alloc")
      /\ UNCHANGED <<rd, bufs, netVars, srv, latest>>
  BY DEF rdssync, ghosts
<1>2. call[p].at = "idle"
  BY <1>1 DEF May
<1>3. c \in CallType /\ c.msg.type = "SYNC"
  <2> DEFINE m == [NoMsg EXCEPT !.type = "SYNC"]
             d == [Idle EXCEPT !.msg = m]
  <2>1. m \in MsgType /\ m.type = "SYNC"
    BY IdleTypes DEF MsgType, Ops
  <2>2. c = d
    BY DEF Idle
  <2> HIDE DEF m, c
  <2>3. d \in CallType /\ d.msg = m
    BY <2>1, IdleTypes DEF CallType
  <2> QED
    BY <2>1, <2>2, <2>3
<1> HIDE DEF c
<1> QED
  BY <1>1, <1>2, <1>3, PromiseKeeps

LEMMA rdsreadKeeps ==
  ASSUME DiskInv, WireInv, DataInv, NEW p \in Users, NEW k \in Blocks, rdsread(p, k)
  PROVE  WireInv' /\ DataInv'
<1> DEFINE c == [Idle EXCEPT !.blk = k, !.msg.type = "READ"]
<1>1. /\ May(p, "read") /\ rd.state = "OPEN"
      /\ UNCHANGED call \/ Goto(p, c, "alloc")
      /\ UNCHANGED <<rd, bufs, netVars, srv, latest>>
  BY DEF rdsread
<1>2. call[p].at = "idle" /\ TypeInv /\ ListInv /\ AskInv /\ p \in Procs
  BY <1>1, Called
<1>3. CASE UNCHANGED call
  <2>1. Begun /\ ~Exchanging(p)
    BY <1>1, <1>2, HasBegun DEF Exchanging, Talking
  <2>2. WireInv'
    BY <1>1, <1>2, <1>3, <2>1, StepWire
  <2>3. \A j \in Blocks : ~ToWrite(p, j)'
    BY <1>2, <1>3 DEF ToWrite
  <2>4. DataInv'
    BY <1>1, <1>2, <1>3, <2>3, UserData DEF netVars
  <2> QED
    BY <2>2, <2>4
<1>4. CASE Goto(p, c, "alloc")
  <2>1. c \in CallType
    BY RdsAssumption, PendingRead
  <2>2. c.msg.type = "READ"
    BY DEF Idle, NoMsg
  <2> HIDE DEF c
  <2> QED
    BY <1>1, <1>2, <1>4, <2>1, <2>2, PromiseKeeps
<1> QED
  BY <1>1, <1>3, <1>4

\* A call that has waited for rdsprocess returns.
LEMMA ReturnKeeps ==
  ASSUME DiskInv, WireInv, DataInv, NEW p \in Users, call[p].at = "receive", Return(p),
         \A b \in Bufs : /\ bufs'[b].op = bufs[b].op /\ bufs'[b].blk = bufs[b].blk
                         /\ bufs'[b].data = bufs[b].data,
         UNCHANGED <<rd, netVars, srv, latest>>
  PROVE  WireInv' /\ DataInv'
<1>1. /\ TypeInv /\ ListInv /\ AskInv /\ p \in Procs /\ call \in [Procs -> CallType]
  BY WireTypes DEF DiskInv, TypeInv, CallInv
<1>2. call'[p].at = "idle" /\ \A q \in Procs : q # p => call'[q] = call[q]
  BY <1>1, Returned
<1>3. Begun /\ ~Exchanging(p)
  BY <1>1, HasBegun DEF Exchanging, Talking
<1>4. WireInv'
  BY <1>1, <1>2, <1>3, StepWire DEF Talking
<1>5. \A k \in Blocks : ~ToWrite(p, k)'
  BY <1>2 DEF ToWrite
<1>6. DataInv'
  BY <1>1, <1>2, <1>5, UserData DEF netVars
<1> QED
  BY <1>4, <1>6

LEMMA rdsreadDoneKeeps ==
  ASSUME DiskInv, WireInv, DataInv, NEW p \in Users, rdsreadDone(p)
  PROVE  WireInv' /\ DataInv'
<1>1. /\ call[p].at = "receive" /\ mbox[p] \in Bufs /\ Return(p)
      /\ bufs' = [bufs EXCEPT ![mbox[p]].refcnt = @ - 1]
      /\ UNCHANGED <<rd, netVars, srv, latest>>
  BY DEF rdsreadDone, At
<1>2. \A b \in Bufs : /\ bufs'[b].op = bufs[b].op /\ bufs'[b].blk = bufs[b].blk
                      /\ bufs'[b].data = bufs[b].data
  <2>1. bufs \in [Bufs -> BufType]
    BY DEF DiskInv, TypeInv, DiskType
  <2> QED
    BY <1>1, <2>1 DEF BufType
<1> QED
  BY <1>1, <1>2, ReturnKeeps

LEMMA rdssyncDoneKeeps ==
  ASSUME DiskInv, WireInv, DataInv, NEW p \in Users, rdssyncDone(p)
  PROVE  WireInv' /\ DataInv'
<1>1. /\ call[p].at = "receive" /\ Return(p)
      /\ UNCHANGED <<rd, bufs, netVars, srv, latest>>
  BY DEF rdssyncDone, At, diskVars, ghosts
<1> QED
  BY <1>1, ReturnKeeps

----------------------------------------------------------------------------
\* The steps of a user that put a write on the queue.

\* What a search of the queue for writes finds.
LEMMA WritesFound ==
  ASSUME ListInv, NEW k
  PROVE  /\ Writes(k) = {} => \A b \in Bufs : ~Unsent(b, k)
         /\ Writes(k) # {} => /\ rd.reqq[Min(Writes(k))] \in Bufs
                              /\ Unsent(rd.reqq[Min(Writes(k))], k)
                              /\ rd.reqq[Max(Writes(k))] \in Bufs
                              /\ Unsent(rd.reqq[Max(Writes(k))], k)
<1>1. rd.reqq \in Seq(Bufs) /\ Len(rd.reqq) \in Nat /\ DOMAIN rd.reqq = 1..Len(rd.reqq)
  BY DEF ListInv, Divided
<1>2. ASSUME NEW i \in Writes(k) PROVE rd.reqq[i] \in Bufs /\ Unsent(rd.reqq[i], k)
  BY <1>1 DEF Writes, Requests, Unsent, Has
<1>3. ASSUME NEW b \in Bufs, Unsent(b, k) PROVE Writes(k) # {}
  <2>1. PICK i \in 1..Len(rd.reqq) : rd.reqq[i] = b
    BY <1>3 DEF Unsent, Has
  <2>2. i \in Writes(k)
    BY <1>1, <1>3, <2>1 DEF Writes, Requests, Unsent
  <2> QED
    BY <2>2
<1>4. Writes(k) \subseteq 1..Len(rd.reqq) /\ Writes(k) \subseteq Nat
  BY <1>1 DEF Writes, Requests
<1>5. Writes(k) # {} => Min(Writes(k)) \in Writes(k)
  BY <1>4, LeastNat
<1>6. Writes(k) # {} => Max(Writes(k)) \in Writes(k)
  BY <1>1, <1>4, GreatestIndex
<1> QED
  BY <1>2, <1>3, <1>5, <1>6

\* What is noted of a write: nothing, if the disk is not open and nothing was written.
LEMMA UpdateNoted ==
  ASSUME TypeInv, OpenInv, NEW k \in Blocks, NEW v, Update(k, v)
  PROVE  /\ latest'[k] # "none" => rd.id \in srv.ofiles /\ latest'[k] = v
         /\ \A j \in Blocks : j # k => latest'[j] = latest[j]
<1>1. latest \in [Blocks -> Data]
  BY DEF TypeInv, GhostType
<1>2. /\ latest'[k] = IF rd.id \in srv.ofiles THEN v ELSE latest[k]
      /\ \A j \in Blocks : j # k => latest'[j] = latest[j]
  BY <1>1 DEF Update
<1> QED
  BY <1>2 DEF OpenInv

\* The contents of the one write of block k that is queued are replaced.
LEMMA ReplaceData ==
  ASSUME DiskInv, WireInv, DataInv, NEW k \in Blocks, NEW v \in Data,
         Writes(k) # {}, Replace(k, v), UNCHANGED <<netVars, srv>>
  PROVE  DataInv'
<1> DEFINE b == rd.reqq[Min(Writes(k))]
<1>1. /\ bufs' = [bufs EXCEPT ![b].data = v] /\ Update(k, v)
      /\ UNCHANGED <<rd, call, srv, toClient>>
  BY DEF Replace, netVars
<1>2. /\ TypeInv /\ ListInv /\ AskInv /\ bufs \in [Bufs -> BufType]
      /\ OpenInv /\ SoleInv /\ HeadInv /\ KeptInv
  BY DEF DiskInv, TypeInv, DiskType, DataInv
<1>3. b \in Bufs /\ Unsent(b, k)
  BY <1>2, WritesFound
<1> HIDE DEF b
<1>4. /\ bufs'[b].data = v
      /\ \A x \in Bufs : x # b => bufs'[x] = bufs[x]
      /\ \A x \in Bufs : bufs'[x].op = bufs[x].op /\ bufs'[x].blk = bufs[x].blk
  BY <1>1, <1>2, <1>3 DEF BufType
<1>5. /\ latest'[k] # "none" => rd.id \in srv.ofiles /\ latest'[k] = v
      /\ \A j \in Blocks : j # k => latest'[j] = latest[j]
  BY <1>1, <1>2, UpdateNoted
<1>6. /\ \A x \in Bufs : \A j \in Blocks : Unsent(x, j)' <=> Unsent(x, j)
      /\ \A q \in Users : \A j \in Blocks : ToWrite(q, j)' <=> ToWrite(q, j)
      /\ \A j \in Blocks : Sending(j)' <=> Sending(j)
      /\ Answered' <=> Answered
  BY <1>1, <1>4 DEF Unsent, ToWrite, Sending, Waiting, Answered
<1>7. OpenInv'
  <2> SUFFICES ASSUME NEW j \in Blocks, latest'[j] # "none" PROVE rd.id \in srv.ofiles
    BY <1>1, <1>2 DEF OpenInv
  <2> QED
    BY <1>2, <1>5 DEF OpenInv
<1>8. SoleInv'
  BY <1>2, <1>6 DEF SoleInv
<1>9. HeadInv'
  BY <1>1, <1>2, <1>4, HeadStays DEF Exchanging
<1>10. KeptInv'
  <2> SUFFICES ASSUME NEW j \in Blocks, latest'[j] # "none"
               PROVE  /\ \A x \in Bufs : Unsent(x, j) => bufs'[x].data = latest'[j]
                      /\ (\A x \in Bufs : ~Unsent(x, j)) =>
                           /\ Sending(j) => call["rds"].msg.data = latest'[j]
                           /\ ~Sending(j) \/ Answered => InFile(j)'
    BY <1>1, <1>6 DEF KeptInv
  <2>1. CASE j = k
    <3>1. \A x \in Bufs : Unsent(x, k) => x = b
      BY <1>2, <1>3 DEF SoleInv
    <3> QED
      BY <1>3, <1>4, <1>5, <2>1, <3>1
  <2>2. CASE j # k
    <3>1. latest'[j] = latest[j] /\ (InFile(j)' <=> InFile(j))
      BY <1>1, <1>5, <2>2 DEF InFile
    <3>2. ASSUME NEW x \in Bufs, Unsent(x, j) PROVE bufs'[x] = bufs[x]
      BY <1>3, <1>4, <2>2, <3>2 DEF Unsent
    <3> QED
      BY <1>2, <3>1, <3>2 DEF KeptInv
  <2> QED
    BY <2>1, <2>2
<1> QED
  BY <1>7, <1>8, <1>9, <1>10 DEF DataInv

\* A write of block k, of which there is none yet, goes to the tail of the queue.
LEMMA AddData ==
  ASSUME DiskInv, DataInv, NEW p \in Users, NEW k \in Mine[p], NEW v \in Data,
         \A q \in Users : q # p => ~ToWrite(q, k),
         NEW b \in Bufs, ~Has(rd.reqq, b), rd'.reqq = Append(rd.reqq, b), rd'.id = rd.id,
         bufs' = [bufs EXCEPT ![b] = Request(p, "WRITE", k, v)],
         \A x \in Bufs : ~Unsent(x, k), Update(k, v),
         \A q \in Procs : q # p => call'[q] = call[q],
         \A j \in Blocks : ~ToWrite(p, j)',
         UNCHANGED <<srv, toClient>>
  PROVE  DataInv'
<1>1. /\ TypeInv /\ ListInv /\ AskInv /\ bufs \in [Bufs -> BufType] /\ k \in Blocks
      /\ OpenInv /\ SoleInv /\ HeadInv /\ KeptInv
      /\ call'["rds"] = call["rds"] /\ Users \subseteq Procs
      /\ rd.reqq \in Seq(Bufs)
  BY WireTypes, RdsAssumption DEF DiskInv, TypeInv, DiskType, DataInv, ListInv, Divided
<1>2. \A x : Has(rd'.reqq, x) <=> Has(rd.reqq, x) \/ x = b
  BY <1>1, AppendMembers
<1>3. /\ bufs'[b].op = "WRITE" /\ bufs'[b].blk = k /\ bufs'[b].data = v
      /\ \A x \in Bufs : x # b => bufs'[x] = bufs[x]
  BY <1>1 DEF Request
<1>4. /\ latest'[k] # "none" => rd.id \in srv.ofiles /\ latest'[k] = v
      /\ \A j \in Blocks : j # k => latest'[j] = latest[j]
  BY <1>1, UpdateNoted
<1>5. \A x \in Bufs : \A j \in Blocks :
         Unsent(x, j)' <=> (Unsent(x, j) /\ x # b) \/ (x = b /\ j = k)
  BY <1>2, <1>3 DEF Unsent
<1>6. \A j \in Blocks : ~Unsent(b, j)
  BY DEF Unsent
<1>7. /\ \A j \in Blocks : Sending(j)' <=> Sending(j)
      /\ Answered' <=> Answered
  BY <1>1 DEF Sending, Waiting, Answered
<1>8. OpenInv'
  <2> SUFFICES ASSUME NEW j \in Blocks, latest'[j] # "none" PROVE rd.id \in srv.ofiles
    BY <1>1 DEF OpenInv
  <2> QED
    BY <1>1, <1>4 DEF OpenInv
<1>9. SoleInv'
  <2>1. ASSUME NEW j \in Blocks, NEW x \in Bufs, NEW y \in Bufs, Unsent(x, j)', Unsent(y, j)'
        PROVE  x = y
    <3>1. CASE j = k
      BY <1>5, <2>1, <3>1
    <3>2. CASE j # k
      BY <1>1, <1>5, <2>1, <3>2 DEF SoleInv
    <3> QED
      BY <3>1, <3>2
  <2>2. ASSUME NEW q \in Users, NEW j \in Blocks, ToWrite(q, j)'
        PROVE  /\ j \in Mine[q] /\ \A x \in Bufs : ~Unsent(x, j)'
               /\ \A u \in Users : u # q => ~ToWrite(u, j)'
    <3>1. q # p /\ ToWrite(q, j)
      BY <1>1, <2>2 DEF ToWrite
    <3>2. j \in Mine[q] /\ \A x \in Bufs : ~Unsent(x, j)
      BY <1>1, <3>1 DEF SoleInv
    <3>3. j # k
      BY <3>1
    <3>4. ASSUME NEW u \in Users, u # q, ToWrite(u, j)' PROVE FALSE
      <4>1. ToWrite(u, j)
        BY <1>1, <3>4 DEF ToWrite
      <4> QED
        BY <1>1, <3>1, <3>4, <4>1 DEF SoleInv
    <3> QED
      BY <1>5, <3>2, <3>3, <3>4
  <2> QED
    BY <2>1, <2>2 DEF SoleInv
<1>10. HeadInv'
  BY <1>1, <1>3, HeadStays DEF Exchanging
<1>11. KeptInv'
  <2> SUFFICES ASSUME NEW j \in Blocks, latest'[j] # "none"
               PROVE  /\ \A x \in Bufs : Unsent(x, j)' => bufs'[x].data = latest'[j]
                      /\ (\A x \in Bufs : ~Unsent(x, j)') =>
                           /\ Sending(j) => call["rds"].msg.data = latest'[j]
                           /\ ~Sending(j) \/ Answered => InFile(j)'
    BY <1>1, <1>7 DEF KeptInv
  <2>1. CASE j = k
    <3>1. \A x \in Bufs : Unsent(x, k)' <=> x = b
      BY <1>1, <1>5
    <3> QED
      BY <1>3, <1>4, <2>1, <3>1
  <2>2. CASE j # k
    <3>1. latest'[j] = latest[j] /\ (InFile(j)' <=> InFile(j))
      BY <1>4, <2>2 DEF InFile
    <3>2. \A x \in Bufs : Unsent(x, j)' <=> Unsent(x, j)
      BY <1>5, <1>6, <2>2
    <3>3. ASSUME NEW x \in Bufs, Unsent(x, j) PROVE bufs'[x] = bufs[x]
      BY <1>3, <1>6, <3>3
    <3> QED
      BY <1>1, <3>1, <3>2, <3>3 DEF KeptInv
  <2> QED
    BY <2>1, <2>2
<1> QED
  BY <1>8, <1>9, <1>10, <1>11 DEF DataInv

LEMMA rdswriteKeeps ==
  ASSUME OneByOne, DiskInv, WireInv, DataInv, NEW p \in Users, NEW k \in Mine[p],
         NEW v \in Vals, rdswrite(p, k, v)
  PROVE  WireInv' /\ DataInv'
<1>0. \A q \in Users : ~ToWrite(q, k)
  BY DEF OneByOne
<1> DEFINE c == [Idle EXCEPT !.blk = k, !.data = v, !.msg.type = "WRITE"]
<1>1. /\ May(p, "write") /\ rd.state = "OPEN"
      /\ UNCHANGED <<mbox, netVars, srv, got>>
      /\ \/ Writes(k) # {} /\ Replace(k, v)
         \/ Writes(k) = {} /\ Takeable(k) /\ Take(p, k, v)
         \/ /\ Writes(k) = {} /\ Goto(p, c, "alloc")
            /\ UNCHANGED <<rd, bufs, reqsem, latest, allow, status>>
  BY DEF rdswrite
<1>2. /\ call[p].at = "idle" /\ p \in Procs /\ TypeInv /\ ListInv /\ AskInv
      /\ k \in Blocks /\ k \in Nat /\ v \in Data /\ rd \in RdType
      /\ Begun /\ ~Exchanging(p)
  <2>1. /\ call[p].at = "idle" /\ p \in Procs /\ TypeInv /\ ListInv /\ AskInv
        /\ k \in Blocks /\ k \in Nat /\ v \in Data
    BY <1>1, Called, RdsAssumption DEF Data
  <2>2. Begun
    BY <1>1, <2>1, HasBegun
  <2> QED
    BY <2>1, <2>2 DEF Exchanging, Talking, TypeInv, DiskType
<1>3. CASE Writes(k) # {} /\ Replace(k, v)
  <2>1. UNCHANGED <<rd, call>>
    BY <1>3 DEF Replace
  <2>2. WireInv'
    BY <1>1, <1>2, <2>1, StepWire
  <2>3. DataInv'
    BY <1>1, <1>2, <1>3, ReplaceData
  <2> QED
    BY <2>2, <2>3
<1>4. CASE Writes(k) = {} /\ Takeable(k) /\ Take(p, k, v)
  <2> DEFINE i == Min(InCache(k))
             b == Cached(k)
             d == RemoveAt(rd.cache, i)
             r == Append(rd.reqq, b)
  <2>1. /\ rd' = [rd EXCEPT !.cache = d, !.reqq = r]
        /\ bufs' = [bufs EXCEPT ![b] = Request(p, "WRITE", k, v)]
        /\ Update(k, v) /\ UNCHANGED call
    BY <1>4 DEF Take
  <2>2. i \in 1..Len(rd.cache) /\ b = rd.cache[i] /\ b \in Bufs
    BY <1>2, <1>4, Found DEF Takeable
  <2>3. ~Has(rd.reqq, b)
    <3> HIDE DEF i, b
    <3> QED
      BY <1>2, <2>2, CacheToQueue DEF ListInv
  <2> HIDE DEF i, b, d, r
  <2>4. rd'.seq = rd.seq /\ rd'.id = rd.id /\ rd'.reqq = r
    BY <1>2, <2>1 DEF RdType
  <2>5. WireInv'
    BY <1>1, <1>2, <2>1, <2>4, StepWire
  <2>6. \A x \in Bufs : ~Unsent(x, k)
    BY <1>2, <1>4, WritesFound
  <2>7. \A j \in Blocks : ~ToWrite(p, j)'
    BY <1>2, <2>1 DEF ToWrite
  <2>8. UNCHANGED <<srv, toClient>>
    BY <1>1 DEF netVars
  <2>9. rd'.reqq = Append(rd.reqq, b)
    BY <2>4 DEF r
  <2>10. DataInv'
    BY <1>0, <1>2, <2>1, <2>2, <2>3, <2>4, <2>6, <2>7, <2>8, <2>9, AddData
  <2> QED
    BY <2>5, <2>10
<1>5. CASE /\ Writes(k) = {} /\ Goto(p, c, "alloc")
           /\ UNCHANGED <<rd, bufs, reqsem, latest, allow, status>>
  <2>1. c \in CallType
    BY <1>2, PendingCall
  <2>2. c.blk = k
    BY DEF Idle
  <2> HIDE DEF c
  <2>3. \A x \in Bufs : ~Unsent(x, k)
    BY <1>2, <1>5, WritesFound
  <2> QED
    BY <1>0, <1>1, <1>2, <1>5, <2>1, <2>2, <2>3, PromiseKeeps
<1> QED
  BY <1>1, <1>3, <1>4, <1>5

LEMMA EnqueueKeeps ==
  ASSUME DiskInv, WireInv, DataInv, NEW p \in Users, Enqueue(p), status' = "ok"
  PROVE  WireInv' /\ DataInv'
<1> DEFINE b == rdsbufalloc
           o == call[p]
           x == Request(p, o.msg.type, o.blk, o.data)
           f == IF rd.free # << >> THEN Tail(rd.free) ELSE rd.free
           c == IF rd.free # << >> THEN rd.cache ELSE RemoveAt(rd.cache, Max(Reusable))
           r == Append(rd.reqq, b)
<1>1. /\ o.at = "alloc" /\ b # 0 /\ UNCHANGED <<netVars, srv>>
      /\ rd' = [rd EXCEPT !.free = f, !.cache = c, !.reqq = r]
      /\ bufs' = [bufs EXCEPT ![b] = x]
      /\ IF o.msg.type = "WRITE"
         THEN Return(p) /\ Update(o.blk, o.data)
         ELSE Goto(p, o, "receive") /\ UNCHANGED latest
  BY DEF Enqueue, At
<1>2. /\ TypeInv /\ ListInv /\ AskInv /\ p \in Procs /\ p # "rds" /\ "rds" \in Procs
      /\ bufs \in [Bufs -> BufType] /\ call \in [Procs -> CallType] /\ rd \in RdType
      /\ o \in CallType /\ Pending(o) /\ o.data \in Data /\ rd.reqq \in Seq(Bufs)
  BY <1>1, WireTypes DEF DiskInv, TypeInv, DiskType, CallInv, CallType, RdType
<1>3. /\ b \in Bufs /\ Divided(f, c, r)
      /\ \A y : Has(r, y) <=> Has(rd.reqq, y) \/ y = b
  BY <1>1, <1>2, Allocated
<1>4. ~Has(rd.reqq, b)
  <2>1. r \in Seq(Bufs) /\ Distinct(r) /\ rd.reqq \in Seq(Bufs)
    BY <1>2, <1>3 DEF Divided
  <2> HIDE DEF b
  <2>2. ASSUME NEW i \in 1..Len(rd.reqq), rd.reqq[i] = b PROVE FALSE
    <3>1. Len(r) = Len(rd.reqq) + 1 /\ r[i] = rd.reqq[i] /\ r[Len(rd.reqq) + 1] = b
      BY <1>3, <2>1
    <3>2. i \in 1..Len(r) /\ Len(rd.reqq) + 1 \in 1..Len(r)
      BY <2>1, <3>1
    <3>3. i = Len(rd.reqq) + 1
      BY <2>1, <2>2, <3>1, <3>2 DEF Distinct
    <3> QED
      BY <2>1, <3>3
  <2> QED
    BY <2>2 DEF Has
<1> HIDE DEF b, x, f, c
<1>5. rd'.seq = rd.seq /\ rd'.id = rd.id /\ rd'.reqq = r
  BY <1>1, <1>2 DEF RdType
<1>6. /\ call'[p].at \in {"idle", "receive"}
      /\ \A q \in Procs : q # p => call'[q] = call[q]
  <2>1. CASE o.msg.type = "WRITE"
    BY <1>1, <1>2, <2>1, Returned
  <2>2. CASE o.msg.type # "WRITE"
    <3>1. Goto(p, o, "receive") /\ "receive" \in Places
      BY <1>1, <2>2 DEF Places
    <3> QED
      BY <1>2, <3>1, GotoType
  <2> QED
    BY <2>1, <2>2
<1>7. WireInv'
  <2>1. Begun /\ ~Exchanging(p)
    BY <1>1, <1>2, HasBegun DEF Exchanging, Talking
  <2> QED
    BY <1>1, <1>2, <1>5, <1>6, <2>1, StepWire DEF Talking
<1>8. \A j \in Blocks : ~ToWrite(p, j)'
  BY <1>6 DEF ToWrite
<1>9. UNCHANGED <<srv, toClient>>
  BY <1>1 DEF netVars
<1>10. CASE o.msg.type = "WRITE"
  <2> DEFINE k == o.blk
             v == o.data
  <2>1. /\ ToWrite(p, k) /\ k \in Blocks /\ v \in Data /\ Update(k, v)
        /\ bufs' = [bufs EXCEPT ![b] = Request(p, "WRITE", k, v)]
    BY <1>1, <1>2, <1>10 DEF ToWrite, Pending, x
  <2> HIDE DEF k, v
  <2>2. /\ k \in Mine[p] /\ \A y \in Bufs : ~Unsent(y, k)
        /\ \A q \in Users : q # p => ~ToWrite(q, k)
    BY <2>1 DEF DataInv, SoleInv
  <2>3. DataInv'
    BY <1>3, <1>4, <1>5, <1>6, <1>8, <1>9, <2>1, <2>2, AddData
  <2> QED
    BY <1>7, <2>3
<1>11. CASE o.msg.type # "WRITE"
  <2>1. /\ \A y \in Bufs : y # b => bufs'[y] = bufs[y]
        /\ bufs'[b].op # "WRITE" /\ UNCHANGED latest
    BY <1>1, <1>2, <1>3, <1>11 DEF x, Request
  <2>2. /\ \A y \in Bufs : \A j \in Blocks : Unsent(y, j)' <=> Unsent(y, j)
        /\ \A y \in Bufs : \A j \in Blocks : Unsent(y, j) => bufs'[y].data = bufs[y].data
    BY <1>3, <1>4, <1>5, <2>1 DEF Unsent
  <2>3. call'["rds"] = call["rds"]
    BY <1>2, <1>6
  <2>4. /\ \A j \in Blocks : Sending(j)' <=> Sending(j)
        /\ Answered' <=> Answered
        /\ Exchanging("rds")' <=> Exchanging("rds")
    BY <1>9, <2>3 DEF Sending, Waiting, Answered, Exchanging
  <2>5. \A q \in Users : \A j \in Blocks : ToWrite(q, j)' => ToWrite(q, j)
    BY <1>6, <1>8, WireTypes, <1>2 DEF ToWrite
  <2>6. OpenInv' /\ SoleInv' /\ KeptInv'
    BY <1>5, <1>9, <2>1, <2>2, <2>3, <2>4, <2>5, DataCalm DEF DataInv
  <2>7. HeadInv'
    <3>1. \A y \in Bufs : Has(rd.reqq, y) => bufs'[y].op = bufs[y].op
      BY <1>4, <2>1
    <3> QED
      BY <1>2, <1>3, <1>5, <2>3, <2>4, <3>1, HeadStays DEF DataInv
  <2> QED
    BY <1>7, <2>6, <2>7 DEF DataInv
<1> QED
  BY <1>10, <1>11

----------------------------------------------------------------------------
\* The steps of rdsprocess.

\* A step of rdsprocess that takes no write off the queue.
LEMMA RdsData ==
  ASSUME DiskInv, DataInv, ~Waiting, \A k \in Blocks : ~Sending(k)', HeadInv',
         \A q \in Users : call'[q] = call[q], rd'.id = rd.id,
         \A b \in Bufs : \A k \in Blocks : Unsent(b, k)' <=> Unsent(b, k),
         \A b \in Bufs : \A k \in Blocks : Unsent(b, k) => bufs'[b].data = bufs[b].data,
         UNCHANGED <<latest, srv, toClient>>
  PROVE  DataInv'
<1>1. /\ \A q \in Users : \A k \in Blocks : ToWrite(q, k)' <=> ToWrite(q, k)
      /\ Answered' <=> Answered
      /\ \A k \in Blocks : ~Sending(k)
  BY DEF ToWrite, Answered, Sending
<1>2. OpenInv' /\ SoleInv' /\ KeptInv'
  BY <1>1, DataCalm DEF DataInv
<1> QED
  BY <1>2 DEF DataInv

\* The message of an exchange that begins.
LEMMA ExchangeMsg ==
  ASSUME call \in [Procs -> CallType], rd \in RdType, NEW p \in Procs, NEW c \in CallType,
         NEW m \in MsgType, Exchange(p, c, m)
  PROVE  /\ call'[p].at = "send" /\ call'[p].msg.seq = rd.seq /\ call'[p].msg.id = rd.id
         /\ call'[p].msg.type = m.type /\ call'[p].msg.blk = m.blk /\ call'[p].msg.data = m.data
         /\ \A q \in Procs : q # p => call'[q] = call[q]
<1> DEFINE w == [m EXCEPT !.seq = rd.seq, !.id = rd.id]
           d == [c EXCEPT !.msg = w, !.i = 1, !.xmit = TRUE]
           e == [d EXCEPT !.at = "send"]
<1>1. w.seq = rd.seq /\ w.id = rd.id /\ w.type = m.type /\ w.blk = m.blk /\ w.data = m.data
  BY DEF MsgType
<1>2. call' = [call EXCEPT ![p] = e]
  BY DEF Exchange, Goto
<1> HIDE DEF w
<1>3. e.at = "send" /\ e.msg = w
  BY DEF CallType
<1> HIDE DEF d, e
<1>4. call'[p] = e /\ \A q \in Procs : q # p => call'[q] = call[q]
  BY <1>2
<1> QED
  BY <1>1, <1>3, <1>4

LEMMA rdsprocessKeeps ==
  ASSUME DiskInv, WireInv, DataInv, rdsprocess
  PROVE  WireInv' /\ DataInv'
<1>1. /\ call["rds"].at = "idle" /\ Goto("rds", call["rds"], "head")
      /\ UNCHANGED <<rd, bufs, netVars, srv, latest, toClient>>
  BY DEF rdsprocess, At, ghosts, netVars
<1>2. /\ TypeInv /\ ListInv /\ AskInv /\ "rds" \in Procs /\ "rds" \notin Users
      /\ Users \subseteq Procs
      /\ call \in [Procs -> CallType] /\ call["rds"] \in CallType /\ "head" \in Places
  BY WireTypes DEF DiskInv, TypeInv, CallInv, Places
<1>3. call'["rds"].at = "head" /\ \A q \in Procs : q # "rds" => call'[q] = call[q]
  BY <1>1, <1>2, GotoType
<1>4. WireInv'
  BY <1>1, <1>2, <1>3, IdleWire
<1>5. /\ ~Waiting /\ HeadInv' /\ \A k \in Blocks : ~Sending(k)'
      /\ \A q \in Users : call'[q] = call[q]
  BY <1>1, <1>2, <1>3 DEF Waiting, HeadInv, Exchanging, Talking, Sending
<1>6. \A b \in Bufs : \A k \in Blocks : Unsent(b, k)' <=> Unsent(b, k)
  BY <1>1 DEF Unsent
<1>7. DataInv'
  BY <1>1, <1>5, <1>6, RdsData
<1> QED
  BY <1>4, <1>7

\* An exchange of rdsprocess that has succeeded ends, or a request that needs none.
LEMMA RdsEnds ==
  ASSUME DiskInv, WireInv, DataInv, call["rds"].at \in {"OK", "head"},
         Goto("rds", call["rds"], "idle"), rd'.seq = rd.seq, rd'.id = rd.id,
         rd.reqq # << >> \/ call["rds"].at = "OK",
         \A b \in Bufs : \A k \in Blocks : Unsent(b, k)' <=> Unsent(b, k),
         \A b \in Bufs : \A k \in Blocks : Unsent(b, k) => bufs'[b].data = bufs[b].data,
         UNCHANGED <<netVars, srv, latest>>
  PROVE  WireInv' /\ DataInv'
<1>1. /\ TypeInv /\ ListInv /\ AskInv /\ "rds" \in Procs /\ "rds" \notin Users
      /\ Users \subseteq Procs
      /\ call \in [Procs -> CallType] /\ call["rds"] \in CallType /\ "idle" \in Places
  BY WireTypes DEF DiskInv, TypeInv, CallInv, Places
<1>2. call'["rds"].at = "idle" /\ \A q \in Procs : q # "rds" => call'[q] = call[q]
  BY <1>1, GotoType
<1>3. WireInv'
  <2>1. CASE call["rds"].at = "OK"
    BY <1>1, <1>2, <2>1, EndWire DEF Talking
  <2>2. CASE call["rds"].at = "head"
    <3>1. Begun /\ ~Exchanging("rds")
      BY <1>1, <2>2, HasBegun DEF Exchanging, Talking
    <3> QED
      BY <1>1, <1>2, <3>1, StepWire DEF Talking
  <2> QED
    BY <2>1, <2>2
<1>4. /\ ~Waiting /\ HeadInv' /\ \A k \in Blocks : ~Sending(k)'
      /\ \A q \in Users : call'[q] = call[q]
  BY <1>1, <1>2 DEF Waiting, HeadInv, Exchanging, Talking, Sending
<1>5. UNCHANGED toClient
  BY DEF netVars
<1>6. DataInv'
  BY <1>4, <1>5, RdsData
<1> QED
  BY <1>3, <1>6

LEMMA WriteServedKeeps ==
  ASSUME DiskInv, WireInv, DataInv, WriteServed
  PROVE  WireInv' /\ DataInv'
<1>1. /\ call["rds"].at = "OK" /\ Goto("rds", call["rds"], "idle")
      /\ UNCHANGED <<rd, bufs, netVars, srv, latest>>
  BY DEF WriteServed, At, diskVars, ghosts
<1>2. \A b \in Bufs : \A k \in Blocks : Unsent(b, k)' <=> Unsent(b, k)
  BY <1>1 DEF Unsent
<1> QED
  BY <1>1, <1>2, RdsEnds

\* The head of the queue, when it leaves the queue.
LEMMA HeadLeaves ==
  ASSUME ListInv, rd.reqq # << >>, rd'.reqq = Tail(rd.reqq)
  PROVE  /\ Head(rd.reqq) \in Bufs /\ Has(rd.reqq, Head(rd.reqq))
         /\ \A x : Has(rd'.reqq, x) <=> Has(rd.reqq, x) /\ x # Head(rd.reqq)
<1>1. Divided(rd.free, rd.cache, rd.reqq)
  BY DEF ListInv
<1> DEFINE q == rd.reqq
<1>2. /\ Head(q) \in Bufs /\ Has(q, Head(q))
      /\ \A x : Has(Tail(q), x) <=> Has(q, x) /\ x # Head(q)
  <2> HIDE DEF q
  <2> QED
    BY <1>1, QueueToCache DEF q
<1> QED
  BY <1>2

LEMMA ServeSyncKeeps ==
  ASSUME DiskInv, WireInv, DataInv, ServeSync
  PROVE  WireInv' /\ DataInv'
<1> DEFINE b == Head(rd.reqq)
           f == <<b>> \o rd.free
<1>1. /\ call["rds"].at = "head" /\ Goto("rds", call["rds"], "idle")
      /\ rd.reqq # << >> /\ bufs[b].op = "SYNC"
      /\ rd' = [rd EXCEPT !.reqq = Tail(@), !.free = f]
      /\ UNCHANGED <<bufs, netVars, srv, latest>>
  BY DEF ServeSync, Asked, At, ghosts
<1>2. rd \in RdType /\ ListInv
  BY DEF DiskInv, TypeInv, DiskType
<1> HIDE DEF f
<1>3. rd'.seq = rd.seq /\ rd'.id = rd.id /\ rd'.reqq = Tail(rd.reqq)
  BY <1>1, <1>2 DEF RdType
<1>4. \A x : Has(rd'.reqq, x) <=> Has(rd.reqq, x) /\ x # b
  BY <1>1, <1>2, <1>3, HeadLeaves
<1>5. \A x \in Bufs : \A k \in Blocks : Unsent(x, k)' <=> Unsent(x, k)
  BY <1>1, <1>4 DEF Unsent
<1> QED
  BY <1>1, <1>3, <1>5, RdsEnds

LEMMA ReadServedKeeps ==
  ASSUME DiskInv, WireInv, DataInv, ReadServed
  PROVE  WireInv' /\ DataInv'
<1> DEFINE b == Head(rd.reqq)
           c == <<b>> \o rd.cache
<1>1. /\ call["rds"].at = "OK" /\ call["rds"].msg.type = "RREQ"
      /\ Goto("rds", call["rds"], "idle")
      /\ rd' = [rd EXCEPT !.reqq = Tail(@), !.cache = c]
      /\ bufs' = [bufs EXCEPT ![b].data = call["rds"].resp, ![b].refcnt = 1]
      /\ UNCHANGED <<netVars, srv, latest>>
  BY DEF ReadServed, At, ToCache, ghosts
<1>2. /\ rd \in RdType /\ ListInv /\ bufs \in [Bufs -> BufType]
      /\ rd.reqq # << >> /\ bufs[b].op = "READ"
  BY <1>1 DEF DiskInv, TypeInv, DiskType, AskInv, DataInv, HeadInv, Exchanging, Talking
<1> HIDE DEF c
<1>3. rd'.seq = rd.seq /\ rd'.id = rd.id /\ rd'.reqq = Tail(rd.reqq)
  BY <1>1, <1>2 DEF RdType
<1>4. b \in Bufs /\ \A x : Has(rd'.reqq, x) <=> Has(rd.reqq, x) /\ x # b
  BY <1>2, <1>3, HeadLeaves
<1>5. \A x \in Bufs : x # b => bufs'[x] = bufs[x]
  BY <1>1, <1>2, <1>4
<1>6. /\ \A x \in Bufs : \A k \in Blocks : Unsent(x, k)' <=> Unsent(x, k)
      /\ \A x \in Bufs : \A k \in Blocks : Unsent(x, k) => bufs'[x].data = bufs[x].data
  BY <1>2, <1>4, <1>5 DEF Unsent
<1> QED
  BY <1>1, <1>3, <1>6, RdsEnds

\* rdsprocess sends a request for block k.
LEMMA AskWire ==
  ASSUME DiskInv, WireInv, call["rds"].at = "head", rd.reqq # << >>,
         NEW m \in MsgType, m.type \in OfBlock, Exchange("rds", call["rds"], m),
         rd'.seq = rd.seq + 1, rd'.id = rd.id, UNCHANGED <<netVars, srv>>
  PROVE  /\ WireInv'
         /\ call'["rds"].at = "send"
         /\ call'["rds"].msg.type = m.type /\ call'["rds"].msg.blk = m.blk
         /\ call'["rds"].msg.data = m.data
         /\ \A q \in Users : call'[q] = call[q]
<1>1. /\ TypeInv /\ "rds" \in Procs /\ "rds" \notin Users /\ Users \subseteq Procs
      /\ call \in [Procs -> CallType] /\ call["rds"] \in CallType /\ rd \in RdType
  BY WireTypes DEF DiskInv, TypeInv, CallInv, DiskType
<1>2. /\ call'["rds"].at = "send" /\ call'["rds"].msg.seq = rd.seq /\ call'["rds"].msg.id = rd.id
      /\ call'["rds"].msg.type = m.type /\ call'["rds"].msg.blk = m.blk
      /\ call'["rds"].msg.data = m.data
      /\ \A q \in Procs : q # "rds" => call'[q] = call[q]
  BY <1>1, ExchangeMsg
<1>3. Begun /\ rd.id \in Ids /\ ~Exchanging("rds")
  BY <1>1, HasBegun DEF Exchanging, Talking
<1>4. WireInv'
  BY <1>1, <1>2, <1>3, BeginWire
<1> QED
  BY <1>1, <1>2, <1>4

LEMMA ServeReadKeeps ==
  ASSUME DiskInv, WireInv, DataInv, ServeRead
  PROVE  WireInv' /\ DataInv'
<1> DEFINE b == Head(rd.reqq)
           m == [NoMsg EXCEPT !.type = "RREQ", !.blk = bufs[b].blk]
<1>1. /\ call["rds"].at = "head" /\ rd.reqq # << >> /\ bufs[b].op = "READ"
      /\ rd' = [rd EXCEPT !.seq = @ + 1] /\ Exchange("rds", call["rds"], m)
      /\ UNCHANGED <<bufs, netVars, srv, latest, toClient>>
  BY DEF ServeRead, Asked, At, ghosts, netVars
<1>2. rd \in RdType /\ ListInv /\ bufs \in [Bufs -> BufType] /\ "rds" \in Procs
  BY WireTypes DEF DiskInv, TypeInv, DiskType
<1>3. m \in MsgType /\ m.type = "RREQ"
  <2>1. b \in Bufs
    BY <1>1, <1>2, QueueToCache DEF ListInv
  <2>2. bufs[b].blk \in Nat
    BY <1>2, <2>1 DEF BufType
  <2> HIDE DEF b
  <2> QED
    BY <2>2, IdleTypes DEF MsgType, Requested
<1> HIDE DEF m
<1>4. rd'.seq = rd.seq + 1 /\ rd'.id = rd.id /\ rd'.reqq = rd.reqq
  BY <1>1, <1>2 DEF RdType
<1>5. /\ WireInv' /\ call'["rds"].msg.type = "RREQ"
      /\ \A q \in Users : call'[q] = call[q]
  BY <1>1, <1>3, <1>4, AskWire DEF OfBlock
<1>6. /\ ~Waiting /\ HeadInv' /\ \A k \in Blocks : ~Sending(k)'
  BY <1>1, <1>4, <1>5 DEF Waiting, HeadInv, Sending
<1>7. \A x \in Bufs : \A k \in Blocks : Unsent(x, k)' <=> Unsent(x, k)
  BY <1>1, <1>4 DEF Unsent
<1>8. DataInv'
  BY <1>1, <1>4, <1>5, <1>6, <1>7, RdsData
<1> QED
  BY <1>5, <1>8

LEMMA ServeWriteKeeps ==
  ASSUME DiskInv, WireInv, DataInv, ServeWrite
  PROVE  WireInv' /\ DataInv'
<1> DEFINE b == Head(rd.reqq)
           kb == bufs[b].blk
           c == <<b>> \o rd.cache
           m == [NoMsg EXCEPT !.type = "WREQ", !.blk = kb, !.data = bufs[b].data]
<1>1. /\ call["rds"].at = "head" /\ rd.reqq # << >> /\ bufs[b].op = "WRITE"
      /\ rd' = [rd EXCEPT !.reqq = Tail(@), !.cache = c, !.seq = @ + 1]
      /\ bufs' = [bufs EXCEPT ![b].refcnt = 0]
      /\ Exchange("rds", call["rds"], m)
      /\ UNCHANGED <<netVars, srv, latest, toClient>>
  BY DEF ServeWrite, Asked, At, ToCache, ghosts, netVars
<1>2. rd \in RdType /\ ListInv /\ bufs \in [Bufs -> BufType] /\ "rds" \in Procs
  BY WireTypes DEF DiskInv, TypeInv, DiskType
<1> HIDE DEF c
<1>3. rd'.seq = rd.seq + 1 /\ rd'.id = rd.id /\ rd'.reqq = Tail(rd.reqq)
  BY <1>1, <1>2 DEF RdType
<1>4. /\ b \in Bufs /\ Has(rd.reqq, b)
      /\ \A x : Has(rd'.reqq, x) <=> Has(rd.reqq, x) /\ x # b
  BY <1>1, <1>2, <1>3, HeadLeaves
<1>5. m \in MsgType /\ m.type = "WREQ" /\ m.blk = kb /\ m.data = bufs[b].data
  <2>1. bufs[b].blk \in Nat /\ bufs[b].data \in Data
    BY <1>2, <1>4 DEF BufType
  <2> HIDE DEF b
  <2> QED
    BY <2>1, IdleTypes DEF MsgType, Requested
<1> HIDE DEF m
<1>6. /\ WireInv' /\ call'["rds"].at = "send" /\ call'["rds"].msg.type = "WREQ"
      /\ call'["rds"].msg.blk = kb /\ call'["rds"].msg.data = bufs[b].data
      /\ \A q \in Users : call'[q] = call[q]
  BY <1>1, <1>3, <1>5, AskWire DEF OfBlock
<1>7. /\ \A x \in Bufs : \A k \in Blocks : Unsent(x, k)' <=> Unsent(x, k) /\ x # b
      /\ \A x \in Bufs : x # b => bufs'[x] = bufs[x]
      /\ \A k \in Blocks : Unsent(b, k) <=> k = kb
  <2>1. /\ \A x \in Bufs : x # b => bufs'[x] = bufs[x]
    BY <1>1, <1>2
  <2> QED
    BY <1>1, <1>4, <2>1 DEF Unsent
<1>8. /\ ~Answered' /\ \A k \in Blocks : ~Sending(k)
      /\ \A k \in Blocks : Sending(k)' <=> k = kb
      /\ \A k \in Blocks : InFile(k)' <=> InFile(k)
      /\ \A q \in Users : \A k \in Blocks : ToWrite(q, k)' <=> ToWrite(q, k)
  BY <1>1, <1>3, <1>6 DEF WireInv, CopyInv, Answered, Waiting, Sending, InFile, ToWrite
<1>9. OpenInv'
  BY <1>1, <1>3 DEF DataInv, OpenInv
<1>10. SoleInv'
  BY <1>7, <1>8 DEF DataInv, SoleInv
<1>11. HeadInv'
  BY <1>6 DEF HeadInv
<1>12. ASSUME NEW k \in Blocks, latest[k] # "none"
       PROVE  /\ \A x \in Bufs : Unsent(x, k)' => bufs'[x].data = latest[k]
              /\ (\A x \in Bufs : ~Unsent(x, k)') =>
                   /\ Sending(k)' => call'["rds"].msg.data = latest[k]
                   /\ ~Sending(k)' \/ Answered' => InFile(k)'
  <2>1. \A x \in Bufs : Unsent(x, k) => bufs[x].data = latest[k]
    BY <1>12 DEF DataInv, KeptInv
  <2>2. CASE k = kb
    BY <1>4, <1>6, <1>7, <1>8, <2>1, <2>2
  <2>3. CASE k # kb
    <3>1. (\A x \in Bufs : ~Unsent(x, k)) => InFile(k)
      BY <1>8, <1>12 DEF DataInv, KeptInv
    <3> QED
      BY <1>4, <1>7, <1>8, <2>1, <2>3, <3>1
  <2> QED
    BY <2>2, <2>3
<1>13. KeptInv'
  BY <1>1, <1>12 DEF KeptInv
<1> QED
  BY <1>6, <1>9, <1>10, <1>11, <1>13 DEF DataInv

----------------------------------------------------------------------------
\* All writes are kept.

LEMMA InitWrites == Init => WriteInv
<1> SUFFICES ASSUME Init PROVE WriteInv
  OBVIOUS
<1>1. /\ rd.state = "FREE" /\ rd.id = "none" /\ rd.seq = 1 /\ rd.reqq = << >>
      /\ slot = "none" /\ toServer = {} /\ toClient = {} /\ srv = ServerInit
      /\ \A q \in Procs : call[q].at = "idle"
      /\ \A k \in Blocks : latest[k] = "none"
  BY DEF Init, Idle
<1>2. "rds" \in Procs /\ Users \subseteq Procs
  BY DEF Procs
<1>3. /\ ~Exchanging("rds") /\ ~Waiting /\ ~Answered /\ ~Resending
      /\ \A q \in Procs : ~Exchanging(q) /\ ~First(q)
      /\ \A q \in Users : \A k \in Blocks : ~ToWrite(q, k)
      /\ \A x \in Bufs : \A k \in Blocks : ~Unsent(x, k)
  BY <1>1, <1>2 DEF Exchanging, Talking, Waiting, Answered, Resending, First, ToWrite, Unsent, Has
<1>4. /\ srv.seq = 0 /\ srv.ofiles = {}
  BY <1>1 DEF ServerInit
<1>5. WireInv
  BY <1>1, <1>2, <1>3, <1>4
     DEF WireInv, RoleInv, SeqInv, OwnInv, StartInv, Begun, CopyInv
<1>6. DataInv
  BY <1>1, <1>3, <1>4 DEF DataInv, OpenInv, SoleInv, HeadInv, KeptInv
<1> QED
  BY <1>5, <1>6, InitDisk DEF WriteInv

LEMMA NextWrites ==
  ASSUME OneDisk, WriteInv, [Next]_vars, [Orderly]_vars
  PROVE  WriteInv'
<1>1. DiskInv /\ DiskInv'
  BY NextDisk DEF WriteInv
<1> SUFFICES ASSUME status' = "ok" PROVE WireInv' /\ DataInv'
  BY <1>1 DEF WriteInv
<1>2. CASE UNCHANGED vars
  <2>1. status = "ok" /\ UNCHANGED <<rd, bufs, call, slot, toServer, toClient, srv, latest>>
    BY <1>2 DEF vars, diskVars, netVars, ghosts
  <2>2. WireInv /\ DataInv
    BY <2>1 DEF WriteInv
  <2>3. WireInv'
    BY <2>1, <2>2 DEF WireInv, RoleInv, SeqInv, OwnInv, StartInv, Alone, First, Begun, CopyInv,
       Exchanging, Waiting, Answered, Resending
  <2>4. DataInv'
    BY <2>1, <2>2 DEF DataInv, OpenInv, SoleInv, HeadInv, KeptInv, Unsent, ToWrite, Sending,
       Waiting, Answered, InFile, Exchanging
  <2> QED
    BY <2>3, <2>4
<1>3. ASSUME Next PROVE status = "ok"
  <2>1. ASSUME NEW p \in Users, Enter(p) PROVE status = "ok"
    BY <2>1 DEF Enter, rdsopen, rdsopenRefused, rdsclose, rdsdelete, rdssync, rdsread,
                    rdswrite, May
  <2>2. ASSUME NEW p \in Users, Proceed(p) PROVE status = "ok"
    BY <2>2 DEF Proceed, Enqueue, rdsreadDone, rdssyncDone, rdsopenDone, rdsdeleteDone, At
  <2>3. ASSUME NEW p \in Procs, Comm(p) PROVE status = "ok"
    BY <2>3 DEF Comm, rdscomm, rdscommReply, rdscommTimeout, At
  <2>4. CASE Rdsprocess
    BY <2>4 DEF Rdsprocess, rdsprocess, ServeRead, ServeWrite, ServeSync, ReadServed,
       WriteServed, Unreachable, Asked, At
  <2>5. (\E m \in toServer : Serve(m)) \/ Lose => status = "ok"
    BY DEF Serve, Lose
  <2> QED
    BY <1>3, <2>1, <2>2, <2>3, <2>4, <2>5 DEF Next
<1>4. CASE Next /\ Orderly
  <2>1. WireInv /\ DataInv /\ Timely /\ OneByOne
    BY <1>3, <1>4 DEF WriteInv, Orderly
  <2>2. ASSUME NEW p \in Users, Enter(p) PROVE WireInv' /\ DataInv'
    BY <1>1, <2>1, <2>2, rdsopenKeeps, rdsopenRefusedKeeps, rdscloseKeeps,
       rdsdeleteKeeps, rdssyncKeeps,
       rdsreadKeeps, rdswriteKeeps DEF Enter
  <2>3. ASSUME NEW p \in Users, Proceed(p) PROVE WireInv' /\ DataInv'
    BY <1>1, <2>1, <2>3, EnqueueKeeps, rdsreadDoneKeeps, rdssyncDoneKeeps, rdsopenDoneKeeps,
       rdsdeleteDoneKeeps DEF Proceed
  <2>4. ASSUME NEW p \in Procs, Comm(p) PROVE WireInv' /\ DataInv'
    BY <1>1, <2>1, <2>4, rdscommKeeps, rdscommReplyKeeps, rdscommTimeoutKeeps DEF Comm
  <2>5. CASE Rdsprocess
    <3>1. ~Unreachable
      BY DEF Unreachable
    <3> QED
      BY <1>1, <2>1, <2>5, <3>1, rdsprocessKeeps, ServeReadKeeps, ServeWriteKeeps,
         ServeSyncKeeps, ReadServedKeeps, WriteServedKeeps DEF Rdsprocess
  <2>6. ASSUME NEW m, Serve(m) PROVE WireInv' /\ DataInv'
    BY <1>1, <2>1, <2>6, ServeKeeps
  <2>7. CASE Lose
    BY <1>1, <2>1, <2>7, LoseKeeps
  <2> QED
    BY <1>4, <2>2, <2>3, <2>4, <2>5, <2>6, <2>7 DEF Next
<1> QED
  BY <1>2, <1>4

LEMMA KeptOfWrites == WriteInv => WritesKept
<1> SUFFICES ASSUME WriteInv, NEW k \in Blocks, status = "ok", latest[k] # "none"
             PROVE  latest[k] = IF Writes(k) # {} THEN bufs[rd.reqq[Max(Writes(k))]].data
                                ELSE IF Sending(k) THEN call["rds"].msg.data
                                ELSE IF k < Len(srv.files[rd.id]) THEN srv.files[rd.id][k + 1]
                                ELSE "none"
  BY DEF WritesKept, Sending, Waiting
<1>1. /\ ListInv
      /\ \A b \in Bufs : Unsent(b, k) => bufs[b].data = latest[k]
      /\ (\A b \in Bufs : ~Unsent(b, k)) =>
           /\ Sending(k) => call["rds"].msg.data = latest[k]
           /\ ~Sending(k) \/ Answered => InFile(k)
  BY DEF WriteInv, DiskInv, DataInv, KeptInv
<1>2. CASE Writes(k) # {}
  BY <1>1, <1>2, WritesFound
<1>3. CASE Writes(k) = {}
  <2>1. \A b \in Bufs : ~Unsent(b, k)
    BY <1>1, <1>3, WritesFound
  <2> QED
    BY <1>1, <1>3, <2>1 DEF InFile
<1> QED
  BY <1>2, <1>3

\* rdswrite, rdsprocess and rdscomm: what was written last to a block is on the request
\* queue, or on its way to the server, or in the server's file: no write is lost and none
\* overtakes another, whatever the network loses, for any number of users, blocks,
\* buffers and retries, whoever writes what, as long as every step is Orderly: until a
\* timeout overtakes a message, or a write of a block begins while another waits for a
\* buffer.  The code prevents neither; the theorem says that nothing else loses a write
\* before the model stops.  The users share one disk.
THEOREM WritesStayKept ==
  ASSUME OneDisk
  PROVE  Spec /\ [][Orderly]_vars => []WritesKept
<1>1. Init => WriteInv
  BY InitWrites
<1>2. WriteInv /\ [Next]_vars /\ [Orderly]_vars => WriteInv'
  BY NextWrites
<1>3. WriteInv => WritesKept
  BY KeptOfWrites
<1> QED
  BY <1>1, <1>2, <1>3, PTL DEF Spec

\* Nobody has found the disk empty or deleted since user p began to read.
Sure(p) == "none" \notin allow[p]

Reads(p) == call[p].at # "idle" /\ call[p].msg.type = "READ"

\* Buffer x is the copy of block k that a search of the cache finds.
FirstCopy(x, k) ==
    /\ Has(rd.cache, x) /\ bufs[x].blk = k
    /\ \A y \in Bufs : Ahead(rd.cache, y, x) => bufs[y].blk # k

\* A valid buffer holds a write, and nobody is reading it.
ValidInv == \A x \in Bufs : bufs[x].valid => bufs[x].op = "WRITE" /\ bufs[x].refcnt = 0

\* The copy that a search of the cache finds, if it is valid, is what was written last.
FreshInv ==
    \A k \in Blocks : \A x \in Bufs : FirstCopy(x, k) /\ bufs[x].valid =>
      /\ \A b \in Bufs : ~Unsent(b, k)
      /\ \A p \in Users : ~ToWrite(p, k)
      /\ latest[k] # "none" => bufs[x].data = latest[k]

\* Buffer x is a request whose answer user p waits for.
Asks(x, p) == Has(rd.reqq, x) /\ bufs[x].op # "WRITE" /\ bufs[x].pid = p

AskerInv ==
    /\ \A x \in Bufs : Has(rd.reqq, x) /\ bufs[x].op # "WRITE" => bufs[x].pid \in Users
    /\ \A p \in Users : \A x \in Bufs : Asks(x, p) =>
         /\ call[p].at = "receive" /\ call[p].msg.type = bufs[x].op
         /\ call[p].blk = bufs[x].blk /\ mbox[p] = 0
         /\ \A y \in Bufs : Asks(y, p) => x = y
    /\ \A p \in Users : mbox[p] \in Bufs => call[p].at = "receive" /\ call[p].msg.type = "READ"

\* A read may give what was written last.
LatestInv ==
    \A p \in Users : Reads(p) =>
       call[p].blk \in Blocks /\ (Sure(p) => latest[call[p].blk] \in allow[p])

\* What the server will have for block k, when what it is being sent has arrived, may be
\* given to user p.
Arriving(p, k) ==
    /\ Sending(k) => call["rds"].msg.data \in allow[p]
    /\ ~Sending(k) \/ Answered =>
         k < Len(srv.files[rd.id]) /\ srv.files[rd.id][k + 1] \in allow[p]

\* So it is for a read on the queue with no write of its block before it.
SeenInv ==
    \A p \in Users : \A x \in Bufs : \A k \in Blocks :
       /\ Asks(x, p) /\ bufs[x].op = "READ" /\ bufs[x].blk = k /\ Sure(p)
       /\ \A b \in Bufs : Unsent(b, k) => ~Ahead(rd.reqq, b, x)
       => Arriving(p, k)

\* The server is asked for the block of the read at the head of the queue, and what it
\* answers may be given.
AnswerInv ==
    Exchanging("rds") /\ call["rds"].msg.type = "RREQ" =>
      /\ call["rds"].msg.blk = bufs[Head(rd.reqq)].blk
      /\ \A p \in Users : bufs[Head(rd.reqq)].pid = p /\ Sure(p) =>
           /\ \A r \in toClient : r.type = "RREQ" => r.data \in allow[p]
           /\ call["rds"].at = "OK" => call["rds"].resp \in allow[p]

\* What a reader has been sent and has not copied yet may be given.
GivenInv == \A p \in Users : mbox[p] \in Bufs /\ Sure(p) => bufs[mbox[p]].data \in allow[p]

GotInv == \A p \in Users : got[p] = "none" \/ got[p] \in allow[p] \/ ~Sure(p)

LookInv == ValidInv /\ FreshInv
ReadInv == LookInv /\ AskerInv /\ LatestInv /\ SeenInv /\ AnswerInv /\ GivenInv /\ GotInv

----------------------------------------------------------------------------
\* What steps leave as it was.

LEMMA LookStays ==
  ASSUME LookInv, UNCHANGED latest, rd'.cache = rd.cache, rd'.reqq = rd.reqq,
         \A x \in Bufs : /\ bufs'[x].op = bufs[x].op /\ bufs'[x].blk = bufs[x].blk
                         /\ bufs'[x].data = bufs[x].data /\ bufs'[x].valid = bufs[x].valid
                         /\ bufs'[x].refcnt = bufs[x].refcnt \/ bufs'[x].refcnt = 0,
         \A q \in Users : \A k \in Blocks : ToWrite(q, k)' => ToWrite(q, k)
  PROVE  LookInv'
<1>1. ValidInv'
  BY DEF LookInv, ValidInv
<1>2. /\ \A x \in Bufs : \A k \in Blocks : Unsent(x, k)' <=> Unsent(x, k)
      /\ \A x \in Bufs : \A k \in Blocks : FirstCopy(x, k)' <=> FirstCopy(x, k)
  BY DEF Unsent, FirstCopy
<1>3. FreshInv'
  BY <1>2 DEF LookInv, FreshInv
<1> QED
  BY <1>1, <1>3 DEF LookInv

LEMMA AskersStay ==
  ASSUME AskerInv,
         \A x \in Bufs : Has(rd'.reqq, x) /\ bufs'[x].op # "WRITE" =>
            /\ Has(rd.reqq, x) /\ bufs'[x].op = bufs[x].op
            /\ bufs'[x].blk = bufs[x].blk /\ bufs'[x].pid = bufs[x].pid,
         \A q \in Users :
            \/ mbox'[q] = mbox[q] /\ (call[q].at = "receive" => call'[q] = call[q])
            \/ mbox'[q] = 0 /\ \A x \in Bufs : ~Asks(x, q)
  PROVE  AskerInv'
<1>0. 0 \notin Bufs
  BY BufNumbers
<1>1. \A x \in Bufs : \A q \in Users : Asks(x, q)' => Asks(x, q) /\ bufs'[x].op = bufs[x].op
                                                   /\ bufs'[x].blk = bufs[x].blk
  BY DEF Asks
<1>2. \A x \in Bufs : Has(rd'.reqq, x) /\ bufs'[x].op # "WRITE" => bufs'[x].pid \in Users
  BY DEF AskerInv
<1>3. ASSUME NEW q \in Users, NEW x \in Bufs, Asks(x, q)'
      PROVE  /\ call'[q].at = "receive" /\ call'[q].msg.type = bufs'[x].op
             /\ call'[q].blk = bufs'[x].blk /\ mbox'[q] = 0
             /\ \A y \in Bufs : Asks(y, q)' => x = y
  BY <1>1, <1>3 DEF AskerInv
<1>4. ASSUME NEW q \in Users, mbox'[q] \in Bufs
      PROVE  call'[q].at = "receive" /\ call'[q].msg.type = "READ"
  BY <1>0, <1>4 DEF AskerInv
<1> QED
  BY <1>2, <1>3, <1>4 DEF AskerInv

LEMMA LatestStays ==
  ASSUME LatestInv, UNCHANGED <<latest, allow>>,
         \A q \in Users : Reads(q)' => call'[q] = call[q]
  PROVE  LatestInv'
BY DEF LatestInv, Reads, Sure

LEMMA SeenStays ==
  ASSUME OpenInv, AskerInv, LatestInv, SeenInv,
         \A x \in Bufs : \A q \in Users : Asks(x, q)' /\ bufs'[x].op = "READ" =>
            /\ Asks(x, q) /\ bufs[x].op = "READ" /\ bufs'[x].blk = bufs[x].blk
            /\ allow[q] \subseteq allow'[q],
         \A k \in Blocks : \A b \in Bufs : \A x \in Bufs :
            Unsent(b, k) /\ Ahead(rd.reqq, b, x) /\ Has(rd'.reqq, x) =>
               Unsent(b, k)' /\ Ahead(rd'.reqq, b, x),
         \A k \in Blocks : latest[k] # "none" => rd'.id = rd.id,
         \A k \in Blocks : Sending(k)' =>
            Sending(k) /\ call'["rds"].msg.data = call["rds"].msg.data,
         \A k \in Blocks : Sending(k) /\ ~Sending(k)' => Answered,
         Answered' => Answered, UNCHANGED srv
  PROVE  SeenInv'
<1> SUFFICES ASSUME NEW q \in Users, NEW x \in Bufs, NEW k \in Blocks,
                    Asks(x, q)', bufs'[x].op = "READ", bufs'[x].blk = k, Sure(q)',
                    \A b \in Bufs : Unsent(b, k)' => ~Ahead(rd'.reqq, b, x)
             PROVE  /\ Sending(k)' => call'["rds"].msg.data \in allow'[q]
                    /\ ~Sending(k)' \/ Answered' =>
                         k < Len(srv'.files[rd'.id]) /\ srv'.files[rd'.id][k + 1] \in allow'[q]
  BY DEF SeenInv, Arriving
<1>1. /\ Asks(x, q) /\ bufs[x].op = "READ" /\ bufs[x].blk = k
      /\ allow[q] \subseteq allow'[q] /\ Sure(q) /\ Has(rd'.reqq, x)
  BY DEF Sure, Asks
<1>2. call[q].at = "receive" /\ call[q].msg.type = "READ" /\ call[q].blk = k
  BY <1>1 DEF AskerInv
<1>3. latest[k] # "none"
  BY <1>1, <1>2 DEF LatestInv, Reads, Sure
<1>4. Arriving(q, k)
  BY <1>1 DEF SeenInv
<1>5. rd'.id = rd.id
  BY <1>3
<1> QED
  BY <1>1, <1>4, <1>5 DEF Arriving

\* A read that rdsprocess asks the server for is waited for.
LEMMA HeadAsks ==
  ASSUME DiskInv, HeadInv, AskerInv, Exchanging("rds"), call["rds"].msg.type = "RREQ"
  PROVE  /\ Head(rd.reqq) \in Bufs /\ bufs[Head(rd.reqq)].op = "READ"
         /\ bufs[Head(rd.reqq)].pid \in Users
         /\ Asks(Head(rd.reqq), bufs[Head(rd.reqq)].pid)
<1> DEFINE b == Head(rd.reqq)
<1>1. rd.reqq # << >> /\ bufs[b].op = "READ"
  BY DEF DiskInv, AskInv, HeadInv, Exchanging, Talking
<1>2. b \in Bufs /\ Has(rd.reqq, b)
  <2>1. Divided(rd.free, rd.cache, rd.reqq)
    BY DEF DiskInv, ListInv
  <2> QED
    BY <1>1, <2>1, QueueToCache, ZenonT(60)
<1> QED
  BY <1>1, <1>2 DEF AskerInv, Asks

LEMMA AnswerStays ==
  ASSUME DiskInv, HeadInv, AskerInv, AnswerInv,
         Exchanging("rds")' /\ call'["rds"].msg.type = "RREQ" =>
            /\ Exchanging("rds") /\ call'["rds"].msg = call["rds"].msg
            /\ Head(rd'.reqq) = Head(rd.reqq)
            /\ call'["rds"].at = "OK" =>
                 \/ call["rds"].at = "OK" /\ call'["rds"].resp = call["rds"].resp
                 \/ \E r \in toClient : /\ r.type = "RREQ"
                                        /\ r.data = "none" \/ call'["rds"].resp = r.data,
         \A x \in Bufs : Has(rd.reqq, x) =>
            bufs'[x].blk = bufs[x].blk /\ bufs'[x].pid = bufs[x].pid,
         \A x \in Bufs : \A q \in Users : Asks(x, q) => allow[q] \subseteq allow'[q],
         toClient' \subseteq toClient
  PROVE  AnswerInv'
<1> SUFFICES ASSUME Exchanging("rds")', call'["rds"].msg.type = "RREQ"
             PROVE  /\ call'["rds"].msg.blk = bufs'[Head(rd'.reqq)].blk
                    /\ \A q \in Users : bufs'[Head(rd'.reqq)].pid = q /\ Sure(q)' =>
                         /\ \A r \in toClient' : r.type = "RREQ" => r.data \in allow'[q]
                         /\ call'["rds"].at = "OK" => call'["rds"].resp \in allow'[q]
  BY DEF AnswerInv
<1> DEFINE b == Head(rd.reqq)
<1>1. /\ Exchanging("rds") /\ call'["rds"].msg = call["rds"].msg
      /\ call["rds"].msg.type = "RREQ" /\ Head(rd'.reqq) = b
  OBVIOUS
<1>2. b \in Bufs /\ bufs[b].pid \in Users /\ Asks(b, bufs[b].pid)
  BY <1>1, HeadAsks
<1>3. /\ bufs'[b].blk = bufs[b].blk /\ bufs'[b].pid = bufs[b].pid
      /\ allow[bufs[b].pid] \subseteq allow'[bufs[b].pid]
  BY <1>2 DEF Asks
<1> HIDE DEF b
<1>4. /\ call["rds"].msg.blk = bufs[b].blk
      /\ Sure(bufs[b].pid) =>
           /\ \A r \in toClient : r.type = "RREQ" => r.data \in allow[bufs[b].pid]
           /\ call["rds"].at = "OK" => call["rds"].resp \in allow[bufs[b].pid]
  BY <1>1, <1>2 DEF AnswerInv, b
<1>5. call'["rds"].msg.blk = bufs'[Head(rd'.reqq)].blk
  BY <1>1, <1>3, <1>4
<1>6. ASSUME NEW q \in Users, bufs'[Head(rd'.reqq)].pid = q, Sure(q)'
      PROVE  /\ \A r \in toClient' : r.type = "RREQ" => r.data \in allow'[q]
             /\ call'["rds"].at = "OK" => call'["rds"].resp \in allow'[q]
  <2>1. q = bufs[b].pid /\ Sure(q)
    BY <1>1, <1>3, <1>6 DEF Sure
  <2>2. /\ \A r \in toClient : r.type = "RREQ" => r.data \in allow[q]
        /\ call["rds"].at = "OK" => call["rds"].resp \in allow[q]
    BY <1>4, <2>1
  <2> QED
    BY <1>3, <2>1, <2>2 DEF Sure
<1> QED
  BY <1>5, <1>6

LEMMA GivenStays ==
  ASSUME GivenInv,
         \A q \in Users : mbox'[q] \in Bufs =>
            /\ mbox'[q] = mbox[q] /\ bufs'[mbox[q]].data = bufs[mbox[q]].data
            /\ allow[q] \subseteq allow'[q]
  PROVE  GivenInv'
BY DEF GivenInv, Sure

LEMMA GotStays ==
  ASSUME GotInv, UNCHANGED got, \A q \in Users : allow[q] \subseteq allow'[q]
  PROVE  GotInv'
BY DEF GotInv, Sure

\* Steps that leave the requests and those who wait for them alone.
LEMMA WaitsStay ==
  ASSUME status = "ok", DiskInv, DataInv, AskerInv, LatestInv, SeenInv, AnswerInv, GivenInv,
         \A q \in Users : call[q].at = "receive" =>
            call'[q] = call[q] /\ allow[q] \subseteq allow'[q],
         UNCHANGED <<mbox, srv>>, toClient' \subseteq toClient, rd'.reqq = rd.reqq,
         \A k \in Blocks : latest[k] # "none" => rd'.id = rd.id,
         \A x \in Bufs : /\ bufs'[x].op = bufs[x].op /\ bufs'[x].blk = bufs[x].blk
                         /\ bufs'[x].pid = bufs[x].pid,
         \A x \in Bufs : ~Has(rd.reqq, x) => bufs'[x].data = bufs[x].data,
         \A k \in Blocks : Sending(k)' =>
            Sending(k) /\ call'["rds"].msg.data = call["rds"].msg.data,
         \A k \in Blocks : Sending(k) /\ ~Sending(k)' => Answered,
         Exchanging("rds")' /\ call'["rds"].msg.type = "RREQ" =>
            /\ Exchanging("rds") /\ call'["rds"].msg = call["rds"].msg
            /\ call'["rds"].at = "OK" =>
                 \/ call["rds"].at = "OK" /\ call'["rds"].resp = call["rds"].resp
                 \/ \E r \in toClient : /\ r.type = "RREQ"
                                        /\ r.data = "none" \/ call'["rds"].resp = r.data
  PROVE  AskerInv' /\ SeenInv' /\ AnswerInv' /\ GivenInv'
<1>1. \A x \in Bufs : \A q \in Users : Asks(x, q) => allow[q] \subseteq allow'[q]
  BY DEF AskerInv
<1>2. AskerInv'
  BY AskersStay
<1>3. SeenInv'
  <2>1. \A x \in Bufs : \A q \in Users : Asks(x, q)' => Asks(x, q)
    BY DEF Asks
  <2>2. \A k \in Blocks : \A b \in Bufs : Unsent(b, k) => Unsent(b, k)'
    BY DEF Unsent
  <2>3. Answered' => Answered
    BY DEF Answered
  <2> QED
    BY <1>1, <2>1, <2>2, <2>3, SeenStays DEF DataInv
<1>4. AnswerInv'
  BY <1>1, AnswerStays DEF DataInv
<1>5. GivenInv'
  <2>1. \A q \in Users : mbox[q] \in Bufs => ~Has(rd.reqq, mbox[q])
    BY DEF DiskInv, HeldInv
  <2> QED
    BY <2>1, GivenStays DEF AskerInv
<1> QED
  BY <1>2, <1>3, <1>4, <1>5

\* Steps that leave the buffers and what was read alone.
LEMMA QuietReads ==
  ASSUME status = "ok", DiskInv, DataInv, ReadInv,
         \A q \in Users : call'[q] = call[q] \/
            /\ call[q].at # "receive" /\ ~Reads(q)'
            /\ \A k \in Blocks : ~ToWrite(q, k)',
         UNCHANGED <<bufs, mbox, latest, allow, got, srv>>, toClient' \subseteq toClient,
         rd'.cache = rd.cache, rd'.reqq = rd.reqq,
         \A k \in Blocks : latest[k] # "none" => rd'.id = rd.id,
         \A k \in Blocks : Sending(k)' =>
            Sending(k) /\ call'["rds"].msg.data = call["rds"].msg.data,
         \A k \in Blocks : Sending(k) /\ ~Sending(k)' => Answered,
         Exchanging("rds")' /\ call'["rds"].msg.type = "RREQ" =>
            /\ Exchanging("rds") /\ call'["rds"].msg = call["rds"].msg
            /\ call'["rds"].at = "OK" =>
                 \/ call["rds"].at = "OK" /\ call'["rds"].resp = call["rds"].resp
                 \/ \E r \in toClient : /\ r.type = "RREQ"
                                        /\ r.data = "none" \/ call'["rds"].resp = r.data
  PROVE  ReadInv'
<1>1. LookInv'
  <2>1. \A q \in Users : \A k \in Blocks : ToWrite(q, k)' => ToWrite(q, k)
    BY DEF ToWrite
  <2> QED
    BY <2>1, LookStays DEF ReadInv
<1>2. AskerInv' /\ SeenInv' /\ AnswerInv' /\ GivenInv'
  BY WaitsStay DEF ReadInv
<1>3. LatestInv' /\ GotInv'
  BY LatestStays, GotStays DEF ReadInv
<1> QED
  BY <1>1, <1>2, <1>3 DEF ReadInv

\* Steps of an exchange.
LEMMA CommReads ==
  ASSUME status = "ok", DiskInv, WireInv, DataInv, ReadInv, NEW p \in Procs,
         call[p].at \in {"send", "recv"}, call'[p].at \in Talking, call'[p].msg = call[p].msg,
         \A q \in Procs : q # p => call'[q] = call[q],
         call'["rds"] = call["rds"]
            \/ (Waiting /\ Waiting' /\ call'["rds"].msg = call["rds"].msg)
            \/ (Waiting /\ Answered /\ ~Waiting' /\ call'["rds"].msg = call["rds"].msg),
         p = "rds" /\ call[p].msg.type = "RREQ" /\ call'[p].at = "OK" =>
            \E r \in toClient : r.type = "RREQ" /\ (r.data = "none" \/ call'[p].resp = r.data),
         toClient' \subseteq toClient, UNCHANGED <<rd, bufs, mbox, srv, latest, allow, got>>
  PROVE  ReadInv'
<1>1. TypeInv /\ RoleInv /\ "rds" \in Procs /\ "rds" \notin Users /\ Users \subseteq Procs
  BY WireTypes DEF DiskInv, WireInv
<1>2. ASSUME NEW q \in Users, call'[q] # call[q]
      PROVE  /\ call[q].at # "receive" /\ ~Reads(q)'
             /\ \A k \in Blocks : ~ToWrite(q, k)'
  <2>1. q = p /\ call[q].msg.type \in {"OREQ", "DREQ"}
    BY <1>1, <1>2 DEF RoleInv, Exchanging, Talking
  <2> QED
    BY <2>1 DEF Reads, ToWrite, Talking
<1>3. /\ \A k \in Blocks : Sending(k)' =>
            Sending(k) /\ call'["rds"].msg.data = call["rds"].msg.data
      /\ \A k \in Blocks : Sending(k) /\ ~Sending(k)' => Answered
  BY DEF Sending, Waiting
<1>4. ASSUME Exchanging("rds")', call'["rds"].msg.type = "RREQ"
      PROVE  /\ Exchanging("rds") /\ call'["rds"].msg = call["rds"].msg
             /\ call'["rds"].at = "OK" =>
                 \/ call["rds"].at = "OK" /\ call'["rds"].resp = call["rds"].resp
                 \/ \E r \in toClient : /\ r.type = "RREQ"
                                        /\ r.data = "none" \/ call'["rds"].resp = r.data
  <2>1. CASE p = "rds"
    BY <1>4, <2>1 DEF Exchanging, Talking
  <2>2. CASE p # "rds"
    BY <1>1, <1>4, <2>2 DEF Exchanging
  <2> QED
    BY <2>1, <2>2
<1> QED
  BY <1>2, <1>3, <1>4, QuietReads

LEMMA rdscommReads ==
  ASSUME DiskInv, WireInv, DataInv, ReadInv, NEW p \in Procs, rdscomm(p)
  PROVE  ReadInv'
<1>1. /\ call[p].at = "send" /\ status = "ok"
      /\ Goto(p, call[p], "recv") \/ Goto(p, call[p], "SYSERR")
      /\ UNCHANGED <<rd, bufs, mbox, latest, allow, got, toClient, srv>>
  BY DEF rdscomm, At, diskVars, ghosts
<1>2. /\ TypeInv /\ call \in [Procs -> CallType] /\ call[p] \in CallType
      /\ "recv" \in Places /\ "SYSERR" \in Places /\ "rds" \in Procs
  BY WireTypes DEF DiskInv, TypeInv, CallInv, Places
<1>3. /\ call'[p].at \in {"recv", "SYSERR"} /\ call'[p].msg = call[p].msg
      /\ \A q \in Procs : q # p => call'[q] = call[q]
  BY <1>1, <1>2, GotoType
<1>4. call'["rds"] = call["rds"]
      \/ (Waiting /\ Waiting' /\ call'["rds"].msg = call["rds"].msg)
  BY <1>1, <1>2, <1>3 DEF Waiting
<1> QED
  BY <1>1, <1>2, <1>3, <1>4, CommReads DEF Talking

LEMMA rdscommReplyReads ==
  ASSUME DiskInv, WireInv, DataInv, ReadInv, NEW p \in Procs, NEW r, rdscommReply(p, r)
  PROVE  ReadInv'
<1> DEFINE m == call[p].msg
           c == [call[p] EXCEPT !.resp = IF r.data = "none" THEN @ ELSE r.data]
           x == ~(r.seq < m.seq)
<1>1. /\ status = "ok" /\ r \in toClient /\ toClient' \subseteq toClient
      /\ CASE Mismatch(r, m) -> Again(p, c, x)
           [] ~Mismatch(r, m) /\ r.status # 0 -> Goto(p, c, "SYSERR")
           [] OTHER -> Goto(p, c, "OK")
      /\ UNCHANGED <<rd, bufs, mbox, latest, allow, got, srv>>
  BY DEF rdscommReply, At, diskVars, ghosts
<1>2. /\ TypeInv /\ call \in [Procs -> CallType] /\ call[p] \in CallType /\ r \in ReplyType
      /\ "OK" \in Places /\ "SYSERR" \in Places /\ x \in BOOLEAN
  BY <1>1, WireTypes DEF DiskInv, TypeInv, CallInv, NetType, Places
<1>3. /\ call[p].at = "recv" /\ call'[p].at \in Talking
      /\ \A q \in Procs : q # p => call'[q] = call[q]
      /\ call'["rds"] = call["rds"]
         \/ (Waiting /\ Waiting' /\ call'["rds"].msg = call["rds"].msg)
         \/ (Waiting /\ Answered /\ ~Waiting' /\ call'["rds"].msg = call["rds"].msg)
  BY <1>2, rdscommReplyWire
<1>4. c \in CallType /\ c.msg = m /\ (r.data = "none" \/ c.resp = r.data)
  BY <1>2 DEF CallType, ReplyType
<1> HIDE DEF c, x
<1>5. /\ call'[p].msg = m
      /\ call'[p].at = "OK" => r.type = m.type /\ call'[p].resp = c.resp
  <2>1. CASE Mismatch(r, m)
    BY <1>1, <1>2, <1>4, <2>1, AgainPlace
  <2>2. CASE ~Mismatch(r, m) /\ r.status # 0
    BY <1>1, <1>2, <1>4, <2>2, GotoType
  <2>3. CASE ~Mismatch(r, m) /\ ~(r.status # 0)
    <3>1. Goto(p, c, "OK")
      BY <1>1, <2>3
    <3>2. call'[p].msg = m
      BY <1>2, <1>4, <3>1, GotoType
    <3>3. call'[p].resp = c.resp
      BY <1>2, <1>4, <3>1 DEF Goto, CallType
    <3> QED
      BY <2>3, <3>2, <3>3 DEF Mismatch
  <2> QED
    BY <2>1, <2>2, <2>3
<1>6. p = "rds" /\ m.type = "RREQ" /\ call'[p].at = "OK" =>
         \E s \in toClient : s.type = "RREQ" /\ (s.data = "none" \/ call'[p].resp = s.data)
  BY <1>1, <1>4, <1>5
<1> QED
  BY <1>1, <1>3, <1>5, <1>6, CommReads

LEMMA rdscommTimeoutReads ==
  ASSUME Timely, DiskInv, WireInv, DataInv, ReadInv, NEW p \in Procs, rdscommTimeout(p)
  PROVE  ReadInv'
<1>1. /\ call[p].at = "recv" /\ Again(p, call[p], TRUE) /\ status = "ok"
      /\ UNCHANGED <<rd, bufs, mbox, latest, allow, got, toClient, srv>>
  BY DEF rdscommTimeout, At, diskVars, ghosts
<1>2. TypeInv /\ call \in [Procs -> CallType] /\ call[p] \in CallType
  BY DEF DiskInv, TypeInv, CallInv
<1>3. /\ call'[p].at \in {"send", "SYSERR"} /\ call'[p].msg = call[p].msg
      /\ \A q \in Procs : q # p => call'[q] = call[q]
  BY <1>1, <1>2, AgainPlace
<1>4. call'["rds"] = call["rds"]
      \/ (Waiting /\ Waiting' /\ call'["rds"].msg = call["rds"].msg)
  BY <1>2, rdscommTimeoutWire
<1> QED
  BY <1>1, <1>3, <1>4, CommReads DEF Talking

LEMMA LoseReads ==
  ASSUME DiskInv, DataInv, ReadInv, Lose
  PROVE  ReadInv'
<1>1. /\ status = "ok" /\ toClient' \subseteq toClient
      /\ UNCHANGED <<rd, bufs, call, mbox, latest, allow, got, srv>>
  BY DEF Lose, diskVars, ghosts
<1>2. /\ \A k \in Blocks : Sending(k)' <=> Sending(k)
      /\ Exchanging("rds")' <=> Exchanging("rds")
  BY <1>1 DEF Sending, Waiting, Exchanging
<1> QED
  BY <1>1, <1>2, QuietReads

----------------------------------------------------------------------------
\* The server handles a message.

\* What it has for block k after a message, if the disk is open before and after.
LEMMA ServeBlock ==
  ASSUME OneDisk, DiskInv, WireInv, DataInv, NEW m, Serve(m), NEW k \in Blocks, NEW V,
         m.id \in srv'.ofiles, rd.id \in srv.ofiles,
         Sending(k) => call["rds"].msg.data \in V,
         ~Sending(k) \/ Answered => k < Len(srv.files[rd.id]) /\ srv.files[rd.id][k + 1] \in V,
         ~Sending(k) \/ Answered'
  PROVE  k < Len(srv'.files[rd.id]) /\ srv'.files[rd.id][k + 1] \in V
<1> DEFINE a == Handle(srv, m)
           f == srv.files[rd.id]
<1>1. /\ m \in toServer /\ srv' = a.srv
      /\ toClient' = IF a.reply = NoReply THEN toClient ELSE toClient \cup {a.reply}
  BY DEF Serve
<1>2. /\ m \in Wire /\ SrvSound(srv) /\ m.id \in Ids /\ m.blk \in Nat /\ m.data \in Data
      /\ TypeInv /\ k \in Nat
  BY <1>1, WireTypes, RdsAssumption DEF TypeInv, SrvType, DiskInv, WireInv, SeqInv, Wire
<1>3. rd.id = m.id /\ m.id \notin BadIds /\ f \in Seq(Data)
  <2>1. rd.id \in Ids /\ rd.id \notin BadIds
    BY DEF DataInv, OpenInv
  <2> QED
    BY <1>2, <2>1 DEF OneDisk, SrvSound
<1>4. CASE Ignored(srv, m)
  <2>1. srv' = srv /\ toClient' = toClient
    BY <1>1, <1>4 DEF Handle, Answer
  <2>2. Answered' <=> Answered
    BY <2>1 DEF Answered
  <2> QED
    BY <2>1, <2>2
<1>5. CASE ~Ignored(srv, m) /\ m.type # "WREQ"
  <2>1. srv'.files = srv.files
    BY <1>1, <1>2, <1>3, <1>5, Handled
  <2>2. Answered' => Answered \/ m.type \in OfBlock
    BY <1>1, <1>2, HandleType DEF Answered
  <2>3. m.type \in OfBlock => ~Sending(k)
    BY <1>1, <1>2, <1>5, HandledIsCurrent DEF Sending
  <2> QED
    BY <2>1, <2>2, <2>3
<1>6. CASE ~Ignored(srv, m) /\ m.type = "WREQ"
  <2> DEFINE w == Written(f, m.blk, m.data)
  <2>1. Waiting /\ m = call["rds"].msg
    BY <1>1, <1>2, <1>6, HandledIsCurrent DEF OfBlock
  <2>2. srv'.files = [srv.files EXCEPT ![m.id] = w]
    BY <1>1, <1>2, <1>3, <1>6, Handled
  <2>3. srv'.files[rd.id] = w
    BY <1>2, <1>3, <2>2 DEF SrvSound
  <2>4. /\ m.blk < Len(w) /\ w[m.blk + 1] = m.data
        /\ \A j \in Nat : j # m.blk /\ j < Len(f) => j < Len(w) /\ w[j + 1] = f[j + 1]
    <3> HIDE DEF f
    <3> QED
      BY <1>2, <1>3, WrittenBlocks, ZenonT(60)
  <2> HIDE DEF w
  <2>5. Sending(k) <=> k = m.blk
    BY <1>6, <2>1 DEF Sending
  <2> QED
    BY <1>2, <2>1, <2>3, <2>4, <2>5
<1> QED
  BY <1>4, <1>5, <1>6

\* The answer to a read of a block that the server has.
LEMMA ReadAnswer ==
  ASSUME NEW s, SrvSound(s), NEW m, ~Ignored(s, m), m.type = "RREQ", m.id \notin BadIds,
         m.id \in s.ofiles, m.blk < Len(s.files[m.id])
  PROVE  Handle(s, m).reply.data = s.files[m.id][m.blk + 1]
<1> DEFINE z == [s EXCEPT !.seq = m.seq]
<1>1. z.ofiles = s.ofiles /\ z.files = s.files
  BY DEF SrvSound
<1>2. Handle(s, m) = rdread(z, m)
  BY DEF Handle
<1> HIDE DEF z
<1> QED
  BY <1>1, <1>2 DEF rdread, Answer, sndok, Reply

\* Nothing comes before the head.
LEMMA HeadFirst ==
  ASSUME NEW S, NEW s \in Seq(S), Distinct(s), s # << >>, NEW x
  PROVE  ~Ahead(s, x, Head(s))
<1>1. Len(s) \in Nat /\ Len(s) >= 1 /\ Head(s) = s[1]
  OBVIOUS
<1>2. ASSUME NEW i \in 1..Len(s), NEW j \in 1..Len(s), i < j, s[j] = Head(s) PROVE FALSE
  <2>1. 1 \in 1..Len(s) /\ j # 1
    BY <1>1, <1>2
  <2> QED
    BY <1>1, <1>2, <2>1 DEF Distinct
<1> QED
  BY <1>2 DEF Ahead

LEMMA ServeReads ==
  ASSUME OneDisk, DiskInv, WireInv, DataInv, ReadInv, NEW m, Serve(m)
  PROVE  ReadInv'
<1> DEFINE a == Handle(srv, m)
<1>1. /\ m \in toServer /\ srv' = a.srv
      /\ toClient' = IF a.reply = NoReply THEN toClient ELSE toClient \cup {a.reply}
      /\ IF m.id \in a.srv.ofiles THEN UNCHANGED <<latest, allow>>
         ELSE /\ latest' = [k \in Blocks |-> "none"]
              /\ allow' = [q \in Users |-> allow[q] \cup {"none"}]
      /\ UNCHANGED <<rd, bufs, call, mbox, got>>
  BY DEF Serve, diskVars
<1>2. /\ m \in Wire /\ SrvSound(srv) /\ TypeInv /\ ListInv
  BY <1>1, WireTypes DEF TypeInv, SrvType, DiskInv
<1>3. /\ \A b \in Bufs : \A k \in Blocks : Unsent(b, k)' <=> Unsent(b, k)
      /\ \A q \in Users : \A k \in Blocks : ToWrite(q, k)' <=> ToWrite(q, k)
      /\ \A k \in Blocks : Sending(k)' <=> Sending(k)
      /\ Exchanging("rds")' <=> Exchanging("rds")
      /\ \A x \in Bufs : \A q \in Users : Asks(x, q)' <=> Asks(x, q)
      /\ \A q \in Users : Reads(q)' <=> Reads(q)
      /\ \A x \in Bufs : \A k \in Blocks : FirstCopy(x, k)' <=> FirstCopy(x, k)
  BY <1>1 DEF Unsent, ToWrite, Sending, Waiting, Exchanging, Asks, Reads, FirstCopy
<1>4. AskerInv'
  BY <1>1, <1>3, AskersStay DEF ReadInv, Asks
<1>5. CASE m.id \notin a.srv.ofiles
  <2>1. /\ \A k \in Blocks : latest'[k] = "none"
        /\ \A q \in Users : ~Sure(q)'
    BY <1>1, <1>5 DEF Sure
  <2>2. LookInv'
    BY <1>1, <1>3, <2>1 DEF ReadInv, LookInv, ValidInv, FreshInv
  <2>3. LatestInv' /\ SeenInv' /\ GivenInv' /\ GotInv'
    BY <1>1, <1>3, <2>1 DEF ReadInv, LatestInv, SeenInv, GivenInv, GotInv
  <2>4. AnswerInv'
    BY <1>1, <1>3, <2>1, HeadAsks DEF ReadInv, AnswerInv, DataInv
  <2> QED
    BY <1>4, <2>2, <2>3, <2>4 DEF ReadInv
<1>6. CASE m.id \in a.srv.ofiles
  <2>1. UNCHANGED <<latest, allow>>
    BY <1>1, <1>6
  <2>2. LookInv'
    BY <1>1, <1>3, <2>1, LookStays DEF ReadInv
  <2>3. LatestInv' /\ GivenInv' /\ GotInv'
    BY <1>1, <2>1, LatestStays, GivenStays, GotStays DEF ReadInv
  <2>4. ASSUME NEW x \in Bufs, NEW q \in Users, Asks(x, q), bufs[x].op = "READ", Sure(q)
        PROVE  bufs[x].blk \in Blocks /\ rd.id \in srv.ofiles
    <3>1. call[q].at = "receive" /\ call[q].msg.type = "READ" /\ call[q].blk = bufs[x].blk
      BY <2>4 DEF ReadInv, AskerInv
    <3> QED
      BY <2>4, <3>1 DEF ReadInv, LatestInv, Reads, Sure, DataInv, OpenInv
  <2>5. SeenInv'
    <3> SUFFICES ASSUME NEW q \in Users, NEW x \in Bufs, NEW k \in Blocks,
                        Asks(x, q), bufs[x].op = "READ", bufs[x].blk = k, Sure(q),
                        \A b \in Bufs : Unsent(b, k) => ~Ahead(rd.reqq, b, x)
                 PROVE  /\ Sending(k) => call["rds"].msg.data \in allow[q]
                        /\ ~Sending(k) \/ Answered' =>
                             /\ k < Len(srv'.files[rd.id])
                             /\ srv'.files[rd.id][k + 1] \in allow[q]
      BY <1>1, <1>3, <2>1 DEF SeenInv, Arriving, Sure
    <3>1. Arriving(q, k) /\ rd.id \in srv.ofiles
      BY <2>4 DEF ReadInv, SeenInv
    <3> QED
      BY <1>1, <1>6, <3>1, ServeBlock DEF Arriving
  <2>6. AnswerInv'
    <3> DEFINE b == Head(rd.reqq)
    <3> SUFFICES ASSUME Exchanging("rds"), call["rds"].msg.type = "RREQ", NEW q \in Users,
                        bufs[b].pid = q, Sure(q), NEW r \in toClient', r.type = "RREQ"
                 PROVE  r.data \in allow[q]
      BY <1>1, <1>3, <2>1 DEF ReadInv, AnswerInv, Sure
    <3>1. CASE r \in toClient
      BY <3>1 DEF ReadInv, AnswerInv
    <3>2. CASE r \notin toClient
      <4>1. r = a.reply /\ r # NoReply
        BY <1>1, <3>2
      <4>2. m.type = "RREQ" /\ ~Ignored(srv, m)
        BY <1>2, <4>1, HandleType DEF Handle, Answer
      <4>3. Waiting /\ m = call["rds"].msg
        BY <1>1, <1>2, <4>2, HandledIsCurrent DEF OfBlock
      <4>4. b \in Bufs /\ bufs[b].op = "READ" /\ Asks(b, q) /\ m.blk = bufs[b].blk
        BY <4>3, HeadAsks DEF ReadInv, AnswerInv, DataInv
      <4>5. m.blk \in Blocks /\ rd.id \in srv.ofiles
        BY <2>4, <4>4
      <4>6. \A x \in Bufs : ~Ahead(rd.reqq, x, b)
        <5>1. rd.reqq \in Seq(Bufs) /\ Distinct(rd.reqq) /\ rd.reqq # << >>
          BY <1>2 DEF DiskInv, AskInv, Exchanging, Talking, ListInv, Divided
        <5> QED
          BY <5>1, HeadFirst
      <4> HIDE DEF b
      <4>7. Arriving(q, m.blk) /\ ~Sending(m.blk)
        BY <4>3, <4>4, <4>5, <4>6 DEF ReadInv, SeenInv, Sending
      <4>8. m.id = rd.id /\ m.id \notin BadIds
        <5>1. m.id \in Ids
          BY <1>1 DEF WireInv, SeqInv
        <5> QED
          BY <4>5, <5>1 DEF DataInv, OpenInv, OneDisk
      <4>9. r.data = srv.files[m.id][m.blk + 1]
        BY <1>2, <4>1, <4>2, <4>5, <4>7, <4>8, ReadAnswer DEF Arriving
      <4> QED
        BY <4>7, <4>8, <4>9 DEF Arriving
    <3> QED
      BY <3>1, <3>2
  <2> QED
    BY <1>4, <2>2, <2>3, <2>5, <2>6 DEF ReadInv
<1> QED
  BY <1>5, <1>6

----------------------------------------------------------------------------
\* The steps of a user.

\* A step of a user who neither waits for an answer nor will write or read.
LEMMA UserReads ==
  ASSUME status = "ok", DiskInv, DataInv, ReadInv, NEW p \in Users, call[p].at # "receive",
         \A q \in Procs : q # p => call'[q] = call[q],
         ~Reads(p)', \A k \in Blocks : ~ToWrite(p, k)',
         UNCHANGED <<bufs, mbox, latest, allow, got, srv, toClient>>,
         rd'.cache = rd.cache, rd'.reqq = rd.reqq,
         \A k \in Blocks : latest[k] # "none" => rd'.id = rd.id
  PROVE  ReadInv'
<1>1. Users \subseteq Procs /\ call'["rds"] = call["rds"]
  BY WireTypes DEF DiskInv
<1>2. \A q \in Users : call'[q] = call[q] \/
            /\ call[q].at # "receive" /\ ~Reads(q)'
            /\ \A k \in Blocks : ~ToWrite(q, k)'
  BY <1>1
<1>3. /\ \A k \in Blocks : Sending(k)' <=> Sending(k)
      /\ Exchanging("rds")' <=> Exchanging("rds")
  BY <1>1 DEF Sending, Waiting, Exchanging
<1> QED
  BY <1>1, <1>2, <1>3, QuietReads

LEMMA rdsopenReads ==
  ASSUME OneDisk, DiskInv, DataInv, ReadInv, NEW p \in Users, NEW id \in Ids, rdsopen(p, id)
  PROVE  ReadInv'
<1> DEFINE m == [NoMsg EXCEPT !.type = "OREQ", !.seq = rd.seq, !.id = id]
           c == [Idle EXCEPT !.at = "send", !.i = 1, !.msg = m]
<1>1. /\ May(p, "open")
      /\ rd' = [rd EXCEPT !.state = "PEND", !.id = id, !.seq = @ + 1]
      /\ call' = [call EXCEPT ![p] = c]
      /\ UNCHANGED <<bufs, mbox, latest, allow, got, srv, toClient>>
  BY DEF rdsopen, ghosts, netVars
<1>2. /\ status = "ok" /\ call[p].at = "idle" /\ p \in Procs /\ call \in [Procs -> CallType]
      /\ rd \in RdType
  BY <1>1, Called DEF TypeInv, DiskType
<1>3. c.at = "send" /\ c.msg.type = "OREQ"
  BY DEF Idle, NoMsg
<1> HIDE DEF m, c
<1>4. /\ call'[p] = c /\ \A q \in Procs : q # p => call'[q] = call[q]
      /\ rd'.id = id /\ rd'.cache = rd.cache /\ rd'.reqq = rd.reqq
  BY <1>1, <1>2 DEF RdType
<1>5. \A k \in Blocks : latest[k] # "none" => rd'.id = rd.id
  BY <1>4 DEF DataInv, OpenInv, OneDisk
<1>6. ~Reads(p)' /\ \A k \in Blocks : ~ToWrite(p, k)'
  BY <1>3, <1>4 DEF Reads, ToWrite
<1> QED
  BY <1>1, <1>2, <1>4, <1>5, <1>6, UserReads

LEMMA rdsopenRefusedReads ==
  ASSUME DiskInv, DataInv, ReadInv, NEW p \in Users, rdsopenRefused(p)
  PROVE  ReadInv'
<1>1. /\ May(p, "open")
      /\ rd' = [rd EXCEPT !.state = "PEND"]
      /\ UNCHANGED <<bufs, call, mbox, latest, allow, got, srv, toClient>>
  BY DEF rdsopenRefused, ghosts, netVars
<1>2. status = "ok" /\ call[p].at = "idle" /\ rd \in RdType
  BY <1>1, Called DEF TypeInv, DiskType
<1>3. rd'.id = rd.id /\ rd'.cache = rd.cache /\ rd'.reqq = rd.reqq
  BY <1>1, <1>2 DEF RdType
<1>4. ~Reads(p)' /\ \A k \in Blocks : ~ToWrite(p, k)'
  BY <1>1, <1>2 DEF Reads, ToWrite
<1> QED
  BY <1>1, <1>2, <1>3, <1>4, UserReads

LEMMA rdsopenDoneReads ==
  ASSUME DiskInv, DataInv, ReadInv, NEW p \in Users, rdsopenDone(p)
  PROVE  ReadInv'
<1>1. /\ call[p].at \in {"OK", "SYSERR"} /\ Return(p) /\ status = "ok"
      /\ rd' = [rd EXCEPT !.state = IF call[p].at = "OK" THEN "OPEN" ELSE "FREE"]
      /\ UNCHANGED <<bufs, mbox, latest, allow, got, srv, toClient>>
  BY DEF rdsopenDone, At, ghosts, netVars
<1>2. p \in Procs /\ call \in [Procs -> CallType] /\ rd \in RdType
  BY WireTypes DEF DiskInv, TypeInv, DiskType, CallInv
<1>3. call'[p].at = "idle" /\ \A q \in Procs : q # p => call'[q] = call[q]
  BY <1>1, <1>2, Returned
<1>4. rd'.id = rd.id /\ rd'.cache = rd.cache /\ rd'.reqq = rd.reqq
  BY <1>1, <1>2 DEF RdType
<1>5. ~Reads(p)' /\ \A k \in Blocks : ~ToWrite(p, k)'
  BY <1>3 DEF Reads, ToWrite
<1> QED
  BY <1>1, <1>3, <1>4, <1>5, UserReads

LEMMA rdsdeleteReads ==
  ASSUME DiskInv, DataInv, ReadInv, NEW p \in Users, rdsdelete(p)
  PROVE  ReadInv'
<1> DEFINE m == [NoMsg EXCEPT !.type = "DREQ"]
<1>1. /\ May(p, "delete") /\ rd' = [rd EXCEPT !.seq = @ + 1] /\ Exchange(p, Idle, m)
      /\ UNCHANGED <<bufs, mbox, latest, allow, got, srv, toClient>>
  BY DEF rdsdelete, ghosts, netVars
<1>2. /\ status = "ok" /\ call[p].at = "idle" /\ p \in Procs /\ call \in [Procs -> CallType]
      /\ rd \in RdType
  BY <1>1, Called DEF TypeInv, DiskType
<1>3. m \in MsgType /\ m.type = "DREQ" /\ Idle \in CallType
  BY IdleTypes DEF MsgType, Requested
<1> HIDE DEF m
<1>4. /\ call'[p].at = "send" /\ call'[p].msg.type = "DREQ"
      /\ \A q \in Procs : q # p => call'[q] = call[q]
  BY <1>1, <1>2, <1>3, ExchangeMsg
<1>5. rd'.id = rd.id /\ rd'.cache = rd.cache /\ rd'.reqq = rd.reqq
  BY <1>1, <1>2 DEF RdType
<1>6. ~Reads(p)' /\ \A k \in Blocks : ~ToWrite(p, k)'
  BY <1>4 DEF Reads, ToWrite
<1> QED
  BY <1>1, <1>2, <1>4, <1>5, <1>6, UserReads

\* A close, by a user who neither waits for an answer nor will write or read.
LEMMA ClosedReads ==
  ASSUME status = "ok", DiskInv, DataInv, ReadInv, Closed, NEW p \in Users,
         call[p].at # "receive", \A q \in Procs : q # p => call'[q] = call[q],
         ~Reads(p)', \A k \in Blocks : ~ToWrite(p, k)',
         UNCHANGED <<mbox, latest, allow, got, srv, toClient>>
  PROVE  ReadInv'
<1>1. /\ TypeInv /\ ListInv /\ Users \subseteq Procs /\ call'["rds"] = call["rds"]
  BY WireTypes DEF DiskInv
<1>2. /\ rd'.id = rd.id /\ rd'.reqq = rd.reqq
      /\ \A b \in Bufs : /\ bufs'[b].op = bufs[b].op /\ bufs'[b].blk = bufs[b].blk
                         /\ bufs'[b].data = bufs[b].data /\ bufs'[b].pid = bufs[b].pid
                         /\ bufs'[b].valid => bufs[b].valid
      /\ UNCHANGED <<rd, bufs>> \/ rd'.cache = << >>
  BY <1>1, ClosedKeeps
<1>3. /\ \A k \in Blocks : Sending(k)' <=> Sending(k)
      /\ Exchanging("rds")' <=> Exchanging("rds")
  BY <1>1 DEF Sending, Waiting, Exchanging
<1>4. \A q \in Users : call[q].at = "receive" => call'[q] = call[q]
  BY <1>1
<1>5. AskerInv' /\ SeenInv' /\ AnswerInv' /\ GivenInv'
  BY <1>1, <1>2, <1>3, <1>4, WaitsStay DEF ReadInv
<1>6. LatestInv' /\ GotInv'
  BY <1>1, LatestStays, GotStays DEF ReadInv
<1>7. LookInv'
  <2>1. \A q \in Users : \A k \in Blocks : ToWrite(q, k)' => ToWrite(q, k)
    BY <1>1 DEF ToWrite
  <2>2. CASE UNCHANGED <<rd, bufs>>
    BY <2>1, <2>2, LookStays DEF ReadInv
  <2>3. CASE rd'.cache = << >>
    <3>1. \A x \in Bufs : \A k \in Blocks : ~FirstCopy(x, k)'
      BY <2>3 DEF FirstCopy, Has
    <3>2. FreshInv'
      BY <3>1 DEF FreshInv
    <3>3. \A x \in Bufs : bufs'[x].refcnt = bufs[x].refcnt
      BY <1>1, ClosedMoves
    <3>4. ValidInv'
      BY <1>2, <3>3 DEF ReadInv, LookInv, ValidInv
    <3> QED
      BY <3>2, <3>4 DEF LookInv
  <2> QED
    BY <1>2, <2>2, <2>3
<1> QED
  BY <1>5, <1>6, <1>7 DEF ReadInv

LEMMA rdscloseReads ==
  ASSUME DiskInv, DataInv, ReadInv, NEW p \in Users, rdsclose(p)
  PROVE  ReadInv'
<1>1. /\ May(p, "close") /\ Closed
      /\ UNCHANGED <<call, mbox, latest, allow, got, srv, toClient>>
  BY DEF rdsclose, ghosts, netVars
<1>2. status = "ok" /\ call[p].at = "idle"
  BY <1>1 DEF May
<1>3. ~Reads(p)' /\ \A k \in Blocks : ~ToWrite(p, k)'
  BY <1>1, <1>2 DEF Reads, ToWrite
<1> QED
  BY <1>1, <1>2, <1>3, ClosedReads

LEMMA rdsdeleteDoneReads ==
  ASSUME DiskInv, DataInv, ReadInv, NEW p \in Users, rdsdeleteDone(p)
  PROVE  ReadInv'
<1>1. /\ call[p].at \in {"OK", "SYSERR"} /\ Return(p) /\ status = "ok"
      /\ Closed \/ UNCHANGED <<rd, bufs>>
      /\ UNCHANGED <<mbox, latest, allow, got, srv, toClient>>
  BY DEF rdsdeleteDone, At, ghosts, netVars
<1>2. p \in Procs /\ call \in [Procs -> CallType]
  BY WireTypes DEF DiskInv, TypeInv, CallInv
<1>3. call'[p].at = "idle" /\ \A q \in Procs : q # p => call'[q] = call[q]
  BY <1>1, <1>2, Returned
<1>4. ~Reads(p)' /\ \A k \in Blocks : ~ToWrite(p, k)'
  BY <1>3 DEF Reads, ToWrite
<1> QED
  BY <1>1, <1>3, <1>4, ClosedReads, UserReads

LEMMA rdssyncReads ==
  ASSUME DiskInv, DataInv, ReadInv, NEW p \in Users, rdssync(p)
  PROVE  ReadInv'
<1> DEFINE c == [Idle EXCEPT !.msg.type = "SYNC"]
<1>1. /\ May(p, "sync") /\ Goto(p, c, "alloc")
      /\ UNCHANGED <<rd, bufs, mbox, latest, allow, got, srv, toClient>>
  BY DEF rdssync, ghosts, netVars
<1>2. /\ status = "ok" /\ call[p].at = "idle" /\ p \in Procs /\ call \in [Procs -> CallType]
      /\ "alloc" \in Places
  BY <1>1, Called DEF Places
<1>3. c \in CallType /\ c.msg.type = "SYNC"
  <2> DEFINE m == [NoMsg EXCEPT !.type = "SYNC"]
             d == [Idle EXCEPT !.msg = m]
  <2>1. m \in MsgType /\ m.type = "SYNC"
    BY IdleTypes DEF MsgType, Ops
  <2>2. c = d
    BY DEF Idle
  <2> HIDE DEF m, c
  <2>3. d \in CallType /\ d.msg = m
    BY <2>1, IdleTypes DEF CallType
  <2> QED
    BY <2>1, <2>2, <2>3
<1> HIDE DEF c
<1>4. /\ call'[p].msg.type = "SYNC" /\ \A q \in Procs : q # p => call'[q] = call[q]
  BY <1>1, <1>2, <1>3, GotoType
<1>5. ~Reads(p)' /\ \A k \in Blocks : ~ToWrite(p, k)'
  BY <1>4 DEF Reads, ToWrite
<1> QED
  BY <1>1, <1>2, <1>4, <1>5, UserReads

----------------------------------------------------------------------------
\* The steps of a user that search the lists.

\* The copy of a block that a search of the cache finds comes first.
LEMMA CopyFound ==
  ASSUME ListInv, NEW k
  PROVE  /\ InCache(k) # {} => Cached(k) \in Bufs /\ FirstCopy(Cached(k), k)
         /\ \A x \in Bufs : FirstCopy(x, k) => InCache(k) # {} /\ x = Cached(k)
<1> DEFINE i == Min(InCache(k))
<1>1. /\ rd.cache \in Seq(Bufs) /\ Distinct(rd.cache) /\ Len(rd.cache) \in Nat
      /\ DOMAIN rd.cache = 1..Len(rd.cache)
  BY DEF ListInv, Divided
<1>2. /\ InCache(k) \subseteq Nat
      /\ \A j \in 1..Len(rd.cache) : j \in InCache(k) <=> bufs[rd.cache[j]].blk = k
      /\ \A j \in InCache(k) : j \in 1..Len(rd.cache)
  BY <1>1 DEF InCache
<1>3. InCache(k) # {} => i \in InCache(k) /\ \A j \in InCache(k) : i <= j
  BY <1>2, LeastNat
<1>4. Cached(k) = rd.cache[i]
  BY DEF Cached
<1> HIDE DEF i
<1>5. ASSUME InCache(k) # {} PROVE Cached(k) \in Bufs /\ FirstCopy(Cached(k), k)
  <2>1. i \in 1..Len(rd.cache) /\ bufs[rd.cache[i]].blk = k
    BY <1>2, <1>3, <1>5
  <2>2. rd.cache[i] \in Bufs /\ Has(rd.cache, rd.cache[i])
    BY <1>1, <2>1 DEF Has
  <2>3. ASSUME NEW y \in Bufs, Ahead(rd.cache, y, rd.cache[i]), bufs[y].blk = k PROVE FALSE
    <3>1. PICK a \in 1..Len(rd.cache), b \in 1..Len(rd.cache) :
             a < b /\ rd.cache[a] = y /\ rd.cache[b] = rd.cache[i]
      BY <2>3 DEF Ahead
    <3>2. b = i
      BY <1>1, <2>1, <3>1 DEF Distinct
    <3>3. a \in InCache(k)
      BY <1>2, <2>3, <3>1
    <3>4. i <= a
      BY <1>3, <1>5, <3>3
    <3> QED
      BY <2>1, <3>1, <3>2, <3>4
  <2> QED
    BY <1>4, <2>1, <2>2, <2>3 DEF FirstCopy
<1>6. ASSUME NEW x \in Bufs, FirstCopy(x, k) PROVE InCache(k) # {} /\ x = Cached(k)
  <2>1. PICK j \in 1..Len(rd.cache) : rd.cache[j] = x
    BY <1>6 DEF FirstCopy, Has
  <2>2. j \in InCache(k)
    BY <1>2, <1>6, <2>1 DEF FirstCopy
  <2>3. i \in 1..Len(rd.cache) /\ i <= j /\ bufs[rd.cache[i]].blk = k /\ rd.cache[i] \in Bufs
    BY <1>1, <1>2, <1>3, <2>2
  <2>4. ~(i < j)
    BY <1>6, <2>1, <2>3 DEF FirstCopy, Ahead
  <2>5. i = j
    BY <2>1, <2>3, <2>4
  <2> QED
    BY <1>4, <2>1, <2>2, <2>5
<1> QED
  BY <1>5, <1>6

\* What rdsread finds.
LEMMA HitFound ==
  ASSUME TypeInv, ListInv, NEW k, Hit(k) # 0
  PROVE  /\ Hit(k) \in Bufs
         /\ (FirstCopy(Hit(k), k) /\ bufs[Hit(k)].valid) \/ Unsent(Hit(k), k)
<1>1. /\ rd.reqq \in Seq(Bufs) /\ Len(rd.reqq) \in Nat
      /\ DOMAIN rd.reqq = 1..Len(rd.reqq) /\ Requests(k) \subseteq 1..Len(rd.reqq)
  BY DEF ListInv, Divided, Requests
<1>2. Requests(k) # {} => Max(Requests(k)) \in Requests(k)
  BY <1>1, GreatestIndex
<1>3. CASE InCache(k) # {} /\ bufs[Cached(k)].valid
  BY <1>3, CopyFound DEF Hit
<1>4. CASE ~(InCache(k) # {} /\ bufs[Cached(k)].valid)
  <2>1. /\ Requests(k) # {} /\ bufs[LastRequest(k)].op = "WRITE"
        /\ Hit(k) = LastRequest(k)
    BY <1>4 DEF Hit
  <2>2. Max(Requests(k)) \in 1..Len(rd.reqq) /\ bufs[LastRequest(k)].blk = k
    BY <1>1, <1>2, <2>1 DEF Requests, LastRequest
  <2>3. LastRequest(k) \in Bufs /\ Has(rd.reqq, LastRequest(k))
    BY <1>1, <2>2 DEF LastRequest, Has
  <2> QED
    BY <2>1, <2>2, <2>3 DEF Unsent
<1> QED
  BY <1>3, <1>4

LEMMA rdsreadReads ==
  ASSUME DiskInv, DataInv, ReadInv, NEW p \in Users, NEW k \in Blocks, rdsread(p, k)
  PROVE  ReadInv'
<1> DEFINE c == [Idle EXCEPT !.blk = k, !.msg.type = "READ"]
<1>1. /\ May(p, "read")
      /\ \/ Hit(k) # 0 /\ Gets(p, bufs[Hit(k)].data) /\ UNCHANGED call
         \/ Goto(p, c, "alloc") /\ Gets(p, "none")
      /\ allow' = [allow EXCEPT ![p] = {latest[k]}]
      /\ UNCHANGED <<rd, bufs, mbox, latest, srv, toClient>>
  BY DEF rdsread, netVars
<1>2. /\ status = "ok" /\ call[p].at = "idle" /\ p \in Procs /\ TypeInv /\ ListInv
      /\ call \in [Procs -> CallType] /\ "alloc" \in Places /\ Users \subseteq Procs
      /\ allow \in [Users -> SUBSET Data] /\ got \in [Users -> Data] /\ "rds" \notin Users
  BY <1>1, Called, WireTypes DEF Places, TypeInv, GhostType, DiskInv
<1>3. /\ call'[p].at = "idle" \/ (/\ call'[p].at = "alloc" /\ call'[p].msg.type = "READ"
                                 /\ call'[p].blk = k)
      /\ \A q \in Procs : q # p => call'[q] = call[q]
  <2>1. CASE UNCHANGED call
    BY <1>2, <2>1
  <2>2. CASE Goto(p, c, "alloc")
    <3>1. c \in CallType
      BY RdsAssumption, PendingRead
    <3>2. c.msg.type = "READ" /\ c.blk = k
      BY DEF Idle, NoMsg
    <3> HIDE DEF c
    <3> QED
      BY <1>2, <2>2, <3>1, <3>2, GotoType
  <2> QED
    BY <1>1, <2>1, <2>2
<1>4. /\ allow'[p] = {latest[k]} /\ \A q \in Users : q # p => allow'[q] = allow[q]
      /\ \A q \in Users : q # p => got'[q] = got[q]
  BY <1>1, <1>2 DEF Gets
<1>5. LookInv'
  <2>1. \A q \in Users : \A j \in Blocks : ToWrite(q, j)' => ToWrite(q, j)
    BY <1>2, <1>3 DEF ToWrite
  <2> QED
    BY <1>1, <2>1, LookStays DEF ReadInv
<1>6. AskerInv' /\ SeenInv' /\ AnswerInv' /\ GivenInv'
  <2>1. call'["rds"] = call["rds"]
    BY <1>2, <1>3 DEF Procs
  <2>2. /\ \A j \in Blocks : Sending(j)' <=> Sending(j)
        /\ Exchanging("rds")' <=> Exchanging("rds")
    BY <2>1 DEF Sending, Waiting, Exchanging
  <2>3. \A q \in Users : call[q].at = "receive" =>
            call'[q] = call[q] /\ allow[q] \subseteq allow'[q]
    BY <1>2, <1>3, <1>4
  <2> QED
    BY <1>1, <1>2, <2>1, <2>2, <2>3, WaitsStay DEF ReadInv
<1>7. LatestInv'
  BY <1>1, <1>2, <1>3, <1>4 DEF ReadInv, LatestInv, Reads, Sure
<1>8. GotInv'
  <2>1. got'[p] = "none" \/ latest[k] = "none" \/ got'[p] = latest[k]
    <3>1. CASE Gets(p, "none")
      BY <1>2, <3>1 DEF Gets
    <3>2. CASE Hit(k) # 0 /\ Gets(p, bufs[Hit(k)].data)
      <4>1. got'[p] = bufs[Hit(k)].data
        BY <1>2, <3>2 DEF Gets
      <4>2. /\ Hit(k) \in Bufs
            /\ (FirstCopy(Hit(k), k) /\ bufs[Hit(k)].valid) \/ Unsent(Hit(k), k)
        BY <1>2, <3>2, HitFound
      <4>3. latest[k] # "none" => bufs[Hit(k)].data = latest[k]
        BY <4>2 DEF ReadInv, LookInv, FreshInv, DataInv, KeptInv
      <4> QED
        BY <4>1, <4>3
    <3> QED
      BY <1>1, <3>1, <3>2
  <2> QED
    BY <1>4, <2>1 DEF ReadInv, GotInv, Sure
<1> QED
  BY <1>5, <1>6, <1>7, <1>8 DEF ReadInv

\* A write is noted for those who are reading the block.
LEMMA UpdateAllows ==
  ASSUME TypeInv, LatestInv, NEW k \in Blocks, NEW v, Update(k, v),
         \A q \in Users : Reads(q)' => call'[q] = call[q]
  PROVE  LatestInv' /\ \A q \in Users : allow[q] \subseteq allow'[q]
<1> DEFINE new == IF rd.id \in srv.ofiles THEN v ELSE latest[k]
<1>1. latest \in [Blocks -> Data] /\ allow \in [Users -> SUBSET Data]
  BY DEF TypeInv, GhostType
<1>2. /\ latest'[k] = new /\ \A j \in Blocks : j # k => latest'[j] = latest[j]
      /\ \A q \in Users : allow'[q] = IF Reading(q, k) THEN allow[q] \cup {new} ELSE allow[q]
  BY <1>1 DEF Update
<1> HIDE DEF new
<1>3. \A q \in Users : allow[q] \subseteq allow'[q]
  BY <1>2
<1>4. ASSUME NEW q \in Users, Reads(q)'
      PROVE  call'[q].blk \in Blocks /\ (Sure(q)' => latest'[call'[q].blk] \in allow'[q])
  <2>1. Reads(q) /\ call'[q] = call[q] /\ call[q].blk \in Blocks
    BY <1>4 DEF LatestInv, Reads
  <2>2. CASE call[q].blk = k
    <3>1. Reading(q, k)
      BY <2>1, <2>2 DEF Reading, Reads
    <3> QED
      BY <1>2, <2>1, <2>2, <3>1
  <2>3. CASE call[q].blk # k
    BY <1>2, <1>3, <2>1, <2>3 DEF LatestInv, Sure
  <2> QED
    BY <2>1, <2>2, <2>3
<1> QED
  BY <1>3, <1>4 DEF LatestInv

\* A write of block k goes to the tail of the queue, and no valid copy is in the cache.
LEMMA AddReads ==
  ASSUME status = "ok", DiskInv, DataInv, ReadInv, NEW p \in Users, call[p].at # "receive",
         NEW k \in Blocks, NEW v, NEW b \in Bufs, ~Has(rd.reqq, b),
         \A q \in Users : mbox[q] # b,
         rd'.reqq = Append(rd.reqq, b), rd'.id = rd.id,
         bufs' = [bufs EXCEPT ![b] = Request(p, "WRITE", k, v)], Update(k, v),
         \A q \in Procs : q # p => call'[q] = call[q],
         ~Reads(p)', \A j \in Blocks : ~ToWrite(p, j)',
         \A x \in Bufs : \A j \in Blocks : FirstCopy(x, j)' /\ bufs'[x].valid =>
            j # k /\ x # b /\ FirstCopy(x, j),
         UNCHANGED <<mbox, got, srv, toClient>>
  PROVE  ReadInv'
<1>1. /\ TypeInv /\ ListInv /\ AskInv /\ bufs \in [Bufs -> BufType]
      /\ call'["rds"] = call["rds"] /\ Users \subseteq Procs /\ rd.reqq \in Seq(Bufs)
  BY WireTypes DEF DiskInv, TypeInv, DiskType, ListInv, Divided
<1>2. /\ bufs'[b].op = "WRITE" /\ bufs'[b].blk = k /\ bufs'[b].refcnt = 0
      /\ \A x \in Bufs : x # b => bufs'[x] = bufs[x]
  BY <1>1 DEF Request
<1>3. /\ \A x : Has(rd'.reqq, x) <=> Has(rd.reqq, x) \/ x = b
      /\ \A x, y : Ahead(rd.reqq, x, y) => Ahead(rd'.reqq, x, y)
  BY <1>1, AppendMembers, AppendAhead
<1>4. LatestInv' /\ \A q \in Users : allow[q] \subseteq allow'[q]
  <2>1. \A q \in Users : Reads(q)' => call'[q] = call[q]
    BY <1>1
  <2> QED
    BY <1>1, <2>1, UpdateAllows DEF ReadInv
<1>5. LookInv'
  <2>1. ValidInv'
    BY <1>2 DEF ReadInv, LookInv, ValidInv
  <2>2. \A j \in Blocks : j # k => latest'[j] = latest[j]
    BY <1>1, UpdateNoted DEF DataInv
  <2>3. ASSUME NEW j \in Blocks, NEW x \in Bufs, FirstCopy(x, j)', bufs'[x].valid
        PROVE  /\ \A y \in Bufs : ~Unsent(y, j)'
               /\ \A q \in Users : ~ToWrite(q, j)'
               /\ latest'[j] # "none" => bufs'[x].data = latest'[j]
    <3>1. j # k /\ x # b /\ FirstCopy(x, j) /\ bufs'[x] = bufs[x]
      BY <1>2, <2>3
    <3>2. /\ \A y \in Bufs : ~Unsent(y, j)
          /\ \A q \in Users : ~ToWrite(q, j)
          /\ latest[j] # "none" => bufs[x].data = latest[j]
      BY <2>3, <3>1 DEF ReadInv, LookInv, FreshInv
    <3>3. \A y \in Bufs : ~Unsent(y, j)'
      BY <1>2, <1>3, <3>1, <3>2 DEF Unsent
    <3>4. \A q \in Users : ~ToWrite(q, j)'
      BY <1>1, <3>2 DEF ToWrite
    <3> QED
      BY <2>2, <3>1, <3>2, <3>3, <3>4
  <2> QED
    BY <2>1, <2>3 DEF LookInv, FreshInv
<1>6. AskerInv'
  BY <1>1, <1>2, <1>3, AskersStay DEF ReadInv
<1>7. /\ \A j \in Blocks : Sending(j)' <=> Sending(j)
      /\ Answered' <=> Answered
      /\ Exchanging("rds")' <=> Exchanging("rds")
  BY <1>1 DEF Sending, Waiting, Answered, Exchanging
<1>8. SeenInv'
  <2>1. \A x \in Bufs : \A q \in Users : Asks(x, q)' =>
            Asks(x, q) /\ bufs'[x] = bufs[x] /\ allow[q] \subseteq allow'[q]
    BY <1>2, <1>3, <1>4 DEF Asks
  <2>2. \A j \in Blocks : \A x \in Bufs : Unsent(x, j) => Unsent(x, j)'
    BY <1>2, <1>3 DEF Unsent
  <2> QED
    BY <1>1, <1>3, <1>7, <2>1, <2>2, SeenStays DEF ReadInv, DataInv
<1>9. AnswerInv'
  <2>1. Exchanging("rds") /\ call["rds"].msg.type = "RREQ" => Head(rd'.reqq) = Head(rd.reqq)
    <3>1. rd.reqq # << >> => Head(Append(rd.reqq, b)) = Head(rd.reqq)
      BY <1>1
    <3> QED
      BY <1>1, <3>1 DEF AskInv, Exchanging, Talking
  <2>2. \A x \in Bufs : Has(rd.reqq, x) => bufs'[x] = bufs[x]
    BY <1>2
  <2> QED
    BY <1>1, <1>4, <1>7, <2>1, <2>2, AnswerStays DEF ReadInv, DataInv
<1>10. GivenInv'
  BY <1>2, <1>4, GivenStays DEF ReadInv
<1>11. GotInv'
  BY <1>4, GotStays DEF ReadInv
<1> QED
  BY <1>4, <1>5, <1>6, <1>8, <1>9, <1>10, <1>11 DEF ReadInv

\* The contents of a write on the queue are replaced.
LEMMA ReplaceReads ==
  ASSUME DiskInv, DataInv, ReadInv, NEW k \in Blocks, NEW v \in Data, Writes(k) # {},
         status = "ok", Replace(k, v), UNCHANGED <<mbox, got, srv, toClient>>
  PROVE  ReadInv'
<1> DEFINE b == rd.reqq[Min(Writes(k))]
<1>1. /\ bufs' = [bufs EXCEPT ![b].data = v] /\ Update(k, v)
      /\ UNCHANGED <<rd, call>>
  BY DEF Replace
<1>2. TypeInv /\ ListInv /\ bufs \in [Bufs -> BufType]
  BY DEF DiskInv, TypeInv, DiskType
<1>3. b \in Bufs /\ Unsent(b, k)
  BY <1>2, WritesFound
<1> HIDE DEF b
<1>4. /\ \A x \in Bufs : x # b => bufs'[x] = bufs[x]
      /\ \A x \in Bufs : /\ bufs'[x].op = bufs[x].op /\ bufs'[x].blk = bufs[x].blk
                         /\ bufs'[x].pid = bufs[x].pid /\ bufs'[x].valid = bufs[x].valid
                         /\ bufs'[x].refcnt = bufs[x].refcnt
  BY <1>1, <1>2, <1>3 DEF BufType
<1>5. \A j \in Blocks : j # k => latest'[j] = latest[j]
  BY <1>1, <1>2, UpdateNoted DEF DataInv
<1>6. LatestInv' /\ \A q \in Users : allow[q] \subseteq allow'[q]
  BY <1>1, <1>2, UpdateAllows DEF ReadInv
<1>7. LookInv'
  <2>1. ValidInv'
    BY <1>4 DEF ReadInv, LookInv, ValidInv
  <2>2. /\ \A x \in Bufs : \A j \in Blocks : Unsent(x, j)' <=> Unsent(x, j)
        /\ \A x \in Bufs : \A j \in Blocks : FirstCopy(x, j)' <=> FirstCopy(x, j)
        /\ \A q \in Users : \A j \in Blocks : ToWrite(q, j)' <=> ToWrite(q, j)
    BY <1>1, <1>4 DEF Unsent, FirstCopy, ToWrite
  <2>3. ASSUME NEW j \in Blocks, NEW x \in Bufs, FirstCopy(x, j), bufs[x].valid
        PROVE  j # k /\ bufs'[x] = bufs[x]
    <3>1. ~Unsent(b, j)
      BY <1>3, <2>3 DEF ReadInv, LookInv, FreshInv
    <3>2. j # k
      BY <1>3, <3>1
    <3> QED
      BY <1>3, <1>4, <2>3, <3>2 DEF FirstCopy, Unsent
  <2>4. FreshInv'
    BY <1>4, <1>5, <2>2, <2>3 DEF ReadInv, LookInv, FreshInv
  <2> QED
    BY <2>1, <2>4 DEF LookInv
<1>8. AskerInv' /\ SeenInv' /\ AnswerInv' /\ GivenInv'
  <2>1. /\ \A j \in Blocks : Sending(j)' <=> Sending(j)
        /\ Exchanging("rds")' <=> Exchanging("rds")
    BY <1>1 DEF Sending, Waiting, Exchanging
  <2>2. \A x \in Bufs : ~Has(rd.reqq, x) => bufs'[x].data = bufs[x].data
    BY <1>3, <1>4 DEF Unsent
  <2> QED
    BY <1>1, <1>4, <1>6, <2>1, <2>2, WaitsStay DEF ReadInv
<1>9. GotInv'
  BY <1>6, GotStays DEF ReadInv
<1> QED
  BY <1>6, <1>7, <1>8, <1>9 DEF ReadInv

\* The only copy of a block in the cache is taken for a write.
LEMMA TakeReads ==
  ASSUME DiskInv, DataInv, ReadInv, NEW p \in Users, call[p].at = "idle", NEW k \in Blocks,
         NEW v, Takeable(k), Take(p, k, v), status = "ok", status' = "ok",
         UNCHANGED <<mbox, got, srv, toClient>>
  PROVE  ReadInv'
<1> DEFINE i == Min(InCache(k))
           b == Cached(k)
           d == RemoveAt(rd.cache, i)
           r == Append(rd.reqq, b)
<1>1. /\ rd' = [rd EXCEPT !.cache = d, !.reqq = r]
      /\ bufs' = [bufs EXCEPT ![b] = Request(p, "WRITE", k, v)]
      /\ Update(k, v) /\ UNCHANGED call /\ ~(Cardinality(InCache(k)) > 1)
      /\ InCache(k) # {} /\ bufs[b].refcnt <= 0
  BY DEF Take, Takeable
<1>2. /\ TypeInv /\ ListInv /\ HeldInv /\ rd \in RdType /\ bufs \in [Bufs -> BufType]
      /\ rd.cache \in Seq(Bufs) /\ Distinct(rd.cache)
  BY DEF DiskInv, TypeInv, DiskType, ListInv, Divided
<1>3. i \in 1..Len(rd.cache) /\ b = rd.cache[i] /\ b \in Bufs /\ bufs[b].blk = k
  <2>1. i \in 1..Len(rd.cache) /\ b = rd.cache[i] /\ b \in Bufs
    BY <1>1, <1>2, Found
  <2>2. bufs[b].blk = k
    BY <1>1, <1>2, CopyFound DEF FirstCopy
  <2> QED
    BY <2>1, <2>2
<1>4. \A x \in Bufs : Has(rd.cache, x) /\ bufs[x].blk = k => x = b
  <2> SUFFICES ASSUME NEW j \in 1..Len(rd.cache), bufs[rd.cache[j]].blk = k
               PROVE  rd.cache[j] = b
    BY DEF Has
  <2> DEFINE S == InCache(k)
  <2>1. /\ S \subseteq 1..Len(rd.cache) /\ i \in S /\ j \in S /\ Len(rd.cache) \in Nat
        /\ DOMAIN rd.cache = 1..Len(rd.cache)
    <3>1. Len(rd.cache) \in Nat /\ DOMAIN rd.cache = 1..Len(rd.cache)
      BY <1>2, LenProperties
    <3>2. i \in 1..Len(rd.cache) /\ bufs[rd.cache[i]].blk = k
      BY <1>3
    <3>3. j \in 1..Len(rd.cache) /\ bufs[rd.cache[j]].blk = k
      OBVIOUS
    <3> HIDE DEF i
    <3> QED
      BY ONLY <3>1, <3>2, <3>3 DEF InCache
  <2>2. IsFiniteSet(S) /\ ~(Cardinality(S) > 1)
    <3>1. 1 \in Int /\ Len(rd.cache) \in Int
      BY <2>1
    <3>2. IsFiniteSet(1..Len(rd.cache))
      BY <3>1, FS_Interval, Zenon
    <3> QED
      BY <1>1, <2>1, <3>2, FS_Subset
  <2> HIDE DEF S, i
  <2>3. /\ IsFiniteSet(S \ {i}) /\ Cardinality(S \ {i}) = Cardinality(S) - 1
        /\ Cardinality(S) \in Nat
    BY <2>1, <2>2, FS_RemoveElement, FS_CardinalityType
  <2>4. Cardinality(S \ {i}) \in Nat
    BY <2>3, FS_CardinalityType
  <2>5. Cardinality(S \ {i}) = 0
    BY <2>2, <2>3, <2>4
  <2>6. S \ {i} = {}
    BY <2>3, <2>5, FS_EmptySet
  <2>7. j = i
    BY <2>1, <2>6
  <2> QED
    BY <1>3, <2>7
<1>5. ~Has(rd.reqq, b) /\ \A x : Has(d, x) <=> Has(rd.cache, x) /\ x # b
  <2> HIDE DEF i, b
  <2> QED
    BY <1>2, <1>3, CacheToQueue DEF ListInv
<1>6. \A x, y : Ahead(rd.cache, x, y) /\ x # b /\ y # b => Ahead(d, x, y)
  <2> HIDE DEF i, b
  <2> QED
    BY <1>2, <1>3, RemoveOrdered
<1> HIDE DEF i, b, d, r
<1>7. rd'.cache = d /\ rd'.reqq = r /\ rd'.id = rd.id
  BY <1>1, <1>2 DEF RdType
<1>8. \A q \in Users : mbox[q] # b
  BY <1>1, <1>2, <1>3 DEF HeldInv
<1>9. \A x \in Bufs : x # b => bufs'[x] = bufs[x]
  BY <1>1, <1>2
<1>10. \A x \in Bufs : \A j \in Blocks : FirstCopy(x, j)' /\ bufs'[x].valid =>
          j # k /\ x # b /\ FirstCopy(x, j)
  <2> SUFFICES ASSUME NEW x \in Bufs, NEW j \in Blocks, FirstCopy(x, j)'
               PROVE  j # k /\ x # b /\ FirstCopy(x, j)
    OBVIOUS
  <2>1. x # b /\ Has(rd.cache, x) /\ bufs'[x] = bufs[x] /\ bufs[x].blk = j
    BY <1>5, <1>7, <1>9 DEF FirstCopy
  <2>2. j # k
    BY <1>4, <2>1
  <2>3. ASSUME NEW y \in Bufs, Ahead(rd.cache, y, x) PROVE bufs[y].blk # j
    <3>1. CASE y = b
      BY <1>3, <2>2, <3>1
    <3>2. CASE y # b
      BY <1>6, <1>7, <1>9, <2>1, <2>3, <3>2 DEF FirstCopy
    <3> QED
      BY <3>1, <3>2
  <2> QED
    BY <2>1, <2>2, <2>3 DEF FirstCopy
<1>11. /\ \A j \in Blocks : ~ToWrite(p, j)'
       /\ ~Reads(p)' /\ \A q \in Procs : q # p => call'[q] = call[q]
  BY <1>1 DEF ToWrite, Reads
<1>12. rd'.reqq = Append(rd.reqq, b)
  BY <1>7 DEF r
<1> QED
  <2>1. /\ bufs' = [bufs EXCEPT ![b] = Request(p, "WRITE", k, v)] /\ Update(k, v)
        /\ call[p].at # "receive" /\ b \in Bufs /\ ~Has(rd.reqq, b) /\ rd'.id = rd.id
    BY <1>1, <1>3, <1>5, <1>7
  <2> QED
    BY <1>8, <1>10, <1>11, <1>12, <2>1, AddReads

LEMMA rdswriteReads ==
  ASSUME DiskInv, DataInv, ReadInv, NEW p \in Users, NEW k \in Mine[p], NEW v \in Vals,
         rdswrite(p, k, v), status' = "ok"
  PROVE  ReadInv'
<1> DEFINE c == [Idle EXCEPT !.blk = k, !.data = v, !.msg.type = "WRITE"]
<1>1. /\ May(p, "write") /\ UNCHANGED <<mbox, got, srv, toClient>>
      /\ \/ Writes(k) # {} /\ Replace(k, v)
         \/ Writes(k) = {} /\ Takeable(k) /\ Take(p, k, v)
         \/ /\ Writes(k) = {} /\ ~Takeable(k) /\ Goto(p, c, "alloc")
            /\ UNCHANGED <<rd, bufs, reqsem, latest, allow, status>>
  BY DEF rdswrite, netVars
<1>2. /\ status = "ok" /\ call[p].at = "idle" /\ p \in Procs /\ TypeInv /\ ListInv
      /\ k \in Blocks /\ k \in Nat /\ v \in Data /\ call \in [Procs -> CallType]
      /\ bufs \in [Bufs -> BufType] /\ "alloc" \in Places
  BY <1>1, Called, RdsAssumption DEF Data, Places, TypeInv, DiskType
<1>3. CASE Writes(k) # {} /\ Replace(k, v)
  BY <1>1, <1>2, <1>3, ReplaceReads
<1>4. CASE Writes(k) = {} /\ Takeable(k) /\ Take(p, k, v)
  BY <1>1, <1>2, <1>4, TakeReads
<1>5. CASE /\ Writes(k) = {} /\ ~Takeable(k) /\ Goto(p, c, "alloc")
           /\ UNCHANGED <<rd, bufs, reqsem, latest, allow, status>>
  <2>1. c \in CallType
    BY <1>2, PendingCall
  <2>2. c.blk = k /\ c.msg.type = "WRITE"
    BY DEF Idle, NoMsg
  <2> HIDE DEF c
  <2>3. /\ call'[p].at = "alloc" /\ call'[p].blk = k /\ call'[p].msg.type = "WRITE"
        /\ \A q \in Procs : q # p => call'[q] = call[q]
    BY <1>2, <1>5, <2>1, <2>2, GotoType
  <2>4. Users \subseteq Procs /\ call'["rds"] = call["rds"]
    BY <1>2, <2>3, WireTypes
  <2>5. LookInv'
    <3>1. ASSUME NEW x \in Bufs, FirstCopy(x, k), bufs[x].valid PROVE FALSE
      <4>1. InCache(k) # {} /\ x = Cached(k) /\ bufs[x].refcnt = 0
        BY <1>2, <3>1, CopyFound DEF ReadInv, LookInv, ValidInv
      <4> QED
        BY <1>5, <4>1 DEF Takeable
    <3>2. \A q \in Users : \A j \in Blocks : ToWrite(q, j)' => ToWrite(q, j) \/ j = k
      BY <2>3, <2>4 DEF ToWrite
    <3>3. /\ \A x \in Bufs : \A j \in Blocks : Unsent(x, j)' <=> Unsent(x, j)
          /\ \A x \in Bufs : \A j \in Blocks : FirstCopy(x, j)' <=> FirstCopy(x, j)
      BY <1>5 DEF Unsent, FirstCopy
    <3>4. ValidInv'
      BY <1>5 DEF ReadInv, LookInv, ValidInv
    <3>5. FreshInv'
      BY <1>5, <3>1, <3>2, <3>3 DEF ReadInv, LookInv, FreshInv
    <3> QED
      BY <3>4, <3>5 DEF LookInv
  <2>6. /\ \A j \in Blocks : Sending(j)' <=> Sending(j)
        /\ Exchanging("rds")' <=> Exchanging("rds")
    BY <2>4 DEF Sending, Waiting, Exchanging
  <2>7. \A q \in Users : call[q].at = "receive" => call'[q] = call[q]
    BY <1>2, <2>3, <2>4
  <2>8. AskerInv' /\ SeenInv' /\ AnswerInv' /\ GivenInv'
    BY <1>1, <1>2, <1>5, <2>4, <2>6, <2>7, WaitsStay DEF ReadInv
  <2>9. \A q \in Users : Reads(q)' => call'[q] = call[q]
    BY <2>3, <2>4 DEF Reads
  <2>10. LatestInv' /\ GotInv'
    BY <1>1, <1>5, <2>9, LatestStays, GotStays DEF ReadInv
  <2> QED
    BY <2>5, <2>8, <2>10 DEF ReadInv
<1> QED
  BY <1>1, <1>3, <1>4, <1>5

----------------------------------------------------------------------------
\* A request goes to the queue.

\* The buffer that rdsbufalloc gives is new on the queue, and no valid copy that was
\* hidden by another becomes the one that a search finds.
LEMMA AllocFirst ==
  ASSUME TypeInv, ListInv, ValidInv, rdsbufalloc # 0, NEW r,
         rd'.cache = IF rd.free # << >> THEN rd.cache ELSE RemoveAt(rd.cache, Max(Reusable)),
         bufs' = [bufs EXCEPT ![rdsbufalloc] = r]
  PROVE  /\ ~Has(rd.reqq, rdsbufalloc)
         /\ \A x \in Bufs : \A k \in Blocks : FirstCopy(x, k)' /\ bufs'[x].valid =>
               x # rdsbufalloc /\ FirstCopy(x, k)
<1> DEFINE b == rdsbufalloc
           d == rd'.cache
           m == Max(Reusable)
<1>1. /\ Divided(rd.free, rd.cache, rd.reqq) /\ bufs \in [Bufs -> BufType]
      /\ rd.cache \in Seq(Bufs) /\ Distinct(rd.cache) /\ Len(rd.cache) \in Nat
      /\ DOMAIN rd.cache = 1..Len(rd.cache)
  <2>1. Divided(rd.free, rd.cache, rd.reqq) /\ bufs \in [Bufs -> BufType]
    BY DEF ListInv, TypeInv, DiskType
  <2>2. rd.cache \in Seq(Bufs) /\ Distinct(rd.cache)
    BY <2>1 DEF Divided
  <2> QED
    BY <2>1, <2>2
<1>2. /\ b \in Bufs /\ ~Has(rd.reqq, b) /\ ~Has(d, b)
      /\ \A x : Has(d, x) => Has(rd.cache, x)
      /\ \A x \in Bufs : \A y \in Bufs :
            Has(d, x) /\ bufs[x].valid /\ Ahead(rd.cache, y, x) => y # b /\ Ahead(d, y, x)
  <2>1. CASE rd.free # << >>
    <3>1. b = Head(rd.free) /\ d = rd.cache
      BY <2>1 DEF rdsbufalloc
    <3>2. b \in Bufs /\ ~Has(rd.reqq, b) /\ ~Has(rd.cache, b)
      BY <1>1, <2>1, <3>1, FreeToQueue
    <3>3. \A x \in Bufs : \A y \in Bufs : Ahead(rd.cache, y, x) => y # b
      BY <3>2 DEF Ahead, Has
    <3> QED
      BY <3>1, <3>2, <3>3
  <2>2. CASE rd.free = << >>
    <3>1. b = rd.cache[m] /\ Reusable # {} /\ d = RemoveAt(rd.cache, m)
      BY <2>2 DEF rdsbufalloc
    <3>2. Reusable \subseteq 1..Len(rd.cache)
      BY <1>1 DEF Reusable
    <3>3. m \in 1..Len(rd.cache) /\ \A j \in Reusable : m >= j
      BY <1>1, <3>1, <3>2, GreatestIndex
    <3> HIDE DEF m, b, d
    <3>4. /\ b \in Bufs /\ ~Has(rd.reqq, b)
          /\ \A x : Has(d, x) <=> Has(rd.cache, x) /\ x # b
      BY <1>1, <3>1, <3>3, CacheToQueue
    <3>5. \A x, y : Ahead(rd.cache, y, x) /\ y # b /\ x # b => Ahead(d, y, x)
      BY <1>1, <3>1, <3>3, RemoveOrdered
    <3>6. ASSUME NEW x \in Bufs, bufs[x].valid, Ahead(rd.cache, b, x) PROVE FALSE
      <4>1. PICK i \in 1..Len(rd.cache), j \in 1..Len(rd.cache) :
               i < j /\ rd.cache[i] = b /\ rd.cache[j] = x
        BY <3>6 DEF Ahead
      <4>2. i = m
        BY <1>1, <3>1, <3>3, <4>1 DEF Distinct
      <4>3. bufs[rd.cache[j]].refcnt = 0
        BY <3>6, <4>1 DEF ValidInv
      <4>4. j \in Reusable
        BY <1>1, <4>1, <4>3 DEF Reusable
      <4>5. m >= j
        BY <3>3, <4>4
      <4> QED
        BY <3>3, <4>1, <4>2, <4>5
    <3>7. \A x \in Bufs : \A y \in Bufs :
             Has(d, x) /\ bufs[x].valid /\ Ahead(rd.cache, y, x) => y # b /\ Ahead(d, y, x)
      BY <3>4, <3>5, <3>6
    <3> QED
      BY <3>4, <3>7
  <2> QED
    BY <2>1, <2>2
<1> HIDE DEF b, d
<1>3. bufs' = [bufs EXCEPT ![b] = r]
  BY DEF b
<1>4. \A x \in Bufs : x # b => bufs'[x] = bufs[x]
  BY <1>1, <1>3
<1>5. ASSUME NEW x \in Bufs, NEW k \in Blocks, FirstCopy(x, k)', bufs'[x].valid
      PROVE  x # b /\ FirstCopy(x, k)
  <2>1. Has(d, x) /\ bufs'[x].blk = k /\ \A y \in Bufs : Ahead(d, y, x) => bufs'[y].blk # k
    BY <1>5 DEF FirstCopy, d
  <2>2. x # b /\ bufs'[x] = bufs[x] /\ Has(rd.cache, x)
    BY <1>2, <1>4, <2>1
  <2>3. ASSUME NEW y \in Bufs, Ahead(rd.cache, y, x) PROVE bufs[y].blk # k
    BY <1>2, <1>4, <1>5, <2>1, <2>2, <2>3
  <2> QED
    BY <2>1, <2>2, <2>3 DEF FirstCopy
<1> QED
  BY <1>2, <1>5 DEF b

\* A request that is answered goes to the tail of the queue.
LEMMA AskReads ==
  ASSUME status = "ok", DiskInv, DataInv, ReadInv, NEW p \in Users, call[p].at = "alloc",
         NEW b \in Bufs, ~Has(rd.reqq, b), \A q \in Users : mbox[q] # b,
         rd'.reqq = Append(rd.reqq, b), rd'.id = rd.id, call[p].msg.type # "WRITE",
         bufs' = [bufs EXCEPT
                    ![b] = Request(p, call[p].msg.type, call[p].blk, call[p].data)],
         call'[p].at = "receive", call'[p].msg = call[p].msg, call'[p].blk = call[p].blk,
         \A q \in Procs : q # p => call'[q] = call[q], mbox' = [mbox EXCEPT ![p] = 0],
         \A x \in Bufs : \A j \in Blocks : FirstCopy(x, j)' /\ bufs'[x].valid =>
            x # b /\ FirstCopy(x, j),
         UNCHANGED <<latest, allow, got, srv, toClient>>
  PROVE  ReadInv'
<1>0. 0 \notin Bufs
  BY BufNumbers
<1>1. /\ TypeInv /\ ListInv /\ AskInv /\ bufs \in [Bufs -> BufType]
      /\ call'["rds"] = call["rds"] /\ Users \subseteq Procs /\ rd.reqq \in Seq(Bufs)
      /\ mbox \in [Users -> 0..OK]
  BY WireTypes DEF DiskInv, TypeInv, DiskType, ListInv, Divided, NetType
<1>2. /\ bufs'[b].op = call[p].msg.type /\ bufs'[b].blk = call[p].blk /\ bufs'[b].pid = p
      /\ ~bufs'[b].valid
      /\ \A x \in Bufs : x # b => bufs'[x] = bufs[x]
  BY <1>1 DEF Request
<1>3. /\ \A x : Has(rd'.reqq, x) <=> Has(rd.reqq, x) \/ x = b
      /\ \A x, y : Ahead(rd.reqq, x, y) => Ahead(rd'.reqq, x, y)
      /\ \A x : Has(rd.reqq, x) => Ahead(rd'.reqq, x, b)
  BY <1>1, AppendMembers, AppendAhead
<1>4. mbox'[p] = 0 /\ \A q \in Users : q # p => mbox'[q] = mbox[q] /\ call'[q] = call[q]
  BY <1>1
<1>5. /\ \A x \in Bufs : \A q \in Users : Asks(x, q)' <=> Asks(x, q) \/ (x = b /\ q = p)
      /\ \A x \in Bufs : ~Asks(x, p)
  <2>1. ASSUME NEW x \in Bufs, NEW q \in Users
        PROVE  Asks(x, q)' <=> Asks(x, q) \/ (x = b /\ q = p)
    <3>1. CASE x = b
      BY <1>2, <1>3, <3>1 DEF Asks
    <3>2. CASE x # b
      BY <1>2, <1>3, <3>2 DEF Asks
    <3> QED
      BY <3>1, <3>2
  <2>2. \A x \in Bufs : ~Asks(x, p)
    <3>1. AskerInv
      BY DEF ReadInv
    <3> QED
      BY <3>1 DEF AskerInv
  <2> QED
    BY <2>1, <2>2
<1>6. \A x \in Bufs : \A j \in Blocks : Unsent(x, j)' <=> Unsent(x, j)
  BY <1>2, <1>3 DEF Unsent
<1>7. /\ \A j \in Blocks : Sending(j)' <=> Sending(j)
      /\ Answered' <=> Answered
      /\ Exchanging("rds")' <=> Exchanging("rds")
  BY <1>1 DEF Sending, Waiting, Answered, Exchanging
<1>8. LookInv'
  <2>1. ValidInv'
    BY <1>2 DEF ReadInv, LookInv, ValidInv
  <2>2. \A q \in Users : \A j \in Blocks : ToWrite(q, j)' => ToWrite(q, j)
    BY <1>4 DEF ToWrite
  <2>3. FreshInv'
    BY <1>2, <1>6, <2>2 DEF ReadInv, LookInv, FreshInv
  <2> QED
    BY <2>1, <2>3 DEF LookInv
<1>9. AskerInv'
  <2>1. \A x \in Bufs : Has(rd'.reqq, x) /\ bufs'[x].op # "WRITE" => bufs'[x].pid \in Users
    BY <1>2, <1>3 DEF ReadInv, AskerInv
  <2>2. ASSUME NEW q \in Users, NEW x \in Bufs, Asks(x, q)'
        PROVE  /\ call'[q].at = "receive" /\ call'[q].msg.type = bufs'[x].op
               /\ call'[q].blk = bufs'[x].blk /\ mbox'[q] = 0
               /\ \A y \in Bufs : Asks(y, q)' => x = y
    <3>1. CASE x = b /\ q = p
      BY <1>2, <1>4, <1>5, <3>1
    <3>2. CASE ~(x = b /\ q = p)
      <4>1. Asks(x, q) /\ q # p /\ x # b
        BY <1>5, <2>2, <3>2 DEF Asks
      <4> QED
        BY <1>2, <1>4, <1>5, <4>1 DEF ReadInv, AskerInv
    <3> QED
      BY <3>1, <3>2
  <2>3. ASSUME NEW q \in Users, mbox'[q] \in Bufs
        PROVE  call'[q].at = "receive" /\ call'[q].msg.type = "READ"
    BY <1>0, <1>4, <2>3 DEF ReadInv, AskerInv
  <2> QED
    BY <2>1, <2>2, <2>3 DEF AskerInv
<1>10. LatestInv'
  <2>1. \A q \in Users : Reads(q)' => Reads(q) /\ call'[q].blk = call[q].blk
    BY <1>4 DEF Reads
  <2> QED
    BY <2>1 DEF ReadInv, LatestInv, Sure
<1>11. SeenInv'
  <2> SUFFICES ASSUME NEW q \in Users, NEW x \in Bufs, NEW k \in Blocks,
                      Asks(x, q)', bufs'[x].op = "READ", bufs'[x].blk = k, Sure(q),
                      \A y \in Bufs : Unsent(y, k) => ~Ahead(rd'.reqq, y, x)
               PROVE  Arriving(q, k)
    BY <1>1, <1>6, <1>7 DEF SeenInv, Arriving, Sure
  <2>1. CASE x = b /\ q = p
    <3>1. \A y \in Bufs : ~Unsent(y, k)
      BY <1>3, <2>1 DEF Unsent
    <3>2. latest[k] \in allow[p] /\ latest[k] # "none"
      <4>1. Reads(p) /\ call[p].blk = k
        BY <1>2, <2>1 DEF Reads
      <4> QED
        BY <2>1, <4>1 DEF ReadInv, LatestInv, Sure
    <3> QED
      BY <2>1, <3>1, <3>2 DEF DataInv, KeptInv, InFile, Arriving
  <2>2. CASE ~(x = b /\ q = p)
    <3>1. Asks(x, q) /\ bufs'[x] = bufs[x]
      BY <1>2, <1>5, <2>2 DEF Asks
    <3> QED
      BY <1>3, <3>1 DEF ReadInv, SeenInv
  <2> QED
    BY <2>1, <2>2
<1>12. AnswerInv'
  <2>1. Exchanging("rds") /\ call["rds"].msg.type = "RREQ" => Head(rd'.reqq) = Head(rd.reqq)
    <3>1. rd.reqq # << >> => Head(Append(rd.reqq, b)) = Head(rd.reqq)
      BY <1>1
    <3> QED
      BY <1>1, <3>1 DEF AskInv, Exchanging, Talking
  <2>2. \A x \in Bufs : Has(rd.reqq, x) => bufs'[x] = bufs[x]
    BY <1>2
  <2> QED
    BY <1>1, <1>7, <2>1, <2>2, AnswerStays DEF ReadInv, DataInv
<1>13. GivenInv'
  BY <1>0, <1>2, <1>4, GivenStays DEF ReadInv
<1>14. GotInv'
  BY GotStays DEF ReadInv
<1> QED
  BY <1>8, <1>9, <1>10, <1>11, <1>12, <1>13, <1>14 DEF ReadInv

LEMMA EnqueueReads ==
  ASSUME DiskInv, DataInv, ReadInv, NEW p \in Users, Enqueue(p), status' = "ok"
  PROVE  ReadInv'
<1> DEFINE b == rdsbufalloc
           o == call[p]
           x == Request(p, o.msg.type, o.blk, o.data)
           f == IF rd.free # << >> THEN Tail(rd.free) ELSE rd.free
           c == IF rd.free # << >> THEN rd.cache ELSE RemoveAt(rd.cache, Max(Reusable))
           r == Append(rd.reqq, b)
<1>1. /\ status = "ok" /\ o.at = "alloc" /\ b # 0 /\ UNCHANGED <<got, srv, toClient>>
      /\ rd' = [rd EXCEPT !.free = f, !.cache = c, !.reqq = r]
      /\ bufs' = [bufs EXCEPT ![b] = x]
      /\ IF o.msg.type = "WRITE"
         THEN Return(p) /\ Update(o.blk, o.data) /\ UNCHANGED mbox
         ELSE /\ Goto(p, o, "receive") /\ mbox' = [mbox EXCEPT ![p] = 0]
              /\ UNCHANGED <<latest, allow>>
      /\ status' = IF \E q \in Users : mbox[q] = b THEN "reused" ELSE status
  BY DEF Enqueue, At, netVars
<1>2. /\ TypeInv /\ ListInv /\ p \in Procs /\ rd \in RdType /\ call \in [Procs -> CallType]
      /\ o \in CallType /\ Pending(o) /\ "receive" \in Places /\ ValidInv
  BY <1>1, WireTypes
     DEF DiskInv, TypeInv, DiskType, CallInv, Places, ReadInv, LookInv
<1>3. b \in Bufs
  BY <1>1, <1>2, Allocated
<1>4. \A q \in Users : mbox[q] # b
  BY <1>1
<1> HIDE DEF f, c, r
<1>5. rd'.id = rd.id /\ rd'.cache = c /\ rd'.reqq = r
  BY <1>1, <1>2 DEF RdType
<1>6. /\ ~Has(rd.reqq, b)
      /\ \A y \in Bufs : \A k \in Blocks : FirstCopy(y, k)' /\ bufs'[y].valid =>
            y # b /\ FirstCopy(y, k)
  <2>1. rd'.cache = IF rd.free # << >> THEN rd.cache ELSE RemoveAt(rd.cache, Max(Reusable))
    BY <1>5 DEF c
  <2> QED
    BY <1>1, <1>2, <2>1, AllocFirst
<1>7. rd'.reqq = Append(rd.reqq, b)
  BY <1>5 DEF r
<1> HIDE DEF b
<1>8. CASE o.msg.type = "WRITE"
  <2> DEFINE k == o.blk
  <2>1. ToWrite(p, k) /\ k \in Blocks /\ Update(k, o.data) /\ UNCHANGED mbox
    BY <1>1, <1>2, <1>8 DEF ToWrite, Pending
  <2>2. call'[p].at = "idle" /\ \A q \in Procs : q # p => call'[q] = call[q]
    BY <1>1, <1>2, <1>8, Returned
  <2>3. ~Reads(p)' /\ \A j \in Blocks : ~ToWrite(p, j)'
    BY <2>2 DEF Reads, ToWrite
  <2>4. \A y \in Bufs : \A j \in Blocks : FirstCopy(y, j)' /\ bufs'[y].valid =>
            j # k /\ y # b /\ FirstCopy(y, j)
    <3> SUFFICES ASSUME NEW y \in Bufs, NEW j \in Blocks, FirstCopy(y, j)', bufs'[y].valid
                 PROVE  j # k /\ y # b /\ FirstCopy(y, j)
      OBVIOUS
    <3>1. y # b /\ FirstCopy(y, j)
      BY <1>6
    <3>2. bufs[y].valid
      <4>1. bufs \in [Bufs -> BufType]
        BY <1>2 DEF TypeInv, DiskType
      <4> QED
        BY <1>1, <3>1, <4>1
    <3> QED
      BY <2>1, <3>1, <3>2 DEF ReadInv, LookInv, FreshInv
  <2>5. bufs' = [bufs EXCEPT ![b] = Request(p, "WRITE", k, o.data)] /\ o.at # "receive"
    BY <1>1, <1>8
  <2> HIDE DEF k
  <2> QED
    BY <1>1, <1>3, <1>4, <1>5, <1>6, <1>7, <2>1, <2>2, <2>3, <2>4, <2>5, AddReads
<1>9. CASE o.msg.type # "WRITE"
  <2>1. /\ call'[p].at = "receive" /\ call'[p].msg = o.msg /\ call'[p].blk = o.blk
        /\ \A q \in Procs : q # p => call'[q] = call[q]
    BY <1>1, <1>2, <1>9, GotoType
  <2>2. mbox' = [mbox EXCEPT ![p] = 0] /\ UNCHANGED <<latest, allow>>
    BY <1>1, <1>9
  <2> QED
    BY <1>1, <1>3, <1>4, <1>5, <1>6, <1>7, <1>9, <2>1, <2>2, AskReads
<1> QED
  BY <1>8, <1>9

\* A call that has waited for rdsprocess takes its message and returns.
LEMMA DoneReads ==
  ASSUME status = "ok", DiskInv, DataInv, ReadInv, NEW p \in Users, call[p].at = "receive",
         mbox[p] # 0, Return(p), mbox' = [mbox EXCEPT ![p] = 0],
         \A x \in Bufs : /\ bufs'[x].op = bufs[x].op /\ bufs'[x].blk = bufs[x].blk
                         /\ bufs'[x].data = bufs[x].data /\ bufs'[x].valid = bufs[x].valid
                         /\ bufs'[x].pid = bufs[x].pid
                         /\ bufs'[x].refcnt = bufs[x].refcnt \/ bufs'[x].refcnt = 0,
         GotInv', UNCHANGED <<rd, latest, allow, srv, toClient>>
  PROVE  ReadInv'
<1>0. 0 \notin Bufs
  BY BufNumbers
<1>1. /\ TypeInv /\ p \in Procs /\ call \in [Procs -> CallType] /\ Users \subseteq Procs
      /\ mbox \in [Users -> 0..OK] /\ "rds" \in Procs /\ "rds" \notin Users
  BY WireTypes DEF DiskInv, TypeInv, CallInv, NetType
<1>2. call'[p].at = "idle" /\ \A q \in Procs : q # p => call'[q] = call[q]
  BY <1>1, Returned
<1>3. mbox'[p] = 0 /\ \A q \in Users : q # p => mbox'[q] = mbox[q] /\ call'[q] = call[q]
  BY <1>1, <1>2
<1>4. /\ \A j \in Blocks : Sending(j)' <=> Sending(j)
      /\ Answered' <=> Answered
      /\ Exchanging("rds")' <=> Exchanging("rds")
      /\ call'["rds"] = call["rds"]
  BY <1>1, <1>2 DEF Sending, Waiting, Answered, Exchanging
<1>5. LookInv'
  <2>1. \A q \in Users : \A j \in Blocks : ToWrite(q, j)' => ToWrite(q, j)
    BY <1>2, <1>3 DEF ToWrite
  <2> QED
    BY <2>1, LookStays DEF ReadInv
<1>6. AskerInv'
  <2>1. \A x \in Bufs : ~Asks(x, p)
    BY DEF ReadInv, AskerInv
  <2> QED
    BY <1>3, <2>1, AskersStay DEF ReadInv
<1>7. LatestInv'
  <2>1. \A q \in Users : Reads(q)' => call'[q] = call[q]
    BY <1>2, <1>3 DEF Reads
  <2> QED
    BY <2>1, LatestStays DEF ReadInv
<1>8. SeenInv'
  <2>1. /\ \A x \in Bufs : \A q \in Users : Asks(x, q)' <=> Asks(x, q)
        /\ \A x \in Bufs : \A j \in Blocks : Unsent(x, j)' <=> Unsent(x, j)
    BY DEF Asks, Unsent
  <2> QED
    BY <1>4, <2>1, SeenStays DEF ReadInv, DataInv
<1>9. AnswerInv'
  BY <1>4, AnswerStays DEF ReadInv, DataInv
<1>10. GivenInv'
  BY <1>0, <1>3, GivenStays DEF ReadInv
<1> QED
  BY <1>5, <1>6, <1>7, <1>8, <1>9, <1>10 DEF ReadInv

LEMMA rdsreadDoneReads ==
  ASSUME DiskInv, DataInv, ReadInv, NEW p \in Users, rdsreadDone(p)
  PROVE  ReadInv'
<1> DEFINE b == mbox[p]
           n == bufs[b].refcnt - 1
<1>1. /\ status = "ok" /\ call[p].at = "receive" /\ b \in Bufs /\ Return(p)
      /\ bufs' = [bufs EXCEPT ![b].refcnt = n]
      /\ got' = [got EXCEPT ![p] = bufs[b].data]
      /\ mbox' = [mbox EXCEPT ![p] = 0]
      /\ UNCHANGED <<rd, latest, allow, srv, toClient>>
  BY DEF rdsreadDone, At, Gets, netVars
<1>2. /\ HeldInv /\ bufs \in [Bufs -> BufType] /\ got \in [Users -> Data]
  BY <1>1 DEF DiskInv, TypeInv, DiskType, GhostType
<1>3. n = 0 /\ b # 0
  BY <1>1, <1>2, BufNumbers DEF HeldInv
<1> HIDE DEF n, b
<1>4. \A x \in Bufs : /\ bufs'[x].op = bufs[x].op /\ bufs'[x].blk = bufs[x].blk
                      /\ bufs'[x].data = bufs[x].data /\ bufs'[x].valid = bufs[x].valid
                      /\ bufs'[x].pid = bufs[x].pid
                      /\ bufs'[x].refcnt = bufs[x].refcnt \/ bufs'[x].refcnt = 0
  BY <1>1, <1>2, <1>3 DEF BufType
<1>5. GotInv'
  <2>1. bufs[b].data \in allow[p] \/ ~Sure(p)
    BY <1>1 DEF ReadInv, GivenInv, b
  <2>2. got'[p] = bufs[b].data /\ \A q \in Users : q # p => got'[q] = got[q]
    BY <1>1, <1>2
  <2> QED
    BY <1>1, <2>1, <2>2 DEF ReadInv, GotInv, Sure
<1>6. mbox[p] # 0
  BY <1>3 DEF b
<1> QED
  BY <1>1, <1>4, <1>5, <1>6, DoneReads

LEMMA rdssyncDoneReads ==
  ASSUME DiskInv, DataInv, ReadInv, NEW p \in Users, rdssyncDone(p)
  PROVE  ReadInv'
<1>1. /\ status = "ok" /\ call[p].at = "receive" /\ mbox[p] # 0 /\ Return(p)
      /\ mbox' = [mbox EXCEPT ![p] = 0]
      /\ UNCHANGED <<rd, bufs, latest, allow, got, srv, toClient>>
  BY DEF rdssyncDone, At, diskVars, ghosts, netVars
<1>2. GotInv'
  BY <1>1, GotStays DEF ReadInv
<1> QED
  BY <1>1, <1>2, DoneReads

----------------------------------------------------------------------------
\* The steps of rdsprocess.

\* A step of rdsprocess that neither waits before nor after it, and moves no buffer.
LEMMA RestReads ==
  ASSUME status = "ok", DiskInv, DataInv, ReadInv, ~Waiting,
         call'["rds"].at \in {"idle", "head"}, \A q \in Users : call'[q] = call[q],
         UNCHANGED <<rd, bufs, mbox, latest, allow, got, srv, toClient>>
  PROVE  ReadInv'
<1>1. /\ ~Exchanging("rds")'
      /\ \A k \in Blocks : ~Sending(k) /\ ~Sending(k)'
  BY DEF Exchanging, Talking, Sending, Waiting
<1> QED
  BY <1>1, QuietReads

LEMMA rdsprocessReads ==
  ASSUME DiskInv, DataInv, ReadInv, rdsprocess \/ WriteServed
  PROVE  ReadInv'
<1>1. /\ status = "ok" /\ call["rds"].at \in {"idle", "OK"}
      /\ Goto("rds", call["rds"], "head") \/ Goto("rds", call["rds"], "idle")
      /\ UNCHANGED <<rd, bufs, mbox, latest, allow, got, srv, toClient>>
  BY DEF rdsprocess, WriteServed, At, diskVars, ghosts, netVars
<1>2. /\ "rds" \in Procs /\ "rds" \notin Users /\ Users \subseteq Procs
      /\ call \in [Procs -> CallType] /\ call["rds"] \in CallType
      /\ "head" \in Places /\ "idle" \in Places
  BY WireTypes DEF DiskInv, TypeInv, CallInv, Places
<1>3. call'["rds"].at \in {"idle", "head"} /\ \A q \in Procs : q # "rds" => call'[q] = call[q]
  BY <1>1, <1>2, GotoType
<1>4. ~Waiting /\ \A q \in Users : call'[q] = call[q]
  BY <1>1, <1>2, <1>3 DEF Waiting
<1> QED
  BY <1>1, <1>3, <1>4, RestReads

LEMMA ServeReadReads ==
  ASSUME DiskInv, WireInv, DataInv, ReadInv, ServeRead
  PROVE  ReadInv'
<1> DEFINE b == Head(rd.reqq)
           m == [NoMsg EXCEPT !.type = "RREQ", !.blk = bufs[b].blk]
<1>1. /\ status = "ok" /\ call["rds"].at = "head" /\ rd.reqq # << >>
      /\ rd' = [rd EXCEPT !.seq = @ + 1] /\ Exchange("rds", call["rds"], m)
      /\ UNCHANGED <<bufs, mbox, latest, allow, got, srv, toClient, netVars>>
  BY DEF ServeRead, Asked, At, ghosts, netVars
<1>2. rd \in RdType /\ ListInv /\ bufs \in [Bufs -> BufType]
  BY DEF DiskInv, TypeInv, DiskType
<1>3. m \in MsgType /\ m.type = "RREQ" /\ m.blk = bufs[b].blk
  <2>1. b \in Bufs
    BY <1>1, <1>2, QueueToCache DEF ListInv
  <2>2. bufs[b].blk \in Nat
    BY <1>2, <2>1 DEF BufType
  <2> HIDE DEF b
  <2> QED
    BY <2>2, IdleTypes DEF MsgType, Requested
<1> HIDE DEF m
<1>4. /\ rd'.seq = rd.seq + 1 /\ rd'.id = rd.id /\ rd'.reqq = rd.reqq
      /\ rd'.cache = rd.cache
  BY <1>1, <1>2 DEF RdType
<1>5. /\ call'["rds"].at = "send" /\ call'["rds"].msg.type = "RREQ"
      /\ call'["rds"].msg.blk = bufs[b].blk
      /\ \A q \in Users : call'[q] = call[q]
  BY <1>1, <1>3, <1>4, AskWire DEF OfBlock
<1>6. /\ \A k \in Blocks : ~Sending(k) /\ ~Sending(k)'
      /\ Answered' <=> Answered
      /\ \A q \in Users : \A k \in Blocks : ToWrite(q, k)' <=> ToWrite(q, k)
      /\ \A x \in Bufs : \A q \in Users : Asks(x, q)' <=> Asks(x, q)
      /\ \A x \in Bufs : \A k \in Blocks : Unsent(x, k)' <=> Unsent(x, k)
  BY <1>1, <1>4, <1>5 DEF Sending, Waiting, Answered, ToWrite, Asks, Unsent
<1>7. LookInv'
  BY <1>1, <1>4, <1>6, LookStays DEF ReadInv
<1>8. AskerInv'
  BY <1>1, <1>4, <1>5, AskersStay DEF ReadInv
<1>9. LatestInv' /\ GivenInv' /\ GotInv'
  BY <1>1, <1>5, LatestStays, GivenStays, GotStays DEF ReadInv
<1>10. SeenInv'
  BY <1>1, <1>4, <1>6, SeenStays DEF ReadInv, DataInv
<1>11. AnswerInv'
  <2>1. \A r \in toClient : r.type # "RREQ"
    BY <1>1 DEF WireInv, CopyInv, OfBlock, Waiting
  <2> QED
    BY <1>1, <1>4, <1>5, <2>1 DEF AnswerInv
<1> QED
  BY <1>7, <1>8, <1>9, <1>10, <1>11 DEF ReadInv

\* The buffer at the head of the queue goes to the head of the cache: there it hides
\* the copies of its block, and no other.
LEMMA FrontFirst ==
  ASSUME ListInv, rd.reqq # << >>, rd'.cache = <<Head(rd.reqq)>> \o rd.cache,
         bufs'[Head(rd.reqq)].blk = bufs[Head(rd.reqq)].blk,
         \A x \in Bufs : x # Head(rd.reqq) => bufs'[x] = bufs[x]
  PROVE  \A x \in Bufs : \A k \in Blocks : FirstCopy(x, k)' =>
            x = Head(rd.reqq) \/ (k # bufs[Head(rd.reqq)].blk /\ FirstCopy(x, k))
<1> DEFINE b == Head(rd.reqq)
           s == rd.cache
           t == <<b>> \o s
<1>1. Divided(rd.free, s, rd.reqq)
  BY DEF ListInv
<1>2. b \in Bufs /\ ~Has(s, b)
  <2> HIDE DEF s
  <2> QED
    BY <1>1, QueueToCache
<1>3. s \in Seq(Bufs) /\ Distinct(s)
  BY <1>1 DEF Divided
<1> HIDE DEF b, s
<1>4. /\ t \in Seq(Bufs) /\ Len(t) = Len(s) + 1 /\ Len(s) \in Nat
      /\ \A x : Has(t, x) <=> Has(s, x) \/ x = b
      /\ t[1] = b /\ \A i \in 1..Len(s) : t[i + 1] = s[i]
  BY <1>2, <1>3, Prepended
<1>5. rd'.cache = t
  BY DEF b, s
<1> HIDE DEF t
<1>6. \A i \in 1..Len(s) : i + 1 \in 1..Len(t) /\ 1 < i + 1 /\ 1 \in 1..Len(t)
  BY <1>4
<1>7. \A x, y : Ahead(s, y, x) => Ahead(t, y, x)
  <2> SUFFICES ASSUME NEW x, NEW y, Ahead(s, y, x) PROVE Ahead(t, y, x)
    OBVIOUS
  <2>1. PICK i \in 1..Len(s), j \in 1..Len(s) : i < j /\ s[i] = y /\ s[j] = x
    BY DEF Ahead
  <2>2. i + 1 < j + 1 /\ t[i + 1] = y /\ t[j + 1] = x
    BY <1>4, <2>1
  <2> QED
    BY <1>6, <2>2 DEF Ahead
<1>8. \A x : Has(s, x) => Ahead(t, b, x)
  BY <1>4, <1>6 DEF Has, Ahead
<1>9. ASSUME NEW x \in Bufs, NEW k \in Blocks, FirstCopy(x, k)', x # b
      PROVE  k # bufs[b].blk /\ FirstCopy(x, k)
  <2>1. /\ Has(t, x) /\ bufs'[x].blk = k /\ \A y \in Bufs : Ahead(t, y, x) => bufs'[y].blk # k
    BY <1>5, <1>9 DEF FirstCopy
  <2>2. Has(s, x) /\ bufs[x].blk = k
    BY <1>4, <1>9, <2>1 DEF b
  <2>3. k # bufs[b].blk
    BY <1>2, <1>8, <2>1, <2>2 DEF b
  <2>4. ASSUME NEW y \in Bufs, Ahead(s, y, x) PROVE bufs[y].blk # k
    <3>1. CASE y = b
      BY <2>3, <3>1
    <3>2. CASE y # b
      BY <1>7, <2>1, <2>4, <3>2 DEF b
    <3> QED
      BY <3>1, <3>2
  <2> QED
    BY <2>2, <2>3, <2>4 DEF FirstCopy, s
<1> QED
  BY <1>9 DEF b

\* The request at the head of the queue, which is no write, is answered to the user who
\* waits for it.
LEMMA AnsweredReads ==
  ASSUME status = "ok", DiskInv, DataInv, ReadInv, rd.reqq # << >>,
         rd'.reqq = Tail(rd.reqq), rd'.id = rd.id, bufs[Head(rd.reqq)].op # "WRITE",
         ~Waiting, call'["rds"].at = "idle", \A q \in Users : call'[q] = call[q],
         \A x \in Bufs : /\ bufs'[x].op = bufs[x].op /\ bufs'[x].blk = bufs[x].blk
                         /\ bufs'[x].pid = bufs[x].pid /\ bufs'[x].valid = bufs[x].valid
                         /\ x # Head(rd.reqq) => bufs'[x] = bufs[x],
         \A x \in Bufs : \A k \in Blocks : FirstCopy(x, k)' =>
            x = Head(rd.reqq) \/ FirstCopy(x, k),
         NEW m, Sent(bufs[Head(rd.reqq)].pid, m),
         m = Head(rd.reqq) =>
            /\ bufs[m].op = "READ"
            /\ Sure(bufs[m].pid) => bufs'[m].data \in allow[bufs[m].pid],
         m = Head(rd.reqq) \/ m \notin Bufs,
         UNCHANGED <<latest, allow, got, srv, toClient>>
  PROVE  ReadInv'
<1> DEFINE b == Head(rd.reqq)
           p == bufs[b].pid
<1>1. /\ TypeInv /\ ListInv /\ HeldInv /\ mbox \in [Users -> 0..OK] /\ rd.reqq \in Seq(Bufs)
      /\ 0 \notin Bufs
  BY BufNumbers DEF DiskInv, TypeInv, NetType, ListInv, Divided
<1>2. /\ b \in Bufs /\ Has(rd.reqq, b)
      /\ \A x : Has(rd'.reqq, x) <=> Has(rd.reqq, x) /\ x # b
  BY <1>1, HeadLeaves
<1>3. \A x, y : Ahead(rd.reqq, x, y) /\ x # b => Ahead(rd'.reqq, x, y)
  BY <1>1, TailOrdered
<1>4. p \in Users /\ Asks(b, p)
  BY <1>2 DEF ReadInv, AskerInv, Asks
<1>5. /\ call[p].at = "receive" /\ call[p].msg.type = bufs[b].op /\ mbox[p] = 0
      /\ \A y \in Bufs : Asks(y, p) => y = b
  BY <1>2, <1>4 DEF ReadInv, AskerInv
<1>6. /\ mbox'[p] = m /\ \A q \in Users : q # p => mbox'[q] = mbox[q]
  BY <1>1, <1>4, <1>5 DEF Sent
<1>7. /\ \A x \in Bufs : x # b => bufs'[x] = bufs[x]
      /\ bufs'[b].op = bufs[b].op /\ bufs'[b].valid = bufs[b].valid
      /\ ~bufs[b].valid
  BY <1>2 DEF ReadInv, LookInv, ValidInv
<1>8. /\ m = b \/ m \notin Bufs
      /\ m = b => bufs[b].op = "READ" /\ (Sure(p) => bufs'[b].data \in allow[p])
  OBVIOUS
<1>9. /\ bufs[b].op # "WRITE"
      /\ \A x \in Bufs : \A k \in Blocks : FirstCopy(x, k)' => x = b \/ FirstCopy(x, k)
  OBVIOUS
<1> HIDE DEF p, b
<1>10. /\ \A x \in Bufs : \A k \in Blocks : Unsent(x, k)' <=> Unsent(x, k)
       /\ \A x \in Bufs : \A q \in Users : Asks(x, q)' => Asks(x, q) /\ q # p
  <2>1. \A x \in Bufs : \A k \in Blocks : Unsent(x, k)' <=> Unsent(x, k)
    BY <1>2, <1>9 DEF Unsent
  <2>2. \A x \in Bufs : \A q \in Users : Asks(x, q)' => Asks(x, q) /\ x # b
    BY <1>2 DEF Asks
  <2> QED
    BY <1>5, <2>1, <2>2
<1>11. LookInv'
  <2>1. \A x \in Bufs : bufs'[x].valid => x # b /\ bufs'[x] = bufs[x]
    BY <1>7
  <2>2. ValidInv'
    BY <2>1 DEF ReadInv, LookInv, ValidInv
  <2>3. \A q \in Users : \A k \in Blocks : ToWrite(q, k)' <=> ToWrite(q, k)
    BY DEF ToWrite
  <2>4. FreshInv'
    BY <1>9, <1>10, <2>1, <2>3 DEF ReadInv, LookInv, FreshInv
  <2> QED
    BY <2>2, <2>4 DEF LookInv
<1>12. AskerInv'
  <2>1. \A x \in Bufs : Has(rd'.reqq, x) /\ bufs'[x].op # "WRITE" => bufs'[x].pid \in Users
    BY <1>2 DEF ReadInv, AskerInv
  <2>2. \A q \in Users : \A x \in Bufs : Asks(x, q)' =>
           /\ call'[q].at = "receive" /\ call'[q].msg.type = bufs'[x].op
           /\ call'[q].blk = bufs'[x].blk /\ mbox'[q] = 0
           /\ \A y \in Bufs : Asks(y, q)' => x = y
    BY <1>6, <1>10 DEF ReadInv, AskerInv
  <2>3. ASSUME NEW q \in Users, mbox'[q] \in Bufs
        PROVE  call'[q].at = "receive" /\ call'[q].msg.type = "READ"
    <3>1. CASE q = p
      BY <1>5, <1>6, <1>8, <2>3, <3>1
    <3>2. CASE q # p
      BY <1>6, <2>3, <3>2 DEF ReadInv, AskerInv
    <3> QED
      BY <3>1, <3>2
  <2> QED
    BY <2>1, <2>2, <2>3 DEF AskerInv
<1>13. LatestInv' /\ GotInv'
  BY LatestStays, GotStays DEF ReadInv
<1>14. /\ ~Exchanging("rds")' /\ \A k \in Blocks : ~Sending(k) /\ ~Sending(k)'
       /\ Answered' <=> Answered
  BY DEF Exchanging, Talking, Sending, Waiting, Answered
<1>15. SeenInv'
  <2>1. \A k \in Blocks : \A y \in Bufs : \A x \in Bufs :
            Unsent(y, k) /\ Ahead(rd.reqq, y, x) => Unsent(y, k)' /\ Ahead(rd'.reqq, y, x)
    BY <1>3, <1>9, <1>10 DEF Unsent
  <2> QED
    BY <1>10, <1>14, <2>1, SeenStays DEF ReadInv, DataInv
<1>16. AnswerInv'
  BY <1>14 DEF AnswerInv
<1>17. GivenInv'
  <2> SUFFICES ASSUME NEW q \in Users, mbox'[q] \in Bufs, Sure(q)
               PROVE  bufs'[mbox'[q]].data \in allow[q]
    BY DEF GivenInv, Sure
  <2>1. CASE q = p
    BY <1>6, <1>8, <2>1
  <2>2. CASE q # p
    <3>1. mbox'[q] = mbox[q] /\ mbox[q] # b
      BY <1>1, <1>2, <1>6, <2>2 DEF HeldInv
    <3> QED
      BY <1>7, <3>1 DEF ReadInv, GivenInv
  <2> QED
    BY <2>1, <2>2
<1> QED
  BY <1>11, <1>12, <1>13, <1>15, <1>16, <1>17 DEF ReadInv

LEMMA ServeSyncReads ==
  ASSUME DiskInv, DataInv, ReadInv, ServeSync
  PROVE  ReadInv'
<1> DEFINE b == Head(rd.reqq)
           f == <<b>> \o rd.free
<1>1. /\ status = "ok" /\ call["rds"].at = "head" /\ Goto("rds", call["rds"], "idle")
      /\ rd.reqq # << >> /\ bufs[b].op = "SYNC" /\ Sent(bufs[b].pid, OK)
      /\ rd' = [rd EXCEPT !.reqq = Tail(@), !.free = f]
      /\ UNCHANGED <<bufs, latest, allow, got, srv, toClient>>
  BY DEF ServeSync, Asked, At, ghosts, netVars
<1>2. /\ rd \in RdType /\ "rds" \in Procs /\ "rds" \notin Users /\ Users \subseteq Procs
      /\ call \in [Procs -> CallType] /\ call["rds"] \in CallType /\ "idle" \in Places
      /\ ListInv
  BY WireTypes DEF DiskInv, TypeInv, DiskType, CallInv, Places
<1> HIDE DEF f
<1>3. rd'.id = rd.id /\ rd'.reqq = Tail(rd.reqq) /\ rd'.cache = rd.cache
  BY <1>1, <1>2 DEF RdType
<1>4. call'["rds"].at = "idle" /\ \A q \in Users : call'[q] = call[q]
  BY <1>1, <1>2, GotoType
<1>5. \A x \in Bufs : \A k \in Blocks : FirstCopy(x, k)' <=> FirstCopy(x, k)
  BY <1>1, <1>3 DEF FirstCopy
<1>6. ~Waiting /\ b \in Bufs /\ OK \notin Bufs
  BY <1>1, <1>2, <1>3, HeadLeaves, BufNumbers DEF Waiting
<1> QED
  BY <1>1, <1>3, <1>4, <1>5, <1>6, AnsweredReads

LEMMA ReadServedReads ==
  ASSUME DiskInv, WireInv, DataInv, ReadInv, ReadServed, status' = "ok"
  PROVE  ReadInv'
<1> DEFINE b == Head(rd.reqq)
           c == <<b>> \o rd.cache
           v == call["rds"].resp
<1>1. /\ status = "ok" /\ call["rds"].at = "OK" /\ call["rds"].msg.type = "RREQ"
      /\ Goto("rds", call["rds"], "idle") /\ Sent(bufs[b].pid, b)
      /\ rd' = [rd EXCEPT !.reqq = Tail(@), !.cache = c]
      /\ bufs' = [bufs EXCEPT ![b].data = v, ![b].refcnt = 1]
      /\ UNCHANGED <<latest, allow, got, srv, toClient>>
  BY DEF ReadServed, At, ToCache, ghosts, netVars
<1>2. /\ rd \in RdType /\ "rds" \in Procs /\ "rds" \notin Users /\ Users \subseteq Procs
      /\ call \in [Procs -> CallType] /\ call["rds"] \in CallType /\ "idle" \in Places
      /\ ListInv /\ bufs \in [Bufs -> BufType]
  BY WireTypes DEF DiskInv, TypeInv, DiskType, CallInv, Places
<1>3. /\ b \in Bufs /\ bufs[b].op = "READ" /\ rd.reqq # << >> /\ ~Waiting
      /\ Sure(bufs[b].pid) => v \in allow[bufs[b].pid]
  <2>1. Exchanging("rds") /\ rd.reqq # << >>
    BY <1>1 DEF Exchanging, Talking, DiskInv, AskInv
  <2>2. b \in Bufs /\ bufs[b].op = "READ" /\ bufs[b].pid \in Users
    BY <1>1, <2>1, HeadAsks DEF ReadInv, DataInv
  <2> QED
    BY <1>1, <2>1, <2>2 DEF ReadInv, AnswerInv, Waiting
<1>4. rd'.id = rd.id /\ rd'.reqq = Tail(rd.reqq) /\ rd'.cache = c
  <2> HIDE DEF c
  <2> QED
    BY <1>1, <1>2 DEF RdType
<1>5. call'["rds"].at = "idle" /\ \A q \in Users : call'[q] = call[q]
  BY <1>1, <1>2, GotoType
<1>6. /\ \A x \in Bufs : /\ bufs'[x].op = bufs[x].op /\ bufs'[x].blk = bufs[x].blk
                         /\ bufs'[x].pid = bufs[x].pid /\ bufs'[x].valid = bufs[x].valid
                         /\ x # b => bufs'[x] = bufs[x]
      /\ bufs'[b].data = v
  <2> HIDE DEF b, v
  <2> QED
    BY <1>1, <1>2, <1>3 DEF BufType
<1> HIDE DEF v
<1>7. \A x \in Bufs : \A k \in Blocks : FirstCopy(x, k)' => x = b \/ FirstCopy(x, k)
  BY <1>2, <1>3, <1>4, <1>6, FrontFirst
<1> QED
  BY <1>1, <1>3, <1>4, <1>5, <1>6, <1>7, AnsweredReads

LEMMA ServeWriteReads ==
  ASSUME DiskInv, WireInv, DataInv, ReadInv, ServeWrite
  PROVE  ReadInv'
<1> DEFINE b == Head(rd.reqq)
           j == bufs[b].blk
           c == <<b>> \o rd.cache
           m == [NoMsg EXCEPT !.type = "WREQ", !.blk = j, !.data = bufs[b].data]
<1>1. /\ status = "ok" /\ call["rds"].at = "head" /\ rd.reqq # << >>
      /\ bufs[b].op = "WRITE"
      /\ rd' = [rd EXCEPT !.reqq = Tail(@), !.cache = c, !.seq = @ + 1]
      /\ bufs' = [bufs EXCEPT ![b].refcnt = 0]
      /\ Exchange("rds", call["rds"], m)
      /\ UNCHANGED <<mbox, latest, allow, got, srv, toClient, netVars>>
  BY DEF ServeWrite, Asked, At, ToCache, ghosts, netVars
<1>2. rd \in RdType /\ ListInv /\ bufs \in [Bufs -> BufType] /\ rd.reqq \in Seq(Bufs)
  BY DEF DiskInv, TypeInv, DiskType, ListInv, Divided
<1>3. rd'.seq = rd.seq + 1 /\ rd'.id = rd.id /\ rd'.reqq = Tail(rd.reqq) /\ rd'.cache = c
  <2> HIDE DEF c
  <2> QED
    BY <1>1, <1>2 DEF RdType
<1>4. /\ b \in Bufs /\ Has(rd.reqq, b)
      /\ \A x : Has(rd'.reqq, x) <=> Has(rd.reqq, x) /\ x # b
  BY <1>1, <1>2, <1>3, HeadLeaves
<1>5. m \in MsgType /\ m.type = "WREQ" /\ m.blk = j /\ m.data = bufs[b].data
  <2>1. bufs[b].blk \in Nat /\ bufs[b].data \in Data
    BY <1>2, <1>4 DEF BufType
  <2> HIDE DEF b
  <2> QED
    BY <2>1, IdleTypes DEF MsgType, Requested
<1> HIDE DEF m
<1>6. /\ call'["rds"].at = "send" /\ call'["rds"].msg.type = "WREQ"
      /\ call'["rds"].msg.blk = j /\ call'["rds"].msg.data = bufs[b].data
      /\ \A q \in Users : call'[q] = call[q]
  BY <1>1, <1>3, <1>5, AskWire DEF OfBlock
<1>7. /\ \A x \in Bufs : /\ bufs'[x].op = bufs[x].op /\ bufs'[x].blk = bufs[x].blk
                         /\ bufs'[x].pid = bufs[x].pid /\ bufs'[x].valid = bufs[x].valid
                         /\ bufs'[x].data = bufs[x].data
      /\ bufs'[b].refcnt = 0 /\ \A x \in Bufs : x # b => bufs'[x] = bufs[x]
  <2> HIDE DEF b
  <2> QED
    BY <1>1, <1>2, <1>4 DEF BufType
<1>8. \A x \in Bufs : \A k \in Blocks : FirstCopy(x, k)' =>
         x = b \/ (k # j /\ FirstCopy(x, k))
  <2> HIDE DEF j
  <2> QED
    BY <1>1, <1>2, <1>3, <1>7, FrontFirst DEF j
<1>9. /\ \A x \in Bufs : \A k \in Blocks : Unsent(x, k)' <=> Unsent(x, k) /\ x # b
      /\ \A k \in Blocks : Unsent(b, k) <=> k = j
      /\ \A x \in Bufs : \A q \in Users : Asks(x, q)' <=> Asks(x, q)
      /\ \A q \in Users : \A k \in Blocks : ToWrite(q, k)' <=> ToWrite(q, k)
  BY <1>1, <1>4, <1>6, <1>7 DEF Unsent, Asks, ToWrite
<1>10. /\ ~Answered' /\ \A k \in Blocks : ~Sending(k)
       /\ \A k \in Blocks : Sending(k)' <=> k = j
  BY <1>1, <1>6 DEF WireInv, CopyInv, Answered, Waiting, Sending
<1>11. \A x, y : Ahead(rd.reqq, x, y) /\ x # b => Ahead(rd'.reqq, x, y)
  BY <1>1, <1>2, <1>3, TailOrdered
<1> HIDE DEF b, j, c
<1>12. LookInv'
  <2>1. ValidInv'
    BY <1>7 DEF ReadInv, LookInv, ValidInv
  <2>2. ASSUME NEW k \in Blocks, NEW x \in Bufs, FirstCopy(x, k)', bufs'[x].valid
        PROVE  /\ \A y \in Bufs : ~Unsent(y, k)'
               /\ \A q \in Users : ~ToWrite(q, k)'
               /\ latest[k] # "none" => bufs'[x].data = latest[k]
    <3>1. CASE x = b
      <4>1. k = j
        BY <1>7, <2>2, <3>1 DEF FirstCopy, j, b
      <4>2. Unsent(b, k)
        BY <1>9, <4>1
      <4>3. /\ \A y \in Bufs : Unsent(y, k) => y = b
            /\ \A q \in Users : ~ToWrite(q, k)
        BY <1>4, <4>2 DEF DataInv, SoleInv
      <4>4. latest[k] # "none" => bufs[b].data = latest[k]
        BY <1>4, <4>2 DEF DataInv, KeptInv
      <4> QED
        BY <1>4, <1>7, <1>9, <3>1, <4>3, <4>4
    <3>2. CASE x # b
      <4>1. FirstCopy(x, k) /\ bufs[x].valid
        BY <1>7, <1>8, <2>2, <3>2
      <4> QED
        BY <1>7, <1>9, <4>1 DEF ReadInv, LookInv, FreshInv
    <3> QED
      BY <3>1, <3>2
  <2> QED
    BY <1>1, <2>1, <2>2 DEF LookInv, FreshInv
<1>13. AskerInv'
  BY <1>1, <1>4, <1>6, <1>7, AskersStay DEF ReadInv
<1>14. LatestInv' /\ GivenInv' /\ GotInv'
  BY <1>1, <1>6, <1>7, LatestStays, GivenStays, GotStays DEF ReadInv
<1>15. SeenInv'
  <2> SUFFICES ASSUME NEW q \in Users, NEW x \in Bufs, NEW k \in Blocks, Asks(x, q)',
                      bufs'[x].op = "READ", bufs'[x].blk = k, Sure(q),
                      \A y \in Bufs : Unsent(y, k)' => ~Ahead(rd'.reqq, y, x)
               PROVE  /\ k = j => bufs[b].data \in allow[q]
                      /\ k # j => /\ k < Len(srv.files[rd.id])
                                  /\ srv.files[rd.id][k + 1] \in allow[q]
    BY <1>1, <1>3, <1>6, <1>10 DEF SeenInv, Arriving, Sure
  <2>1. Asks(x, q) /\ bufs[x].op = "READ" /\ bufs[x].blk = k
    BY <1>7, <1>9
  <2>2. CASE k = j
    <3>1. Reads(q) /\ call[q].blk = k
      BY <2>1 DEF ReadInv, AskerInv, Reads
    <3>2. latest[k] \in allow[q] /\ latest[k] # "none"
      BY <3>1 DEF ReadInv, LatestInv, Sure
    <3>3. bufs[b].data = latest[k]
      BY <1>4, <1>9, <2>2, <3>2 DEF DataInv, KeptInv
    <3> QED
      BY <2>2, <3>2, <3>3
  <2>3. CASE k # j
    <3>1. \A y \in Bufs : Unsent(y, k) => ~Ahead(rd.reqq, y, x)
      BY <1>9, <1>11, <2>3
    <3>2. Arriving(q, k)
      BY <2>1, <3>1 DEF ReadInv, SeenInv
    <3> QED
      BY <1>10, <2>3, <3>2 DEF Arriving
  <2> QED
    BY <2>2, <2>3
<1>16. AnswerInv'
  BY <1>6 DEF AnswerInv
<1> QED
  BY <1>12, <1>13, <1>14, <1>15, <1>16 DEF ReadInv

----------------------------------------------------------------------------
\* Every read gives what was written last.

LEMMA InitReads == Init => ReadInv
<1> SUFFICES ASSUME Init PROVE ReadInv
  OBVIOUS
<1>1. /\ rd.cache = << >> /\ rd.reqq = << >> /\ bufs = [x \in Bufs |-> Empty]
      /\ mbox = [q \in Users |-> 0] /\ got = [q \in Users |-> "none"]
      /\ \A q \in Procs : call[q].at = "idle"
  BY DEF Init, Idle
<1>2. "rds" \in Procs /\ Users \subseteq Procs /\ 0 \notin Bufs
  BY BufNumbers DEF Procs
<1>3. /\ \A x \in Bufs : ~bufs[x].valid /\ ~Has(rd.reqq, x)
      /\ \A q \in Users : ~Reads(q) /\ mbox[q] \notin Bufs /\ got[q] = "none"
      /\ ~Exchanging("rds")
  BY <1>1, <1>2 DEF Empty, Has, Reads, Exchanging, Talking
<1>4. LookInv
  BY <1>3 DEF LookInv, ValidInv, FreshInv
<1>5. AskerInv /\ LatestInv /\ SeenInv /\ AnswerInv /\ GivenInv /\ GotInv
  BY <1>3 DEF AskerInv, LatestInv, SeenInv, Asks, AnswerInv, GivenInv, GotInv
<1> QED
  BY <1>4, <1>5 DEF ReadInv

SureInv == WriteInv /\ (status = "ok" => ReadInv)

LEMMA NextReads ==
  ASSUME OneDisk, SureInv, [Next]_vars, [Orderly]_vars
  PROVE  SureInv'
<1>1. WriteInv /\ WriteInv' /\ DiskInv
  BY NextWrites DEF SureInv, WriteInv
<1> SUFFICES ASSUME status' = "ok" PROVE ReadInv'
  BY <1>1 DEF SureInv
<1>2. CASE UNCHANGED vars
  <2>1. /\ status = "ok"
        /\ UNCHANGED <<rd, bufs, call, mbox, toClient, srv, latest, got, allow>>
    BY <1>2 DEF vars, diskVars, netVars, ghosts
  <2>2. DataInv /\ ReadInv
    BY <1>1, <2>1 DEF SureInv, WriteInv
  <2>3. /\ \A k \in Blocks : Sending(k)' <=> Sending(k)
        /\ Exchanging("rds")' <=> Exchanging("rds")
    BY <2>1 DEF Sending, Waiting, Exchanging
  <2> QED
    BY <1>1, <2>1, <2>2, <2>3, QuietReads
<1>3. ASSUME Next PROVE status = "ok"
  <2>1. ASSUME NEW p \in Users, Enter(p) PROVE status = "ok"
    BY <2>1 DEF Enter, rdsopen, rdsopenRefused, rdsclose, rdsdelete, rdssync, rdsread,
                    rdswrite, May
  <2>2. ASSUME NEW p \in Users, Proceed(p) PROVE status = "ok"
    BY <2>2 DEF Proceed, Enqueue, rdsreadDone, rdssyncDone, rdsopenDone, rdsdeleteDone, At
  <2>3. ASSUME NEW p \in Procs, Comm(p) PROVE status = "ok"
    BY <2>3 DEF Comm, rdscomm, rdscommReply, rdscommTimeout, At
  <2>4. CASE Rdsprocess
    BY <2>4 DEF Rdsprocess, rdsprocess, ServeRead, ServeWrite, ServeSync, ReadServed,
       WriteServed, Unreachable, Asked, At
  <2>5. (\E m \in toServer : Serve(m)) \/ Lose => status = "ok"
    BY DEF Serve, Lose
  <2> QED
    BY <1>3, <2>1, <2>2, <2>3, <2>4, <2>5 DEF Next
<1>4. CASE Next /\ Orderly
  <2>1. WireInv /\ DataInv /\ ReadInv /\ Timely
    BY <1>1, <1>3, <1>4 DEF SureInv, WriteInv, Orderly
  <2>2. ASSUME NEW p \in Users, Enter(p) PROVE ReadInv'
    BY <1>1, <2>1, <2>2, rdsopenReads, rdsopenRefusedReads, rdscloseReads,
       rdsdeleteReads, rdssyncReads,
       rdsreadReads, rdswriteReads DEF Enter
  <2>3. ASSUME NEW p \in Users, Proceed(p) PROVE ReadInv'
    BY <1>1, <2>1, <2>3, EnqueueReads, rdsreadDoneReads, rdssyncDoneReads, rdsopenDoneReads,
       rdsdeleteDoneReads DEF Proceed
  <2>4. ASSUME NEW p \in Procs, Comm(p) PROVE ReadInv'
    BY <1>1, <2>1, <2>4, rdscommReads, rdscommReplyReads, rdscommTimeoutReads DEF Comm
  <2>5. CASE Rdsprocess
    <3>1. ~Unreachable
      BY DEF Unreachable
    <3> QED
      BY <1>1, <2>1, <2>5, <3>1, rdsprocessReads, ServeReadReads, ServeWriteReads,
         ServeSyncReads, ReadServedReads DEF Rdsprocess
  <2>6. ASSUME NEW m, Serve(m) PROVE ReadInv'
    BY <1>1, <2>1, <2>6, ServeReads
  <2>7. CASE Lose
    BY <1>1, <2>1, <2>7, LoseReads
  <2> QED
    BY <1>4, <2>2, <2>3, <2>4, <2>5, <2>6, <2>7 DEF Next
<1> QED
  BY <1>2, <1>4

\* rdsread, rdswrite, rdsclose and rdsprocess: a read gives what was written last to the
\* block when the read was made, or since, whether the block is found in the cache, on the
\* request queue, or at the server after losses and retries, for any number of users,
\* blocks, buffers and retries.  The conditions are those of WritesStayKept, and the
\* property says nothing of a block that was never written or whose disk was deleted.
THEOREM ReadsStayLatest ==
  ASSUME OneDisk
  PROVE  Spec /\ [][Orderly]_vars => []ReadsLatest
<1>1. Init => SureInv
  BY InitWrites, InitReads DEF SureInv
<1>2. SureInv /\ [Next]_vars /\ [Orderly]_vars => SureInv'
  BY NextReads
<1>3. SureInv => ReadsLatest
  <2> SUFFICES ASSUME SureInv, status = "ok", NEW p \in Users
               PROVE  got[p] = "none" \/ allow[p] \cap {"none", got[p]} # {}
    BY DEF ReadsLatest
  <2>1. got[p] = "none" \/ got[p] \in allow[p] \/ "none" \in allow[p]
    BY DEF SureInv, ReadInv, GotInv, Sure
  <2> QED
    BY <2>1
<1> QED
  BY <1>1, <1>2, <1>3, PTL DEF Spec
=============================================================================

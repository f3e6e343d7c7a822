----------------------------- MODULE RfsProofs ------------------------------
(***************************************************************************)
(* The remote file system, for any number of processes, devices, tries and *)
(* calls, with a network that loses, delays and repeats messages: one call *)
(* at a time is inside the mutex, and as long as requests do not overtake  *)
(* one another what a call returns with success is true of the server.     *)
(***************************************************************************)
EXTENDS Rfs, QueueProofs

----------------------------------------------------------------------------
\* The invariant.

Letters == {"r", "w", "o", "n"}

\* The characters that the programs write, and the one that the server fills a hole with.
AllCalls == UNION {UNION {g.calls[p] : p \in Procs} : g \in Programs}
Chars == {"zero"} \cup UNION {Range(c.text) : c \in AllCalls}
Text == Seq(Chars)

Requests == {"OREQ", "RREQ", "WREQ", "SREQ", "DREQ", "TREQ", "MREQ", "XREQ"}
Types == Requests \cup {"none"}

MsgType == [type : Types, seq : Nat, name : DOMAIN Length, mode : SUBSET Letters,
            pos : Nat, len : Nat, data : Text]
ReplyType == [type : Types, seq : Nat, status : {0, 1}, len : Nat, data : Text]
BlockType == [state : {"FREE", "USED"}, name : DOMAIN Length, pos : Nat,
              mode : SUBSET Letters]
CallType == [at : {"user", "enter", "recv"}, op : Ops \cup {"none"}, slot : Slots,
             name : DOMAIN Length, num : Nat, text : Text, msg : MsgType,
             i : 0..RF_RETRIES]
ResultType == [ok : BOOLEAN, len : Nat, data : Text]

ServerTyped(s) ==
    /\ s = [files |-> s.files, dirs |-> s.dirs]
    /\ \A n \in DOMAIN s.files : s.files[n] \in Text

TypeInv ==
    /\ rfltab \in [Slots -> BlockType]
    /\ Rf_data \in [seq : Nat, registered : BOOLEAN, mutex : SemType(Procs)]
    /\ call \in [Procs -> CallType]
    /\ \A p \in Procs : call[p].op = "putc" => call[p].text # << >>
    /\ result \in [Procs -> ResultType]
    /\ toServer \in Seq(MsgType) /\ Len(toServer) <= MaxInTransit
    /\ toClient \subseteq ReplyType
    /\ ServerTyped(srv)
    /\ prog = [left |-> prog.left, calls |-> prog.calls]
    /\ \E g \in Programs : prog.calls = g.calls

\* Process p has the mutex.
Inside(p) == call[p].at # "user" /\ ~Has(Rf_data.mutex.queue, p)

\* One process at a time has the mutex; who waits for it has not begun.
MutexInv ==
    LET m == Rf_data.mutex IN
    /\ SemSound(m) /\ m.used /\ m.count <= 1
    /\ m.count = 1 => \A p \in Procs : call[p].at = "user"
    /\ \A p \in Procs : Has(m.queue, p) => call[p].at = "enter"
    /\ \A p, q \in Procs : Inside(p) /\ Inside(q) => p = q

\* Request m goes with a call of op.
Asks(op, m) ==
    /\ m.type = "WREQ" => m.len = Len(m.data)
    /\ \/ op = "open" /\ m.type = "OREQ"
       \/ op \in {"read", "getc"} /\ m.type = "RREQ"
       \/ op \in {"write", "putc"} /\ m.type = "WREQ"
       \/ op = "size" /\ m.type = "SREQ"
       \/ op \in Functions /\ m.type \in {"DREQ", "TREQ", "MREQ", "XREQ"}

\* A call that waits for the server has sent its own request, the last one to be
\* numbered, and a device that it opens is still free.
AskInv ==
    \A p \in Procs : call[p].at = "recv" =>
        /\ Asks(call[p].op, call[p].msg)
        /\ call[p].msg.seq + 1 = Rf_data.seq
        /\ call[p].op = "open" => call[p].slot \in Free

\* What request m asked for has been done, and the file is there.
Kept(m, s, r) ==
    /\ Done(m, s, r)
    /\ m.type \in {"TREQ", "WREQ"} => m.name \in DOMAIN s.files

\* The requests under way are in the order of their numbers, no answer is newer than
\* one of them, and the number of a call's request is that of no other.
OrderInv ==
    /\ \A k \in 1..Len(toServer) : toServer[k].seq < Rf_data.seq
    /\ \A j, k \in 1..Len(toServer) : j <= k => toServer[j].seq <= toServer[k].seq
    /\ \A r \in toClient : r.seq < Rf_data.seq
    /\ \A r \in toClient : \A k \in 1..Len(toServer) : r.seq <= toServer[k].seq
    /\ \A p \in Procs : call[p].at = "recv" =>
          \A k \in 1..Len(toServer) :
             toServer[k].seq = call[p].msg.seq => toServer[k] = call[p].msg

\* An answer that a call will take as its own is true.
TrueInv ==
    \A p \in Procs : call[p].at = "recv" =>
        \A r \in toClient :
            Matches(r, call[p].msg) /\ (r.status = 0 \/ call[p].msg.type = "SREQ") =>
                Kept(call[p].msg, srv, r)

RInv == TypeInv /\ MutexInv /\ AskInv
OInv == OrderInv /\ TrueInv

----------------------------------------------------------------------------
\* Texts and slices of texts.

\* The semaphores of SemOps are those the lemmas of QueueProofs are about.
LEMMA SameSem ==
  /\ \A x, p : wait(x, p) = Sem!wait(x, p) /\ Unwait(x, p) = Sem!Unwait(x, p)
  /\ \A x, p : Queued(x, p) <=> Sem!Queued(x, p)
  /\ \A x : signal(x) = Sem!signal(x)
  /\ \A x, n : signaln(x, n) = Sem!signaln(x, n) /\ semreset(x, n) = Sem!semreset(x, n)
  /\ \A n : semcreate(n) = Sem!semcreate(n)
  /\ NoSem = Sem!NoSem
<1>1. \A x, p : wait(x, p) = Sem!wait(x, p)
  BY DEF wait, Sem!wait
<1>2. \A x, p : Unwait(x, p) = Sem!Unwait(x, p)
  BY DEF Unwait, Sem!Unwait, RemoveAt, Sem!RemoveAt
<1>3. \A x, p : Queued(x, p) <=> Sem!Queued(x, p)
  BY DEF Queued, Sem!Queued, Range, Sem!Range
<1>4. \A x, n : signaln(x, n) = Sem!signaln(x, n)
  BY DEF signaln, Sem!signaln, Min, Sem!Min
<1>5. \A x : signal(x) = Sem!signal(x)
  BY <1>4 DEF signal, Sem!signal
<1>6. \A x, n : semreset(x, n) = Sem!semreset(x, n)
  BY DEF semreset, Sem!semreset
<1>7. (\A n : semcreate(n) = Sem!semcreate(n)) /\ NoSem = Sem!NoSem
  BY DEF semcreate, Sem!semcreate, NoSem, Sem!NoSem
<1> QED
  BY <1>1, <1>2, <1>3, <1>4, <1>5, <1>6, <1>7

\* Of two numbers Max is one, and the other is no greater.
LEMMA MaxOfTwo ==
  ASSUME NEW a \in Nat, NEW b \in Nat
  PROVE  /\ Max({a, b}) \in {a, b} /\ Max({a, b}) >= a /\ Max({a, b}) >= b
<1>1. \E x \in {a, b} : \A y \in {a, b} : x >= y
  <2>1. CASE a >= b
    <3>1. \A y \in {a, b} : a >= y
      BY <2>1
    <3> QED
      BY <3>1
  <2>2. CASE b >= a
    <3>1. \A y \in {a, b} : b >= y
      BY <2>2
    <3> QED
      BY <3>1
  <2> QED
    BY <2>1, <2>2
<1> QED
  BY <1>1 DEF Max

\* Of two numbers Min is one, and the other is no smaller.
LEMMA MinOfTwo ==
  ASSUME NEW a \in Nat, NEW b \in Nat
  PROVE  /\ Min({a, b}) \in {a, b} /\ Min({a, b}) <= a /\ Min({a, b}) <= b
<1>1. {a, b} \subseteq Nat /\ {a, b} # {}
  OBVIOUS
<1> QED
  BY <1>1, LeastNat

\* A function on 1..n with characters for values is a text of length n.
LEMMA TextMade ==
  ASSUME NEW n \in Nat, NEW f, f = [i \in 1..n |-> f[i]], \A i \in 1..n : f[i] \in Chars
  PROVE  f \in Text /\ Len(f) = n
<1>1. f \in [1..n -> Chars]
  OBVIOUS
<1>2. f \in Text
  BY <1>1 DEF Text
<1> QED
  BY <1>1, <1>2, LenProperties DEF Text

\* A slice of a text is a text.
LEMMA SliceText ==
  ASSUME NEW f \in Text, NEW pos \in Nat, NEW n \in Nat
  PROVE  Slice(f, pos, n) \in Text /\ Len(Slice(f, pos, n)) \in Nat
<1> DEFINE m == Min({pos + n, Len(f)})
<1>1. Len(f) \in Nat /\ m \in Nat /\ m <= Len(f)
  BY MinOfTwo DEF Text
<1> HIDE DEF m
<1>2. \A i \in (pos + 1)..m : f[i] \in Chars
  <2> TAKE i \in (pos + 1)..m
  <2>1. i \in 1..Len(f)
    BY <1>1
  <2> QED
    BY <2>1 DEF Text
<1>3. SubSeq(f, pos + 1, m) \in Text
  BY <1>1, <1>2, SubSeqProperties DEF Text
<1> QED
  BY <1>3, LenProperties DEF Slice, m, Text

\* What is written into a text is there afterwards, whatever was there before.
LEMMA OverlaidSlice ==
  ASSUME NEW f \in Text, NEW pos \in Nat, NEW d \in Text
  PROVE  /\ Overlaid(f, pos, d) \in Text
         /\ Slice(Overlaid(f, pos, d), pos, Len(d)) = d
<1> DEFINE g == Overlaid(f, pos, d)
           n == Max({Len(f), pos + Len(d)})
           w == (pos + 1)..(pos + Len(d))
<1>1. /\ Len(f) \in Nat /\ Len(d) \in Nat /\ pos + Len(d) \in Nat
      /\ n \in Nat /\ n >= Len(f) /\ n >= pos + Len(d)
  BY MaxOfTwo DEF Text
<1>2. g = [i \in 1..n |-> CASE i \in w -> d[i - pos]
                            [] i \notin w /\ i <= Len(f) -> f[i]
                            [] OTHER -> "zero"]
  BY DEF Overlaid
<1> HIDE DEF g, n
<1>3. \A i \in 1..n : i \in w => g[i] = d[i - pos] /\ i - pos \in 1..Len(d)
  BY <1>1, <1>2
<1>4. \A i \in 1..n : g[i] \in Chars
  <2> TAKE i \in 1..n
  <2>1. CASE i \in w
    BY <1>3, <2>1 DEF Text
  <2>2. CASE i \notin w /\ i <= Len(f)
    <3>1. g[i] = f[i] /\ i \in 1..Len(f)
      BY <1>1, <1>2, <2>2
    <3> QED
      BY <3>1 DEF Text
  <2>3. CASE i \notin w /\ ~(i <= Len(f))
    <3>1. g[i] = "zero"
      BY <1>2, <2>3
    <3> QED
      BY <3>1 DEF Chars
  <2> QED
    BY <2>1, <2>2, <2>3
<1>5. g = [i \in 1..n |-> g[i]]
  BY <1>2
<1>6. g \in Text /\ Len(g) = n
  BY <1>1, <1>4, <1>5, TextMade
<1>7. Min({pos + Len(d), Len(g)}) = pos + Len(d)
  BY <1>1, <1>6, MinOfTwo
<1> DEFINE h == SubSeq(g, pos + 1, pos + Len(d))
<1>8. \A i \in w : i \in 1..n
  BY <1>1
<1>9. h \in Text /\ Len(h) = Len(d) /\ \A i \in 1..Len(d) : h[i] = d[i]
  <2>1. \A i \in w : g[i] \in Chars
    BY <1>4, <1>8
  <2>2. /\ h \in Seq(Chars)
        /\ Len(h) = IF pos + 1 <= pos + Len(d) THEN pos + Len(d) - (pos + 1) + 1 ELSE 0
        /\ \A i \in 1..(pos + Len(d) - (pos + 1) + 1) : h[i] = g[pos + 1 + i - 1]
    BY <1>1, <2>1, SubSeqProperties
  <2> HIDE DEF h
  <2>3. Len(h) = Len(d) /\ pos + Len(d) - (pos + 1) + 1 = Len(d)
    BY <1>1, <2>2
  <2>4. ASSUME NEW i \in 1..Len(d) PROVE h[i] = d[i]
    <3>1. pos + 1 + i - 1 = pos + i /\ pos + i \in w /\ (pos + i) - pos = i
      BY <1>1
    <3>2. h[i] = g[pos + i]
      BY <2>2, <2>3, <3>1
    <3>3. g[pos + i] = d[(pos + i) - pos]
      BY <1>3, <1>8, <3>1
    <3> QED
      BY <3>1, <3>2, <3>3
  <2> QED
    BY <2>2, <2>3, <2>4 DEF Text
<1>10. h = d
  BY <1>9, SeqEqual DEF Text
<1> QED
  BY <1>6, <1>7, <1>10 DEF Slice, g

----------------------------------------------------------------------------
\* The server.

\* What is denied, and what the server holds after a request of each type.
LEMMA DeniedCases ==
  ASSUME NEW m \in MsgType
  PROVE  /\ m.type = "OREQ" => (Denied(m) <=> \/ "o" \in m.mode /\ m.name \notin DOMAIN srv.files
                                              \/ "n" \in m.mode /\ m.name \in DOMAIN srv.files)
         /\ m.type = "MREQ" => (Denied(m) <=> m.name \in srv.dirs)
         /\ m.type = "XREQ" => (Denied(m) <=> m.name \notin srv.dirs)
         /\ m.type \notin {"OREQ", "MREQ", "XREQ"} => (Denied(m) <=> m.name \notin DOMAIN srv.files)
BY DEF Denied

\* What a request that is not refused does to the files of the server.
LEMMA ChangedCases ==
  ASSUME NEW m \in MsgType, ServerTyped(srv)
  PROVE  LET F == srv.files
             n == m.name
             t == Changed(m)
         IN
         /\ t = [files |-> t.files, dirs |-> t.dirs]
         /\ m.type = "OREQ" /\ n \notin DOMAIN F => t.files = With(F, n, << >>) /\ t.dirs = srv.dirs
         /\ m.type = "WREQ" =>
               t.files = [F EXCEPT ![n] = Overlaid(F[n], m.pos, m.data)] /\ t.dirs = srv.dirs
         /\ m.type = "TREQ" => t.files = [F EXCEPT ![n] = << >>] /\ t.dirs = srv.dirs
         /\ m.type = "DREQ" => t.files = Without(F, n) /\ t.dirs = srv.dirs
         /\ m.type = "MREQ" => t.files = F /\ t.dirs = srv.dirs \cup {n}
         /\ m.type = "XREQ" => t.files = F /\ t.dirs = srv.dirs \ {n}
         /\ m.type \in {"RREQ", "SREQ", "none"} \/ (m.type = "OREQ" /\ n \in DOMAIN F) => t = srv
<1> DEFINE F == srv.files
           D == srv.dirs
           n == m.name
           t == Changed(m)
<1>1. srv = [files |-> F, dirs |-> D]
  BY DEF ServerTyped
<1>2. m.type \in Types
  BY DEF MsgType
<1>3. CASE m.type = "OREQ"
  BY <1>1, <1>3 DEF Changed
<1>4. CASE m.type = "WREQ"
  BY <1>1, <1>4 DEF Changed
<1>5. CASE m.type = "TREQ"
  BY <1>1, <1>5 DEF Changed
<1>6. CASE m.type = "DREQ"
  BY <1>1, <1>6 DEF Changed
<1>7. CASE m.type = "MREQ"
  BY <1>1, <1>7 DEF Changed
<1>8. CASE m.type = "XREQ"
  BY <1>1, <1>8 DEF Changed
<1>9. CASE m.type \in {"RREQ", "SREQ", "none"}
  BY <1>1, <1>9 DEF Changed
<1> QED
  BY <1>2, <1>3, <1>4, <1>5, <1>6, <1>7, <1>8, <1>9 DEF Types, Requests

\* The server answers with the number and the type of the request.
LEMMA AnswerTyped ==
  ASSUME NEW m \in MsgType, ServerTyped(srv)
  PROVE  /\ Answer(m) \in ReplyType
         /\ Answer(m).seq = m.seq /\ Answer(m).type = m.type
         /\ Denied(m) => Answer(m).status = 1 /\ Answer(m).len = 0
         /\ ~Denied(m) => Answer(m).status = 0
         /\ ~Denied(m) /\ m.type = "RREQ" =>
               /\ Answer(m).data = Slice(srv.files[m.name], m.pos, m.len)
               /\ Answer(m).len = Len(Answer(m).data)
         /\ ~Denied(m) /\ m.type = "WREQ" => Answer(m).len = m.len
         /\ ~Denied(m) /\ m.type = "SREQ" => Answer(m).len = Len(srv.files[m.name])
<1> DEFINE d == Slice(srv.files[m.name], m.pos, m.len)
           f == srv.files[m.name]
           e == << >>
<1>1. m.type \in Types /\ m.seq \in Nat /\ m.pos \in Nat /\ m.len \in Nat
  BY DEF MsgType
<1>2. e \in Text /\ 0 \in Nat /\ 0 \in {0, 1} /\ 1 \in {0, 1}
  BY DEF Text
<1>3. m.name \in DOMAIN srv.files =>
         /\ f \in Text /\ Len(f) \in Nat
         /\ d \in Text /\ Len(d) \in Nat
  <2> SUFFICES ASSUME m.name \in DOMAIN srv.files
               PROVE  /\ f \in Text /\ Len(f) \in Nat
                      /\ d \in Text /\ Len(d) \in Nat
    OBVIOUS
  <2>1. f \in Text
    BY DEF ServerTyped
  <2>2. Len(f) \in Nat
    BY <2>1 DEF Text
  <2>3. d \in Text /\ Len(d) \in Nat
    BY <1>1, <2>1, SliceText
  <2> QED
    BY <2>1, <2>2, <2>3
<1>4. CASE Denied(m)
  <2>1. Answer(m) = [type |-> m.type, seq |-> m.seq, status |-> 1, len |-> 0, data |-> e]
    BY <1>4 DEF Answer, Reply
  <2> HIDE DEF e
  <2> QED
    BY <1>1, <1>2, <1>4, <2>1 DEF ReplyType
<1>5. CASE ~Denied(m) /\ m.type = "RREQ"
  <2>1. Answer(m) = [type |-> m.type, seq |-> m.seq, status |-> 0, len |-> Len(d), data |-> d]
    BY <1>5 DEF Answer, Reply
  <2>2. m.name \in DOMAIN srv.files
    BY <1>5, DeniedCases
  <2> HIDE DEF d, f
  <2> QED
    BY <1>1, <1>2, <1>3, <1>5, <2>1, <2>2 DEF ReplyType, d
<1>6. CASE ~Denied(m) /\ m.type = "WREQ"
  <2>1. Answer(m) = [type |-> m.type, seq |-> m.seq, status |-> 0, len |-> m.len, data |-> e]
    BY <1>6 DEF Answer, Reply
  <2> HIDE DEF e
  <2> QED
    BY <1>1, <1>2, <1>6, <2>1 DEF ReplyType
<1>7. CASE ~Denied(m) /\ m.type = "SREQ"
  <2>1. Answer(m) = [type |-> m.type, seq |-> m.seq, status |-> 0, len |-> Len(f), data |-> e]
    BY <1>7 DEF Answer, Reply
  <2>2. m.name \in DOMAIN srv.files
    BY <1>7, DeniedCases
  <2> HIDE DEF e, f
  <2> QED
    BY <1>1, <1>2, <1>3, <1>7, <2>1, <2>2 DEF ReplyType, f
<1>8. CASE ~Denied(m) /\ m.type \notin {"RREQ", "WREQ", "SREQ"}
  <2>1. Answer(m) = [type |-> m.type, seq |-> m.seq, status |-> 0, len |-> 0, data |-> e]
    BY <1>8 DEF Answer, Reply
  <2> HIDE DEF e
  <2> QED
    BY <1>1, <1>2, <1>8, <2>1 DEF ReplyType
<1> QED
  BY <1>4, <1>5, <1>6, <1>7, <1>8

\* The server after request m.
Served(m) == IF Denied(m) THEN srv ELSE Changed(m)

\* The server keeps its type.
LEMMA ServedTyped ==
  ASSUME NEW m \in MsgType, ServerTyped(srv)
  PROVE  ServerTyped(Served(m))
<1> DEFINE F == srv.files
           n == m.name
           t == Changed(m)
<1>1. m.type \in Types /\ m.pos \in Nat /\ m.data \in Text
  BY DEF MsgType
<1>2. \A x \in DOMAIN F : F[x] \in Text
  BY DEF ServerTyped
<1>3. CASE Denied(m)
  BY <1>3 DEF Served
<1>4. ASSUME ~Denied(m) PROVE ServerTyped(t)
  <2>0. t = [files |-> t.files, dirs |-> t.dirs]
    BY ChangedCases
  <2>1. << >> \in Text
    BY DEF Text
  <2>2. CASE m.type = "OREQ" /\ n \notin DOMAIN F
    <3>1. t.files = With(F, n, << >>)
      BY <2>2, ChangedCases
    <3> HIDE DEF t
    <3> QED
      BY <1>2, <2>0, <2>1, <3>1 DEF ServerTyped, With
  <2>3. CASE m.type = "WREQ"
    <3>1. t.files = [F EXCEPT ![n] = Overlaid(F[n], m.pos, m.data)]
      BY <2>3, ChangedCases
    <3>2. n \in DOMAIN F
      BY <1>4, <2>3, DeniedCases
    <3>3. Overlaid(F[n], m.pos, m.data) \in Text
      BY <1>1, <1>2, <3>2, OverlaidSlice
    <3> HIDE DEF t
    <3> QED
      BY <1>2, <2>0, <3>1, <3>3 DEF ServerTyped
  <2>4. CASE m.type = "TREQ"
    <3>1. t.files = [F EXCEPT ![n] = << >>]
      BY <2>4, ChangedCases
    <3> HIDE DEF t
    <3> QED
      BY <1>2, <2>0, <2>1, <3>1 DEF ServerTyped
  <2>5. CASE m.type = "DREQ"
    <3>1. t.files = Without(F, n)
      BY <2>5, ChangedCases
    <3> HIDE DEF t
    <3> QED
      BY <1>2, <2>0, <3>1 DEF ServerTyped, Without
  <2>6. CASE m.type \in {"MREQ", "XREQ"}
    <3>1. t.files = F
      BY <2>6, ChangedCases
    <3> HIDE DEF t
    <3> QED
      BY <1>2, <2>0, <3>1 DEF ServerTyped
  <2>7. CASE m.type \in {"RREQ", "SREQ", "none"} \/ (m.type = "OREQ" /\ n \in DOMAIN F)
    BY <2>7, ChangedCases
  <2> QED
    BY <1>1, <2>2, <2>3, <2>4, <2>5, <2>6, <2>7 DEF Types, Requests
<1> QED
  BY <1>3, <1>4 DEF Served

\* When the server has answered a request, what was asked for has been done; and when it
\* gets the same request again, that is still so.
LEMMA ServedKeeps ==
  ASSUME NEW m \in MsgType, ServerTyped(srv), m.type \in Requests,
         m.type = "WREQ" => m.len = Len(m.data)
  PROVE  /\ Answer(m).status = 0 \/ m.type = "SREQ" => Kept(m, Served(m), Answer(m))
         /\ \A r \in ReplyType : Kept(m, srv, r) => Kept(m, Served(m), r)
<1> DEFINE F == srv.files
           n == m.name
           t == Served(m)
           G == t.files
           a == Answer(m)
           Good(r) == Kept(m, srv, r) \/ (r = a /\ (a.status = 0 \/ m.type = "SREQ"))
<1>1. m.pos \in Nat /\ m.data \in Text /\ m.len \in Nat
  BY DEF MsgType
<1>2. \A x \in DOMAIN F : F[x] \in Text
  BY DEF ServerTyped
<1>3. a.status = 0 => ~Denied(m)
  BY AnswerTyped
<1>4. Denied(m) => t = srv
  BY DEF Served
<1>5. ~Denied(m) => t = Changed(m)
  BY DEF Served
<1> HIDE DEF t, a
<1> SUFFICES ASSUME NEW r, Good(r) PROVE Kept(m, t, r)
  BY DEF t, a
<1>6. CASE m.type = "OREQ"
  <2>1. Kept(m, t, r) <=> n \in DOMAIN G
    BY <1>6 DEF Kept, Done
  <2>2. Kept(m, srv, r) <=> n \in DOMAIN F
    BY <1>6 DEF Kept, Done
  <2>3. CASE Denied(m)
    BY <1>3, <1>4, <1>6, <2>1, <2>2, <2>3
  <2>4. CASE ~Denied(m) /\ n \in DOMAIN F
    BY <1>5, <1>6, <2>1, <2>4, ChangedCases
  <2>5. CASE ~Denied(m) /\ n \notin DOMAIN F
    <3>1. G = With(F, n, << >>)
      BY <1>5, <1>6, <2>5, ChangedCases
    <3> QED
      BY <2>1, <3>1 DEF With
  <2> QED
    BY <2>3, <2>4, <2>5
<1>7. CASE m.type = "DREQ"
  <2>1. Kept(m, t, r) <=> n \notin DOMAIN G
    BY <1>7 DEF Kept, Done
  <2>2. Kept(m, srv, r) <=> n \notin DOMAIN F
    BY <1>7 DEF Kept, Done
  <2>3. CASE Denied(m)
    BY <1>3, <1>4, <1>7, <2>1, <2>2, <2>3
  <2>4. CASE ~Denied(m)
    <3>1. G = Without(F, n)
      BY <1>5, <1>7, <2>4, ChangedCases
    <3> QED
      BY <2>1, <3>1 DEF Without
  <2> QED
    BY <2>3, <2>4
<1>8. CASE m.type \in {"MREQ", "XREQ"}
  <2>1. /\ m.type = "MREQ" => (Kept(m, t, r) <=> n \in t.dirs) /\ (Kept(m, srv, r) <=> n \in srv.dirs)
        /\ m.type = "XREQ" => (Kept(m, t, r) <=> n \notin t.dirs) /\ (Kept(m, srv, r) <=> n \notin srv.dirs)
    BY <1>8 DEF Kept, Done
  <2>2. CASE Denied(m)
    BY <1>3, <1>4, <1>8, <2>1, <2>2
  <2>3. CASE ~Denied(m)
    <3>1. /\ m.type = "MREQ" => t.dirs = srv.dirs \cup {n}
          /\ m.type = "XREQ" => t.dirs = srv.dirs \ {n}
      BY <1>5, <2>3, ChangedCases
    <3> QED
      BY <1>8, <2>1, <3>1
  <2> QED
    BY <2>2, <2>3
<1>9. CASE m.type \in {"RREQ", "SREQ"}
  <2>0. Changed(m) = srv
    BY <1>9, ChangedCases
  <2>1. t = srv
    BY <1>4, <1>5, <2>0
  <2>2. r = a /\ (a.status = 0 \/ m.type = "SREQ") => Kept(m, srv, r)
    <3>1. CASE m.type = "RREQ"
      <4>1. a.status = 0 => a.data = Slice(F[n], m.pos, m.len) /\ a.len = Len(a.data)
        BY <1>3, <3>1, AnswerTyped DEF a
      <4> QED
        BY <3>1, <4>1 DEF Kept, Done
    <3>2. CASE m.type = "SREQ"
      <4>1. n \in DOMAIN F => ~Denied(m)
        BY <3>2, DeniedCases
      <4>2. n \in DOMAIN F => a.len = Len(F[n])
        BY <3>2, <4>1, AnswerTyped DEF a
      <4> QED
        BY <3>2, <4>2 DEF Kept, Done
    <3> QED
      BY <1>9, <3>1, <3>2
  <2> QED
    BY <2>1, <2>2
<1>10. CASE m.type = "TREQ"
  <2>1. Kept(m, t, r) <=> G[n] = << >> /\ n \in DOMAIN G
    BY <1>10 DEF Kept, Done
  <2>2. Kept(m, srv, r) => n \in DOMAIN F
    BY <1>10 DEF Kept
  <2>3. ~Denied(m) /\ n \in DOMAIN F
    BY <1>3, <1>10, <2>2, DeniedCases
  <2>4. G = [F EXCEPT ![n] = << >>]
    BY <1>5, <1>10, <2>3, ChangedCases
  <2> QED
    BY <2>1, <2>3, <2>4
<1>11. CASE m.type = "WREQ"
  <2>1. Kept(m, t, r) <=> /\ Slice(G[n], m.pos, m.len) = m.data /\ r.len = m.len
                          /\ n \in DOMAIN G
    BY <1>11 DEF Kept, Done
  <2>2. Kept(m, srv, r) => n \in DOMAIN F /\ r.len = m.len
    BY <1>11 DEF Kept, Done
  <2>3. ~Denied(m) /\ n \in DOMAIN F
    BY <1>3, <1>11, <2>2, DeniedCases
  <2>4. r.len = m.len
    BY <1>11, <2>2, <2>3, AnswerTyped DEF a
  <2>5. G = [F EXCEPT ![n] = Overlaid(F[n], m.pos, m.data)]
    BY <1>5, <1>11, <2>3, ChangedCases
  <2>6. n \in DOMAIN G /\ G[n] = Overlaid(F[n], m.pos, m.data)
    BY <2>3, <2>5
  <2>7. Slice(Overlaid(F[n], m.pos, m.data), m.pos, Len(m.data)) = m.data
    BY <1>1, <1>2, <2>3, OverlaidSlice
  <2> QED
    BY <1>11, <2>1, <2>4, <2>6, <2>7
<1> QED
  BY <1>6, <1>7, <1>8, <1>9, <1>10, <1>11 DEF Requests

----------------------------------------------------------------------------
\* The steps of a process that has the mutex are of three kinds.

\* It returns r; if it was waiting for the server and succeeds, an answer says so.
Leaves(p, r) ==
    /\ Inside(p) /\ r \in ResultType
    /\ Leave(p, Rf_data, r)
    /\ UNCHANGED <<toServer, srv, prog>>
    /\ toClient' \subseteq toClient
    /\ rfltab' \in [Slots -> BlockType]
    /\ call[p].at = "recv" /\ r.ok =>
          \E a \in toClient : /\ Matches(a, call[p].msg) /\ ~Bad(call[p], a)
                              /\ r = Returned(call[p], a)

\* It sends its request for the first time.
Begins(p, d) ==
    /\ Inside(p) /\ call[p].at = "enter"
    /\ d \in CallType /\ d.at = "recv" /\ d.op = call[p].op /\ d.text = call[p].text
    /\ Asks(d.op, d.msg) /\ d.msg.seq = Rf_data.seq
    /\ d.op = "open" => d.slot \in Slots /\ rfltab'[d.slot].state = "FREE"
    /\ Rf_data' = [Rf_data EXCEPT !.seq = @ + 1, !.registered = TRUE]
    /\ call' = [call EXCEPT ![p] = d]
    /\ Sent(d.msg)
    /\ UNCHANGED <<result, toClient, srv, prog>>
    /\ rfltab' \in [Slots -> BlockType]

\* It sends its request once more.
Retries(p) ==
    /\ Inside(p) /\ call[p].at = "recv" /\ call[p].i # RF_RETRIES
    /\ call' = [call EXCEPT ![p].i = @ + 1]
    /\ Sent(call[p].msg)
    /\ UNCHANGED <<rfltab, Rf_data, result, srv, prog>>
    /\ toClient' \subseteq toClient

\* A process that is where it has the mutex is inside.
LEMMA AtInside ==
  ASSUME TypeInv, NEW p \in Procs, NEW at, at # "user", At(p, at)
  PROVE  Inside(p) /\ call[p].at = at /\ prog' = prog /\ call[p] \in CallType
<1>1. Rf_data.mutex \in SemType(Procs) /\ call[p] \in CallType
  BY DEF TypeInv
<1> QED
  BY <1>1, QueuedHas, SameSem DEF At, Inside

\* What is assumed of the numbers.
LEMMA Numbers ==
  /\ "" \in DOMAIN Length /\ \A n \in DOMAIN Length : Length[n] \in Nat
  /\ 0 \in Slots /\ Slots \subseteq Nat
  /\ 0 \in 0..RF_RETRIES /\ 1 \in 0..RF_RETRIES /\ RF_RETRIES \in Nat
  /\ RF_NAMLEN \in Nat /\ MaxInTransit \in Nat
<1>0. "" \in DOMAIN Length /\ Length \in [DOMAIN Length -> Nat]
  BY RfsAssumption, Zenon
<1>1. /\ Nrfl \in Nat \ {0} /\ RF_RETRIES \in Nat \ {0} /\ RF_NAMLEN \in Nat \ {0}
      /\ MaxInTransit \in Nat
  BY RfsAssumption, Zenon
<1>2. 0 \in Slots /\ Slots \subseteq Nat
  BY <1>1 DEF Slots
<1>3. 0 \in 0..RF_RETRIES /\ 1 \in 0..RF_RETRIES /\ RF_RETRIES \in Nat
  BY <1>1
<1>4. RF_NAMLEN \in Nat
  BY <1>1
<1>5. \A n \in DOMAIN Length : Length[n] \in Nat
  BY <1>0, Zenon
<1> QED
  BY <1>0, <1>1, <1>2, <1>3, <1>4, <1>5, Zenon

\* A record of a call, and one of a request, is made of its fields.
LEMMA NoMsgTyped ==
  NoMsg \in MsgType /\ User \in CallType
<1>1. "" \in DOMAIN Length /\ 0 \in Slots /\ 0 \in 0..RF_RETRIES
  BY Numbers, Zenon
<1>2. << >> \in Text
  BY DEF Text
<1> DEFINE e == << >>
           n == NoMsg
<1>3. n = [type |-> "none", seq |-> 0, name |-> "", mode |-> {}, pos |-> 0, len |-> 0,
           data |-> e]
  BY DEF NoMsg
<1>4. User = [at |-> "user", op |-> "none", slot |-> 0, name |-> "", num |-> 0, text |-> e,
              msg |-> n, i |-> 0]
  BY DEF User
<1> HIDE DEF e, n
<1>5. n \in MsgType
  BY <1>1, <1>2, <1>3 DEF MsgType, Types, e
<1>6. User \in CallType
  BY <1>1, <1>2, <1>4, <1>5 DEF CallType, e
<1> QED
  BY <1>5, <1>6 DEF n

\* The result of a call that fails.
LEMMA FailedTyped == Failed \in ResultType /\ ~Failed.ok
<1> DEFINE e == << >>
<1>1. Failed = [ok |-> FALSE, len |-> 0, data |-> e]
  BY DEF Failed
<1>2. e \in Text
  BY DEF Text
<1> HIDE DEF e
<1> QED
  BY <1>1, <1>2 DEF ResultType

\* The result of a call that succeeds.
LEMMA GaveTyped ==
  ASSUME NEW n \in Nat, NEW d \in Text
  PROVE  /\ Gave(n, d) \in ResultType
         /\ Gave(n, d).ok /\ Gave(n, d).len = n /\ Gave(n, d).data = d
BY DEF Gave, ResultType

\* rfscomm is the first try, or the call fails.
LEMMA CommKinds ==
  ASSUME TypeInv, NEW p \in Procs, At(p, "enter"),
         NEW c \in CallType, c.op = call[p].op, c.text = call[p].text,
         NEW m \in MsgType, rfscomm(p, c, m),
         Asks(c.op, m),
         c.op = "open" => rfltab'[c.slot].state = "FREE",
         rfltab' \in [Slots -> BlockType], UNCHANGED srv
  PROVE  (\E r : Leaves(p, r)) \/ (\E d : Begins(p, d))
<1> DEFINE n == Rf_data.seq
           msg == [m EXCEPT !.seq = n]
           d == [c EXCEPT !.at = "recv", !.msg = msg, !.i = 1]
<1>1. Inside(p) /\ call[p].at = "enter" /\ prog' = prog
  BY AtInside
<1>2. n \in Nat /\ 1 \in 0..RF_RETRIES
  BY Numbers DEF TypeInv
<1>3. CASE /\ Rf_data' = [Rf_data EXCEPT !.seq = @ + 1, !.registered = TRUE]
           /\ call' = [call EXCEPT ![p] = d]
           /\ Sent(msg)
           /\ UNCHANGED <<result, toClient>>
  <2>1. msg \in MsgType /\ msg.seq = n /\ msg.type = m.type /\ msg.len = m.len /\ msg.data = m.data
    <3> HIDE DEF n
    <3> QED
      BY <1>2 DEF MsgType
  <2>2. d \in CallType /\ d.at = "recv" /\ d.op = c.op /\ d.msg = msg /\ d.slot = c.slot
        /\ d.text = c.text
    <3> HIDE DEF msg
    <3> QED
      BY <1>2, <2>1 DEF CallType
  <2>3. Asks(d.op, d.msg)
    BY <2>1, <2>2 DEF Asks
  <2>4. d.slot \in Slots
    BY <2>2 DEF CallType
  <2> HIDE DEF d, msg, n
  <2>5. Begins(p, d)
    BY <1>1, <1>3, <2>1, <2>2, <2>3, <2>4 DEF Begins, n
  <2> QED
    BY <2>5
<1>4. CASE Leave(p, Rf_data, Failed) /\ UNCHANGED net
  <2>1. Leaves(p, Failed)
    BY <1>1, <1>4, FailedTyped DEF Leaves, net
  <2> QED
    BY <2>1
<1> QED
  BY <1>3, <1>4 DEF rfscomm

\* A call that returns without having asked the server.
LEMMA ReturnKinds ==
  ASSUME TypeInv, NEW p \in Procs, At(p, "enter"), NEW r \in ResultType, Return(p, r),
         rfltab' \in [Slots -> BlockType], UNCHANGED srv
  PROVE  Leaves(p, r)
<1>1. Inside(p) /\ call[p].at = "enter" /\ prog' = prog
  BY AtInside
<1> QED
  BY <1>1 DEF Leaves, Return, net

\* The kinds of a step.
Kinds(p) == (\E r : Leaves(p, r)) \/ (\E d : Begins(p, d)) \/ Retries(p)

\* The device that rfsopen takes is free.
LEMMA FirstFree ==
  ASSUME Free # {}
  PROVE  Min(Free) \in Slots /\ rfltab[Min(Free)].state = "FREE"
<1>1. Free \subseteq Nat
  BY Numbers DEF Free
<1>2. Min(Free) \in Free
  BY <1>1, LeastNat
<1> QED
  BY <1>2 DEF Free

\* rfsopen fails at once or sends one request.
LEMMA OpenKinds ==
  ASSUME TypeInv, NEW p \in Procs, rfsopen(p)
  PROVE  Kinds(p)
<1> DEFINE c == call[p]
           s == Min(Free)
           named == [rfltab EXCEPT ![s].name = c.name]
           mode == rfsgetmode(c.text)
           e == [c EXCEPT !.slot = s]
           m == [NoMsg EXCEPT !.type = "OREQ", !.name = c.name, !.mode = mode]
           opened == [named EXCEPT ![s].mode = mode]
<1>1. /\ At(p, "enter") /\ c.op = "open" /\ UNCHANGED srv
      /\ c \in CallType /\ rfltab \in [Slots -> BlockType]
  BY DEF rfsopen, Begin, TypeInv
<1>2. CASE Free = {}
  <2>1. Return(p, Failed) /\ rfltab' = rfltab
    BY <1>2 DEF rfsopen
  <2> QED
    BY <1>1, <2>1, ReturnKinds, FailedTyped DEF Kinds
<1>3. Free # {} => s \in Slots /\ rfltab[s].state = "FREE" /\ rfltab[s] \in BlockType
  BY <1>1, FirstFree
<1>4. c.name \in DOMAIN Length
  BY <1>1 DEF CallType
<1>5. Free # {} => named \in [Slots -> BlockType] /\ named[s].state = "FREE"
  <2> SUFFICES ASSUME Free # {} PROVE named \in [Slots -> BlockType] /\ named[s].state = "FREE"
    OBVIOUS
  <2> DEFINE b == [rfltab[s] EXCEPT !.name = c.name]
  <2>1. b \in BlockType /\ b.state = rfltab[s].state
    BY <1>3, <1>4 DEF BlockType
  <2>2. named = [rfltab EXCEPT ![s] = b]
    OBVIOUS
  <2> HIDE DEF b, s, named
  <2> QED
    BY <1>1, <1>3, <2>1, <2>2
<1>6. CASE Free # {} /\ Length[c.name] \notin 1..(RF_NAMLEN - 1)
  <2>1. Return(p, Failed) /\ rfltab' = named
    BY <1>6 DEF rfsopen
  <2> QED
    BY <1>1, <1>5, <1>6, <2>1, ReturnKinds, FailedTyped DEF Kinds
<1>8. CASE Free # {} /\ Length[c.name] \in 1..(RF_NAMLEN - 1) /\ ~LegalMode(c.text)
  <2> DEFINE refused == [named EXCEPT ![s].mode = RefusedMode]
             b == [named[s] EXCEPT !.mode = RefusedMode]
  <2>1. Return(p, Failed) /\ rfltab' = refused
    BY <1>8 DEF rfsopen
  <2>2. b \in BlockType /\ b.state = named[s].state
    <3>1. named[s] \in BlockType
      BY <1>3, <1>5, <1>8
    <3>2. RefusedMode \in SUBSET Letters
      BY DEF RefusedMode, Letters
    <3> HIDE DEF named, s
    <3> QED
      BY <3>1, <3>2 DEF BlockType
  <2>3. refused = [named EXCEPT ![s] = b]
    OBVIOUS
  <2>4. refused \in [Slots -> BlockType] /\ refused[s].state = "FREE"
    <3> HIDE DEF b, s, named, refused
    <3> QED
      BY <1>3, <1>5, <1>8, <2>2, <2>3
  <2> HIDE DEF refused
  <2> QED
    BY <1>1, <1>8, <2>1, <2>4, ReturnKinds, FailedTyped DEF Kinds
<1>7. CASE Free # {} /\ Length[c.name] \in 1..(RF_NAMLEN - 1) /\ LegalMode(c.text)
  <2>1. rfltab' = opened /\ rfscomm(p, e, m)
    BY <1>7 DEF rfsopen
  <2>2. mode \in SUBSET Letters
    <3>1. Range(c.text) \subseteq {"r", "w", "o", "n"}
      BY <1>7 DEF LegalMode
    <3> QED
      BY <3>1 DEF rfsgetmode, Letters
  <2>3. opened \in [Slots -> BlockType] /\ opened[s].state = "FREE"
    <3> DEFINE b == [named[s] EXCEPT !.mode = mode]
    <3>0. named[s] \in BlockType
      BY <1>3, <1>5, <1>7
    <3>1. b \in BlockType /\ b.state = named[s].state
      <4> HIDE DEF named, mode, s
      <4> QED
        BY <2>2, <3>0 DEF BlockType
    <3>2. opened = [named EXCEPT ![s] = b]
      OBVIOUS
    <3> HIDE DEF b, s, named, opened
    <3> QED
      BY <1>3, <1>5, <1>7, <3>1, <3>2
  <2>4. m \in MsgType /\ m.type = "OREQ"
    <3> HIDE DEF mode
    <3> QED
      BY <1>4, <2>2, NoMsgTyped DEF MsgType, Types, Requests
  <2>5. e \in CallType /\ e.op = c.op /\ e.slot = s /\ e.text = c.text
    <3> HIDE DEF s
    <3> QED
      BY <1>1, <1>3, <1>7 DEF CallType
  <2>6. Asks(e.op, m)
    BY <1>1, <2>4, <2>5 DEF Asks
  <2> HIDE DEF e, m, s, opened
  <2>7. rfltab' \in [Slots -> BlockType] /\ rfltab'[e.slot].state = "FREE"
    BY <2>1, <2>3, <2>5
  <2>8. (\E r : Leaves(p, r)) \/ (\E d : Begins(p, d))
    BY <1>1, <2>1, <2>4, <2>5, <2>6, <2>7, CommKinds
  <2> QED
    BY <2>8 DEF Kinds
<1> QED
  BY <1>2, <1>6, <1>7, <1>8

\* A request on an open device.
LEMMA RequestTyped ==
  ASSUME TypeInv, NEW c \in CallType, NEW t \in Requests, NEW n \in Nat, NEW d \in Text
  PROVE  LET m == Request(t, c, n, d) IN
         m \in MsgType /\ m.type = t /\ m.len = n /\ m.data = d
<1> DEFINE b == rfltab[c.slot]
<1>1. c.slot \in Slots /\ b \in BlockType
  BY DEF CallType, TypeInv
<1>2. b.name \in DOMAIN Length /\ b.pos \in Nat
  BY <1>1 DEF BlockType
<1>3. Request(t, c, n, d) =
        [NoMsg EXCEPT !.type = t, !.name = b.name, !.pos = b.pos, !.len = n, !.data = d]
  BY DEF Request
<1> HIDE DEF b
<1> QED
  BY <1>2, <1>3, NoMsgTyped DEF MsgType, Types

\* So does rflread.
LEMMA ReadKinds ==
  ASSUME TypeInv, NEW p \in Procs, rflread(p)
  PROVE  Kinds(p)
<1> DEFINE c == call[p]
           len == IF c.op = "getc" THEN 1 ELSE c.num
           m == Request("RREQ", c, len, << >>)
<1>1. /\ At(p, "enter") /\ c.op \in {"read", "getc"} /\ UNCHANGED srv
      /\ c \in CallType /\ rfltab' \in [Slots -> BlockType]
  BY DEF rflread, Begin, TypeInv
<1>2. len \in Nat
  BY <1>1 DEF CallType
<1>3. CASE Usable(c, len, "r")
  <2>1. rfscomm(p, c, m)
    BY <1>3 DEF rflread
  <2>2. m \in MsgType /\ m.type = "RREQ"
    <3>1. "RREQ" \in Requests /\ << >> \in Text
      BY DEF Requests, Text
    <3> HIDE DEF len
    <3> QED
      BY <1>1, <1>2, <3>1, RequestTyped
  <2> HIDE DEF m
  <2>3. Asks(c.op, m) /\ c.op # "open"
    BY <1>1, <2>2 DEF Asks
  <2> QED
    BY <1>1, <2>1, <2>2, <2>3, CommKinds DEF Kinds
<1>4. CASE ~Usable(c, len, "r")
  <2>1. Return(p, Failed)
    BY <1>4 DEF rflread
  <2> QED
    BY <1>1, <2>1, ReturnKinds, FailedTyped DEF Kinds
<1> QED
  BY <1>3, <1>4

\* So does rflwrite.
LEMMA WriteKinds ==
  ASSUME TypeInv, NEW p \in Procs, rflwrite(p)
  PROVE  Kinds(p)
<1> DEFINE c == call[p]
           data == Data(c)
           m == Request("WREQ", c, Len(data), data)
<1>1. /\ At(p, "enter") /\ c.op \in {"write", "putc"} /\ UNCHANGED srv
      /\ c \in CallType /\ rfltab' \in [Slots -> BlockType]
  BY DEF rflwrite, Begin, TypeInv
<1>3. CASE Usable(c, Len(data), "w")
  <2>0. data \in Text /\ Len(data) \in Nat
    <3>1. c.text \in Text
      BY <1>1 DEF CallType
    <3>2. c.op # "putc" => data = c.text
      BY DEF Data
    <3>3. c.op = "putc" => data = SubSeq(c.text, 1, 1)
      BY DEF Data
    <3>4. c.op = "putc" => data \in Text
      <4>1. c.op = "putc" => c.text # << >>
        BY DEF TypeInv
      <4>2. c.text # << >> => \A i \in 1..1 : c.text[i] \in Chars
        <5>1. c.text # << >> => 1 \in 1..Len(c.text)
          BY <3>1, EmptySeq DEF Text
        <5> QED
          BY <3>1, <5>1 DEF Text
      <4>3. c.text # << >> => SubSeq(c.text, 1, 1) \in Text
        BY <4>2, SubSeqProperties DEF Text
      <4> QED
        BY <3>3, <4>1, <4>3
    <3> QED
      BY <3>1, <3>2, <3>4 DEF Text
  <2>1. rfscomm(p, c, m)
    BY <1>3 DEF rflwrite
  <2>2. m \in MsgType /\ m.type = "WREQ" /\ m.len = Len(m.data)
    <3>1. "WREQ" \in Requests
      BY DEF Requests
    <3> HIDE DEF data
    <3> QED
      BY <1>1, <2>0, <3>1, RequestTyped
  <2> HIDE DEF m
  <2>3. Asks(c.op, m) /\ c.op # "open"
    BY <1>1, <2>2 DEF Asks
  <2> QED
    BY <1>1, <2>1, <2>2, <2>3, CommKinds DEF Kinds
<1>4. CASE ~Usable(c, Len(data), "w")
  <2>1. Return(p, Failed)
    BY <1>4 DEF rflwrite
  <2> QED
    BY <1>1, <2>1, ReturnKinds, FailedTyped DEF Kinds
<1> QED
  BY <1>3, <1>4

\* rflseek and rflclose return without a request.
LEMMA SeekKinds ==
  ASSUME TypeInv, NEW p \in Procs, rflseek(p) \/ rflclose(p)
  PROVE  Kinds(p)
<1> DEFINE c == call[p]
           b == [rfltab[c.slot] EXCEPT !.pos = c.num]
           d == [rfltab[c.slot] EXCEPT !.state = "FREE"]
           g == Gave(0, << >>)
<1>1. /\ At(p, "enter") /\ UNCHANGED srv
      /\ c \in CallType /\ rfltab \in [Slots -> BlockType]
  BY DEF rflseek, rflclose, Begin, TypeInv
<1>2. c.slot \in Slots /\ rfltab[c.slot] \in BlockType /\ c.num \in Nat
  BY <1>1 DEF CallType
<1>3. b \in BlockType /\ d \in BlockType
  BY <1>2 DEF BlockType
<1>4. g \in ResultType
  <2>1. << >> \in Text
    BY DEF Text
  <2> QED
    BY <2>1, GaveTyped
<1>5. rfltab' \in {rfltab, [rfltab EXCEPT ![c.slot] = b], [rfltab EXCEPT ![c.slot] = d]}
  BY DEF rflseek, rflclose
<1>6. rfltab' \in [Slots -> BlockType]
  <2> HIDE DEF b, d
  <2> QED
    BY <1>1, <1>2, <1>3, <1>5
<1>7. Return(p, Failed) \/ Return(p, g)
  BY DEF rflseek, rflclose
<1> HIDE DEF g
<1> QED
  BY <1>1, <1>4, <1>6, <1>7, ReturnKinds, FailedTyped DEF Kinds

\* rfscontrol fails at once or sends one request.
LEMMA ControlKinds ==
  ASSUME TypeInv, NEW p \in Procs, rfscontrol(p)
  PROVE  Kinds(p)
<1> DEFINE c == call[p]
           name == rfltab[c.slot].name
           t == TypeOf[c.op]
           m == [NoMsg EXCEPT !.type = t, !.name = c.name]
           n == [NoMsg EXCEPT !.type = "SREQ", !.name = name]
<1>1. /\ At(p, "enter") /\ c.op \in Functions \cup {"size", "invalid"} /\ UNCHANGED srv
      /\ c \in CallType /\ rfltab' \in [Slots -> BlockType]
      /\ rfltab \in [Slots -> BlockType]
  BY DEF rfscontrol, Begin, TypeInv
<1>2. /\ name \in DOMAIN Length /\ c.name \in DOMAIN Length
  BY <1>1 DEF CallType, BlockType
<1>3. Length[name] \in Nat /\ RF_NAMLEN \in Nat
  BY <1>2, Numbers
<1>4. \/ Return(p, Failed)
      \/ c.op \in Functions /\ rfscomm(p, c, m)
      \/ c.op = "size" /\ rfscomm(p, c, n)
  <2> HIDE DEF m, n
  <2>1. CASE Length[name] >= RF_NAMLEN - 1 \/ c.op = "invalid"
    <3>1. ~(Length[name] < RF_NAMLEN - 1 /\ c.op \in Functions)
      BY <1>3, <2>1 DEF Functions
    <3> QED
      BY <2>1, <3>1 DEF rfscontrol
  <2>2. CASE ~(Length[name] >= RF_NAMLEN - 1 \/ c.op = "invalid")
    <3>1. Length[name] < RF_NAMLEN - 1
      BY <1>3, <2>2
    <3>2. CASE c.op \in Functions
      <4>1. rfsndmsg(p, c)
        BY <2>2, <3>1, <3>2 DEF rfscontrol
      <4> QED
        BY <3>2, <4>1 DEF rfsndmsg, m
    <3>3. CASE c.op \notin Functions
      <4>1. c.op = "size"
        BY <1>1, <2>2, <3>3
      <4>2. rfscomm(p, c, n)
        BY <2>2, <3>3 DEF rfscontrol, n
      <4> QED
        BY <4>1, <4>2
    <3> QED
      BY <3>2, <3>3
  <2> QED
    BY <2>1, <2>2
<1>5. CASE Return(p, Failed)
  BY <1>1, <1>5, ReturnKinds, FailedTyped DEF Kinds
<1>6. CASE c.op \in Functions /\ rfscomm(p, c, m)
  <2>1. t \in {"DREQ", "TREQ", "MREQ", "XREQ"}
    BY <1>6 DEF Functions, TypeOf
  <2>2. m \in MsgType /\ m.type = t
    <3> HIDE DEF t
    <3> QED
      BY <1>2, <2>1, NoMsgTyped DEF MsgType, Types, Requests
  <2> HIDE DEF t, m
  <2>3. Asks(c.op, m) /\ c.op # "open"
    BY <1>6, <2>1, <2>2 DEF Asks, Functions
  <2> QED
    BY <1>1, <1>6, <2>2, <2>3, CommKinds DEF Kinds
<1>7. CASE c.op = "size" /\ rfscomm(p, c, n)
  <2>2. n \in MsgType /\ n.type = "SREQ"
    <3> HIDE DEF name
    <3> QED
      BY <1>2, NoMsgTyped DEF MsgType, Types, Requests
  <2> HIDE DEF n
  <2>3. Asks(c.op, n) /\ c.op # "open"
    BY <1>7, <2>2 DEF Asks
  <2> QED
    BY <1>1, <1>7, <2>2, <2>3, CommKinds DEF Kinds
<1> QED
  BY <1>4, <1>5, <1>6, <1>7

\* udp_recv gives nothing, or nothing of use.
LEMMA AgainKinds ==
  ASSUME TypeInv, NEW p \in Procs, At(p, "recv"), Again(p),
         UNCHANGED <<rfltab, srv>>, toClient' \subseteq toClient
  PROVE  Kinds(p)
<1>1. Inside(p) /\ call[p].at = "recv" /\ prog' = prog /\ rfltab' \in [Slots -> BlockType]
  BY AtInside DEF TypeInv
<1>2. CASE call[p].i = RF_RETRIES
  <2>1. Leave(p, Rf_data, Failed) /\ toServer' = toServer
    BY <1>2 DEF Again, GivenUp
  <2>2. Leaves(p, Failed)
    BY <1>1, <2>1, FailedTyped DEF Leaves
  <2> QED
    BY <2>2 DEF Kinds
<1>3. CASE call[p].i # RF_RETRIES
  <2>1. Retries(p)
    BY <1>1, <1>3 DEF Again, Retries
  <2> QED
    BY <2>1 DEF Kinds
<1> QED
  BY <1>2, <1>3

\* What a call does with a reply.
LEMMA ReplyKinds ==
  ASSUME TypeInv, NEW p \in Procs, rfscommReply(p)
  PROVE  Kinds(p)
<1> DEFINE c == call[p]
<1>1. PICK r \in toClient :
         /\ toClient' \in {toClient, toClient \ {r}}
         /\ IF Matches(r, c.msg)
            THEN /\ Leave(p, Rf_data, IF Bad(c, r) THEN Failed ELSE Returned(c, r))
                 /\ rfltab' = IF r.status # 0 THEN rfltab ELSE Settled(c, r)
                 /\ UNCHANGED toServer
            ELSE Again(p) /\ UNCHANGED rfltab
  BY DEF rfscommReply
<1>2. /\ At(p, "recv") /\ UNCHANGED srv /\ toClient' \subseteq toClient
      /\ Inside(p) /\ c.at = "recv" /\ prog' = prog /\ c \in CallType
      /\ rfltab \in [Slots -> BlockType]
      /\ r \in ReplyType
  BY <1>1, AtInside DEF rfscommReply, TypeInv
<1>3. CASE ~Matches(r, c.msg)
  BY <1>1, <1>2, <1>3, AgainKinds
<1>4. CASE Matches(r, c.msg)
  <2> DEFINE x == IF Bad(c, r) THEN Failed ELSE Returned(c, r)
             u == [[rfltab[c.slot] EXCEPT !.state = "USED"] EXCEPT !.pos = 0]
             w == [rfltab[c.slot] EXCEPT !.pos = @ + r.len]
  <2>1. /\ Leave(p, Rf_data, x) /\ toServer' = toServer
        /\ rfltab' = IF r.status # 0 THEN rfltab ELSE Settled(c, r)
    BY <1>1, <1>4
  <2>2. Returned(c, r) \in ResultType
    <3>1. r.len \in Nat /\ r.data \in Text /\ << >> \in Text
      BY <1>2 DEF ReplyType, Text
    <3>2. Returned(c, r) \in {Gave(r.len, r.data), Gave(r.len, << >>), Gave(0, << >>)}
      BY DEF Returned
    <3> QED
      BY <3>1, <3>2, GaveTyped
  <2>3. x \in ResultType /\ (x.ok => ~Bad(c, r) /\ x = Returned(c, r))
    BY <2>2, FailedTyped
  <2>4. c.slot \in Slots /\ rfltab[c.slot] \in BlockType /\ r.len \in Nat
    BY <1>2 DEF CallType, ReplyType
  <2>5. u \in BlockType /\ w \in BlockType
    <3>1. rfltab[c.slot].pos + r.len \in Nat
      BY <2>4 DEF BlockType
    <3> QED
      BY <2>4, <3>1 DEF BlockType
  <2>6. Settled(c, r) \in {rfltab, [rfltab EXCEPT ![c.slot] = u], [rfltab EXCEPT ![c.slot] = w]}
    BY <1>2, <2>4 DEF Settled
  <2>7. rfltab' \in [Slots -> BlockType]
    <3> HIDE DEF u, w
    <3> QED
      BY <1>2, <2>1, <2>4, <2>5, <2>6
  <2> HIDE DEF x
  <2>8. Leaves(p, x)
    BY <1>1, <1>2, <1>4, <2>1, <2>3, <2>7 DEF Leaves
  <2> QED
    BY <2>8 DEF Kinds
<1> QED
  BY <1>3, <1>4

\* Every step of a call is one of the kinds.
LEMMA StepKinds ==
  ASSUME TypeInv, NEW p \in Procs, Step(p)
  PROVE  Kinds(p)
<1>1. CASE rfscommTimeout(p)
  <2>1. /\ At(p, "recv") /\ Again(p) /\ UNCHANGED <<rfltab, srv>> /\ toClient' = toClient
    BY <1>1 DEF rfscommTimeout
  <2> QED
    BY <2>1, AgainKinds
<1> QED
  BY <1>1, OpenKinds, ReadKinds, WriteKinds, SeekKinds, ControlKinds, ReplyKinds DEF Step

----------------------------------------------------------------------------
\* The mutex.

DataType == [seq : Nat, registered : BOOLEAN, mutex : SemType(Procs)]

\* A call that waits for the server is inside, and so it is the only one.
LEMMA ReceiverInside ==
  ASSUME MutexInv, NEW p \in Procs, call[p].at = "recv"
  PROVE  Inside(p) /\ \A q \in Procs : q # p => ~Inside(q) /\ call[q].at # "recv"
<1>1. ASSUME NEW q \in Procs, call[q].at = "recv" PROVE Inside(q)
  BY <1>1 DEF MutexInv, Inside
<1> QED
  BY <1>1 DEF MutexInv

\* A call that returns gives the mutex to the next.
LEMMA LeaveMutex ==
  ASSUME TypeInv, MutexInv, NEW p \in Procs, Inside(p),
         Rf_data' = [Rf_data EXCEPT !.mutex = signal(@)],
         call' = [call EXCEPT ![p] = User]
  PROVE  MutexInv' /\ Rf_data' \in DataType /\ Rf_data'.seq = Rf_data.seq
<1> DEFINE m == Rf_data.mutex
           y == signal(m)
<1>1. /\ m \in SemType(Procs) /\ SemSound(m) /\ m.used /\ m.count \in Int
      /\ Rf_data \in DataType
  BY DEF TypeInv, MutexInv, SemType, DataType
<1>2. /\ y \in SemType(Procs) /\ SemSound(y) /\ y.used /\ y.count = m.count + 1
      /\ \A q : Has(y.queue, q) => Has(m.queue, q)
      /\ \A q : Has(m.queue, q) /\ ~Has(y.queue, q) => m.count < 0 /\ q = Head(m.queue)
  <2>1. /\ y \in SemType(Procs) /\ SemSound(y) /\ y.used = m.used /\ y.count = m.count + 1
        /\ \A q : Has(y.queue, q) => Has(m.queue, q)
        /\ \A q : Has(m.queue, q) /\ ~Has(y.queue, q) => m.count < 0 /\ q = Head(m.queue)
    BY <1>1, SignalSem, SameSem
  <2> QED
    BY <1>1, <2>1
<1> HIDE DEF y
<1>3. Rf_data' \in DataType /\ Rf_data'.seq = Rf_data.seq /\ Rf_data'.mutex = y
  BY <1>1, <1>2 DEF DataType, y
<1>4. m.count <= 0
  BY <1>1 DEF MutexInv, Inside
<1>5. /\ call'[p].at = "user"
      /\ \A q \in Procs : q # p => call'[q] = call[q]
  BY DEF TypeInv, User
<1>6. y.count <= 1
  BY <1>1, <1>2, <1>4
<1>7. ASSUME y.count = 1, NEW q \in Procs PROVE call'[q].at = "user"
  <2>1. m.count = 0
    BY <1>1, <1>2, <1>7
  <2>2. Len(m.queue) = 0
    BY <1>1, <2>1 DEF SemSound
  <2>3. ~Has(m.queue, q)
    BY <2>2 DEF Has
  <2>4. q # p => call[q].at = "user"
    BY <2>3 DEF MutexInv, Inside
  <2> QED
    BY <1>5, <2>4
<1>8. ASSUME NEW q \in Procs, Has(y.queue, q) PROVE call'[q].at = "enter"
  <2>1. Has(m.queue, q) /\ q # p
    BY <1>2, <1>8 DEF Inside
  <2> QED
    BY <1>5, <2>1 DEF MutexInv
<1>9. ASSUME NEW q \in Procs, call'[q].at # "user", ~Has(y.queue, q)
      PROVE  q = Head(m.queue)
  <2>1. q # p /\ call[q].at # "user"
    BY <1>5, <1>9
  <2>2. Has(m.queue, q)
    BY <2>1 DEF MutexInv, Inside
  <2> QED
    BY <1>2, <1>9, <2>2
<1>10. \A q, r \in Procs : Inside(q)' /\ Inside(r)' => q = r
  BY <1>3, <1>9 DEF Inside
<1>11. MutexInv'
  BY <1>2, <1>3, <1>6, <1>7, <1>8, <1>10 DEF MutexInv
<1> QED
  BY <1>3, <1>11

\* A call that begins takes the mutex or waits for it.
LEMMA EnterMutex ==
  ASSUME TypeInv, MutexInv, NEW p \in Procs, call[p].at = "user",
         Rf_data' = [Rf_data EXCEPT !.mutex = wait(@, p)],
         NEW d, d.at = "enter", call' = [call EXCEPT ![p] = d]
  PROVE  MutexInv' /\ Rf_data' \in DataType /\ Rf_data'.seq = Rf_data.seq
<1> DEFINE m == Rf_data.mutex
           y == wait(m, p)
<1>1. /\ m \in SemType(Procs) /\ SemSound(m) /\ m.used /\ m.count \in Int
      /\ Rf_data \in DataType
  BY DEF TypeInv, MutexInv, SemType, DataType
<1>2. ~Has(m.queue, p)
  BY DEF MutexInv
<1>3. /\ y \in SemType(Procs) /\ SemSound(y) /\ y.used /\ y.count = m.count - 1
      /\ \A q : Has(y.queue, q) <=> Has(m.queue, q) \/ (q = p /\ m.count <= 0)
  <2>1. /\ y \in SemType(Procs) /\ SemSound(y) /\ y.used = m.used /\ y.count = m.count - 1
        /\ \A q : Has(y.queue, q) <=> Has(m.queue, q) \/ (q = p /\ m.count <= 0)
    <3>1. LET z == Sem!wait(m, p) IN
          /\ z \in SemType(Procs) /\ SemSound(z) /\ z.used = m.used /\ z.count = m.count - 1
          /\ \A q : Has(z.queue, q) <=> Has(m.queue, q) \/ (q = p /\ m.count <= 0)
      BY <1>1, <1>2, WaitSem, ZenonT(60)
    <3>2. y = Sem!wait(m, p)
      BY SameSem
    <3> HIDE DEF y
    <3> QED
      BY <3>1, <3>2, Zenon
  <2> QED
    BY <1>1, <2>1
<1> HIDE DEF y
<1>4. Rf_data' \in DataType /\ Rf_data'.seq = Rf_data.seq /\ Rf_data'.mutex = y
  BY <1>1, <1>3 DEF DataType, y
<1>5. /\ call'[p].at = "enter"
      /\ \A q \in Procs : q # p => call'[q] = call[q]
  BY DEF TypeInv
<1>6. m.count <= 1 /\ y.count <= 0
  BY <1>1, <1>3 DEF MutexInv
<1>7. ASSUME NEW q \in Procs, Has(y.queue, q) PROVE call'[q].at = "enter"
  <2>1. q # p => Has(m.queue, q)
    BY <1>3, <1>7
  <2> QED
    BY <1>5, <2>1 DEF MutexInv
<1>8. \A q, r \in Procs : Inside(q)' /\ Inside(r)' => q = r
  <2>1. CASE m.count = 1
    <3>1. \A q \in Procs : q # p => ~Inside(q)'
      BY <1>5, <2>1 DEF MutexInv, Inside
    <3> QED
      BY <3>1
  <2>2. CASE m.count <= 0
    <3>1. Has(y.queue, p)
      BY <1>3, <2>2
    <3>2. \A q \in Procs : Inside(q)' => Inside(q)
      BY <1>3, <1>4, <1>5, <3>1 DEF Inside
    <3> QED
      BY <3>2 DEF MutexInv
  <2> QED
    BY <1>1, <1>6, <2>1, <2>2
<1>9. MutexInv'
  <2>1. y.count <= 1 /\ y.count # 1
    BY <1>1, <1>3, <1>6
  <2> QED
    BY <1>3, <1>4, <1>7, <1>8, <2>1 DEF MutexInv
<1> QED
  BY <1>4, <1>9

\* A step inside the mutex leaves it alone.
LEMMA StayMutex ==
  ASSUME TypeInv, MutexInv, NEW p \in Procs, Inside(p),
         Rf_data'.mutex = Rf_data.mutex,
         NEW d, d.at # "user", call' = [call EXCEPT ![p] = d]
  PROVE  MutexInv'
<1>1. /\ call'[p].at # "user"
      /\ \A q \in Procs : q # p => call'[q] = call[q]
  BY DEF TypeInv
<1>2. \A q \in Procs : Inside(q)' <=> Inside(q)
  BY <1>1 DEF Inside
<1>3. Rf_data.mutex.count # 1
  BY DEF MutexInv, Inside
<1>4. \A q \in Procs : Has(Rf_data.mutex.queue, q) => call'[q].at = "enter"
  BY <1>1 DEF MutexInv, Inside
<1> QED
  BY <1>2, <1>3, <1>4 DEF MutexInv

----------------------------------------------------------------------------
\* Each kind of step preserves the invariant.

\* What the network takes.
LEMMA SentTyped ==
  ASSUME TypeInv, NEW m \in MsgType, Sent(m)
  PROVE  toServer' \in Seq(MsgType) /\ Len(toServer') <= MaxInTransit
<1>1. MaxInTransit \in Nat /\ Len(toServer) \in Nat
  <2>1. MaxInTransit \in Nat
    BY Numbers, Zenon
  <2>2. toServer \in Seq(MsgType)
    BY DEF TypeInv
  <2> QED
    BY <2>1, <2>2
<1>2. /\ Append(toServer, m) \in Seq(MsgType)
      /\ Len(Append(toServer, m)) = Len(toServer) + 1
  BY AppendProperties DEF TypeInv
<1>3. CASE Len(toServer) < MaxInTransit
  BY <1>1, <1>2, <1>3 DEF Sent
<1>4. CASE ~(Len(toServer) < MaxInTransit)
  BY <1>4 DEF Sent, TypeInv
<1> QED
  BY <1>3, <1>4

\* A call that returns keeps the invariant.
LEMMA LeavesKeeps ==
  ASSUME RInv, NEW p \in Procs, NEW r, Leaves(p, r)
  PROVE  RInv'
<1>0. TypeInv /\ MutexInv /\ AskInv
  BY DEF RInv
<1>1. /\ Inside(p) /\ r \in ResultType
      /\ Rf_data' = [Rf_data EXCEPT !.mutex = signal(@)]
      /\ call' = [call EXCEPT ![p] = User]
      /\ result' = [result EXCEPT ![p] = r]
      /\ UNCHANGED <<toServer, srv, prog>>
      /\ toClient' \subseteq toClient
      /\ rfltab' \in [Slots -> BlockType]
  BY DEF Leaves, Leave
<1>2. MutexInv' /\ Rf_data' \in DataType
  BY <1>0, <1>1, LeaveMutex
<1>3. call' \in [Procs -> CallType] /\ result' \in [Procs -> ResultType]
  BY <1>0, <1>1, NoMsgTyped DEF TypeInv
<1>4. \A q \in Procs : call'[q].op = "putc" => call'[q].text # << >>
  BY <1>0, <1>1 DEF TypeInv, User
<1>5. TypeInv'
  BY <1>0, <1>1, <1>2, <1>3, <1>4 DEF TypeInv, DataType, ServerTyped
<1>6. \A q \in Procs : call'[q].at # "recv"
  <2>1. \A q \in Procs : q # p => call[q].at # "recv"
    BY <1>0, <1>1 DEF MutexInv, Inside
  <2> QED
    BY <1>0, <1>1, <2>1 DEF TypeInv, User
<1>7. AskInv'
  BY <1>6 DEF AskInv
<1> QED
  BY <1>2, <1>5, <1>7 DEF RInv

\* So does one that sends its request,
LEMMA BeginsKeeps ==
  ASSUME RInv, NEW p \in Procs, NEW d, Begins(p, d)
  PROVE  RInv'
<1>0. TypeInv /\ MutexInv /\ AskInv
  BY DEF RInv
<1>1. /\ Inside(p) /\ d \in CallType /\ d.at = "recv"
      /\ d.op = call[p].op /\ d.text = call[p].text
      /\ Asks(d.op, d.msg) /\ d.msg.seq = Rf_data.seq
      /\ d.op = "open" => d.slot \in Slots /\ rfltab'[d.slot].state = "FREE"
      /\ Rf_data' = [Rf_data EXCEPT !.seq = @ + 1, !.registered = TRUE]
      /\ call' = [call EXCEPT ![p] = d]
      /\ Sent(d.msg)
      /\ UNCHANGED <<result, toClient, srv, prog>>
      /\ rfltab' \in [Slots -> BlockType]
  BY DEF Begins
<1>2. /\ Rf_data' \in DataType /\ Rf_data'.mutex = Rf_data.mutex
      /\ Rf_data'.seq = Rf_data.seq + 1 /\ Rf_data.seq \in Nat
  <2> DEFINE n == Rf_data.seq + 1
             y == TRUE
  <2>1. Rf_data \in DataType
    BY <1>0 DEF TypeInv, DataType
  <2>2. Rf_data.seq \in Nat /\ n \in Nat
    BY <2>1 DEF DataType
  <2>3. Rf_data' = [Rf_data EXCEPT !.seq = n, !.registered = y] /\ y \in BOOLEAN
    BY <1>1
  <2> HIDE DEF n, y
  <2>4. /\ Rf_data' \in DataType /\ Rf_data'.mutex = Rf_data.mutex
        /\ Rf_data'.seq = n
    BY <2>1, <2>2, <2>3 DEF DataType
  <2> QED
    BY <2>2, <2>4 DEF n
<1>3. MutexInv'
  BY <1>0, <1>1, <1>2, StayMutex
<1>4. toServer' \in Seq(MsgType) /\ Len(toServer') <= MaxInTransit
  <2>1. d.msg \in MsgType
    BY <1>1 DEF CallType
  <2> QED
    BY <1>0, <1>1, <2>1, SentTyped
<1>5. /\ call' \in [Procs -> CallType]
      /\ call'[p] = d /\ \A q \in Procs : q # p => call'[q] = call[q]
  BY <1>0, <1>1 DEF TypeInv
<1>6. \A q \in Procs : call'[q].op = "putc" => call'[q].text # << >>
  BY <1>0, <1>1, <1>5 DEF TypeInv
<1>7. TypeInv'
  BY <1>0, <1>1, <1>2, <1>4, <1>5, <1>6 DEF TypeInv, DataType, ServerTyped
<1>8. \A q \in Procs : q # p => call'[q].at # "recv"
  BY <1>3, <1>1, <1>5, ReceiverInside DEF MutexInv, Inside
<1>9. AskInv'
  BY <1>1, <1>2, <1>5, <1>8 DEF AskInv, Free
<1> QED
  BY <1>3, <1>7, <1>9 DEF RInv

\* one that sends it again,
LEMMA RetriesKeeps ==
  ASSUME RInv, NEW p \in Procs, Retries(p)
  PROVE  RInv'
<1> DEFINE c == call[p]
           d == [c EXCEPT !.i = @ + 1]
<1>0. TypeInv /\ MutexInv /\ AskInv
  BY DEF RInv
<1>1. /\ Inside(p) /\ c.at = "recv" /\ c.i # RF_RETRIES
      /\ call' = [call EXCEPT ![p] = d]
      /\ Sent(c.msg)
      /\ UNCHANGED <<rfltab, Rf_data, result, srv, prog>>
      /\ toClient' \subseteq toClient
  BY DEF Retries
<1>2. c \in CallType
  BY <1>0 DEF TypeInv
<1>3. /\ d \in CallType /\ d.at = c.at /\ d.msg = c.msg /\ d.op = c.op /\ d.text = c.text
      /\ d.slot = c.slot
  <2>1. c.i + 1 \in 0..RF_RETRIES
    <3>1. c.i \in 0..RF_RETRIES /\ RF_RETRIES \in Nat
      BY <1>2, Numbers DEF CallType
    <3> QED
      BY <1>1, <3>1
  <2> QED
    BY <1>2, <2>1 DEF CallType
<1> HIDE DEF d
<1>4. MutexInv'
  BY <1>0, <1>1, <1>3, StayMutex
<1>5. toServer' \in Seq(MsgType) /\ Len(toServer') <= MaxInTransit
  <2>1. c.msg \in MsgType
    BY <1>2 DEF CallType
  <2> QED
    BY <1>0, <1>1, <2>1, SentTyped
<1>6. /\ call' \in [Procs -> CallType]
      /\ call'[p] = d /\ \A q \in Procs : q # p => call'[q] = call[q]
  BY <1>0, <1>1, <1>3 DEF TypeInv
<1>7. \A q \in Procs : call'[q].op = "putc" => call'[q].text # << >>
  BY <1>0, <1>3, <1>6 DEF TypeInv
<1>8. TypeInv'
  BY <1>0, <1>1, <1>5, <1>6, <1>7 DEF TypeInv, ServerTyped
<1>9. AskInv'
  BY <1>0, <1>1, <1>3, <1>6 DEF AskInv, Free
<1> QED
  BY <1>4, <1>8, <1>9 DEF RInv

\* A call that is made is one of the program's.
LEMMA CallTyped ==
  ASSUME TypeInv, NEW p \in Procs, NEW c \in prog.calls[p]
  PROVE  c \in CallType /\ (c.op = "putc" => c.text # << >>)
<1>1. PICK g \in Programs : prog.calls = g.calls
  BY DEF TypeInv
<1>2. /\ c = Call(c.op, c.slot, c.name, c.num, c.text)
      /\ c.op \in Ops /\ c.slot \in Slots /\ c.name \in DOMAIN Length
      /\ c.num \in Nat /\ c.text \in Seq(Range(c.text))
      /\ c.op = "putc" => c.text # << >>
  BY <1>1, ProgramsAssumption
<1>3. Range(c.text) \subseteq Chars
  <2>1. c \in AllCalls
    BY <1>1 DEF AllCalls
  <2> QED
    BY <2>1 DEF Chars
<1>4. c.text \in Text
  BY <1>2, <1>3 DEF Text
<1> DEFINE o == c.op
           s == c.slot
           n == c.name
           k == c.num
           t == c.text
<1>5. c = [User EXCEPT !.op = o, !.slot = s, !.name = n, !.num = k, !.text = t]
  BY <1>2 DEF Call
<1>6. o \in Ops /\ s \in Slots /\ n \in DOMAIN Length /\ k \in Nat /\ t \in Text
  BY <1>2, <1>4
<1>7. \A o1 \in Ops, s1 \in Slots, n1 \in DOMAIN Length, k1 \in Nat, t1 \in Text :
         [User EXCEPT !.op = o1, !.slot = s1, !.name = n1, !.num = k1, !.text = t1] \in CallType
  BY NoMsgTyped DEF CallType
<1>8. c \in CallType
  <2> HIDE DEF o, s, n, k, t
  <2> QED
    BY <1>5, <1>6, <1>7
<1> QED
  BY <1>2, <1>8

\* and one that begins.
LEMMA EnterKeeps ==
  ASSUME RInv, NEW p \in Procs, NEW c \in prog.calls[p], Enter(p, c)
  PROVE  RInv'
<1> DEFINE d == [c EXCEPT !.at = "enter"]
<1>0. TypeInv /\ MutexInv /\ AskInv
  BY DEF RInv
<1>1. /\ call[p].at = "user"
      /\ prog' = [prog EXCEPT !.left = @ - 1]
      /\ Rf_data' = [Rf_data EXCEPT !.mutex = wait(@, p)]
      /\ call' = [call EXCEPT ![p] = d]
      /\ UNCHANGED <<rfltab, result, toServer, toClient, srv>>
  BY DEF Enter, net
<1>2. /\ d \in CallType /\ d.at = "enter" /\ (d.op = "putc" => d.text # << >>)
  <2>1. c \in CallType /\ (c.op = "putc" => c.text # << >>)
    BY <1>0, CallTyped
  <2> QED
    BY <2>1 DEF CallType
<1> HIDE DEF d
<1>3. MutexInv' /\ Rf_data' \in DataType /\ Rf_data'.seq = Rf_data.seq
  BY <1>0, <1>1, <1>2, EnterMutex
<1>4. /\ call' \in [Procs -> CallType]
      /\ call'[p] = d /\ \A q \in Procs : q # p => call'[q] = call[q]
  BY <1>0, <1>1, <1>2 DEF TypeInv
<1>5. \A q \in Procs : call'[q].op = "putc" => call'[q].text # << >>
  BY <1>0, <1>2, <1>4 DEF TypeInv
<1>6. prog' = [left |-> prog'.left, calls |-> prog'.calls] /\ prog'.calls = prog.calls
  <2> DEFINE l == prog.left - 1
  <2>1. prog = [left |-> prog.left, calls |-> prog.calls]
    BY <1>0 DEF TypeInv
  <2>2. prog' = [prog EXCEPT !.left = l]
    BY <1>1
  <2> HIDE DEF l
  <2> QED
    BY <2>1, <2>2
<1>7. TypeInv'
  BY <1>0, <1>1, <1>3, <1>4, <1>5, <1>6 DEF TypeInv, DataType, ServerTyped
<1>8. AskInv'
  BY <1>0, <1>1, <1>2, <1>3, <1>4 DEF AskInv, Free
<1> QED
  BY <1>3, <1>7, <1>8 DEF RInv

\* What is left of the requests when one is taken or lost.
LEMMA TakenTyped ==
  ASSUME TypeInv, NEW k \in 1..Len(toServer)
  PROVE  /\ toServer[k] \in MsgType
         /\ RemoveAt(toServer, k) \in Seq(MsgType)
         /\ Len(RemoveAt(toServer, k)) <= MaxInTransit
         /\ Len(RemoveAt(toServer, k)) = Len(toServer) - 1 /\ Len(toServer) \in Nat
         /\ \A j \in 1..(Len(toServer) - 1) :
               RemoveAt(toServer, k)[j] = IF j < k THEN toServer[j] ELSE toServer[j + 1]
<1>1. toServer \in Seq(MsgType) /\ Len(toServer) <= MaxInTransit
  BY DEF TypeInv
<1>2. Len(toServer) \in Nat /\ toServer[k] \in MsgType
  BY <1>1
<1>3. /\ RemoveAt(toServer, k) \in Seq(MsgType)
      /\ Len(RemoveAt(toServer, k)) = Len(toServer) - 1
      /\ \A j \in 1..(Len(toServer) - 1) :
            RemoveAt(toServer, k)[j] = IF j < k THEN toServer[j] ELSE toServer[j + 1]
  BY <1>1, RemoveAtElements
<1>4. MaxInTransit \in Nat
  BY Numbers, Zenon
<1>5. Len(toServer) - 1 <= MaxInTransit
  BY <1>1, <1>2, <1>4
<1> QED
  BY <1>2, <1>3, <1>5

\* The server answers a request.
LEMMA ServeKeeps ==
  ASSUME RInv, NEW k \in 1..Len(toServer),
         toServer' = RemoveAt(toServer, k),
         toClient' \subseteq toClient \cup {Answer(toServer[k])},
         srv' = Served(toServer[k]),
         UNCHANGED <<rfltab, Rf_data, call, result, prog>>
  PROVE  RInv'
<1>0. TypeInv /\ MutexInv /\ AskInv
  BY DEF RInv
<1>1. toServer[k] \in MsgType /\ toServer' \in Seq(MsgType) /\ Len(toServer') <= MaxInTransit
  BY <1>0, TakenTyped
<1>2. ServerTyped(srv)
  BY <1>0 DEF TypeInv
<1>3. toClient' \subseteq ReplyType
  <2>1. Answer(toServer[k]) \in ReplyType
    BY <1>1, <1>2, AnswerTyped
  <2> QED
    BY <1>0, <2>1 DEF TypeInv
<1>4. ServerTyped(srv')
  BY <1>1, <1>2, ServedTyped
<1>5. TypeInv'
  BY <1>0, <1>1, <1>3, <1>4 DEF TypeInv
<1>6. MutexInv'
  BY <1>0 DEF MutexInv, Inside
<1>7. AskInv'
  BY <1>0 DEF AskInv, Free
<1> QED
  BY <1>5, <1>6, <1>7 DEF RInv

\* The network loses a message.
LEMMA LoseKeeps ==
  ASSUME RInv, Lose
  PROVE  RInv'
<1>0. TypeInv /\ MutexInv /\ AskInv
  BY DEF RInv
<1>1. UNCHANGED <<rfltab, Rf_data, call, result, srv, prog>>
  BY DEF Lose
<1>2. toServer' \in Seq(MsgType) /\ Len(toServer') <= MaxInTransit
  BY <1>0, TakenTyped DEF Lose, TypeInv
<1>3. toClient' \subseteq ReplyType
  BY <1>0 DEF Lose, TypeInv
<1>4. TypeInv'
  BY <1>0, <1>1, <1>2, <1>3 DEF TypeInv, ServerTyped
<1>5. MutexInv'
  BY <1>0, <1>1 DEF MutexInv, Inside
<1>6. AskInv'
  BY <1>0, <1>1 DEF AskInv, Free
<1> QED
  BY <1>4, <1>5, <1>6 DEF RInv

\* The invariant holds at the start.
LEMMA InitRInv ==
  ASSUME Init
  PROVE  RInv
<1>1. semcreate(1) \in SemType(Procs) /\ SemSound(semcreate(1)) /\ semcreate(1).used
      /\ semcreate(1).count = 1 /\ \A q : ~Has(semcreate(1).queue, q)
  BY NewSem, SameSem
<1>2. rfltab \in [Slots -> BlockType]
  <2>1. rflinit \in BlockType
    BY Numbers DEF rflinit, BlockType, Letters
  <2> QED
    BY <2>1 DEF Init
<1>3. Rf_data \in DataType /\ Rf_data.mutex = semcreate(1)
  BY <1>1 DEF Init, DataType
<1>4. /\ call \in [Procs -> CallType] /\ \A p \in Procs : call[p].at = "user" /\ call[p].op = "none"
  <2>1. User.at = "user" /\ User.op = "none"
    BY DEF User
  <2> QED
    BY <2>1, NoMsgTyped DEF Init
<1>5. result \in [Procs -> ResultType]
  BY FailedTyped DEF Init
<1>6. toServer \in Seq(MsgType) /\ Len(toServer) <= MaxInTransit /\ toClient \subseteq ReplyType
  <2>1. MaxInTransit \in Nat
    BY Numbers, Zenon
  <2> QED
    BY <2>1 DEF Init
<1>7. ServerTyped(srv)
  BY DEF Init, ServerTyped
<1>8. prog = [left |-> prog.left, calls |-> prog.calls] /\ \E g \in Programs : prog.calls = g.calls
  BY ProgramsAssumption DEF Init
<1>9. TypeInv
  BY <1>2, <1>3, <1>4, <1>5, <1>6, <1>7, <1>8 DEF TypeInv, DataType
<1>10. MutexInv
  BY <1>1, <1>3, <1>4 DEF MutexInv, Inside
<1>11. AskInv
  BY <1>4 DEF AskInv
<1> QED
  BY <1>9, <1>10, <1>11 DEF RInv

\* Every step keeps it.
LEMMA NextRInv ==
  ASSUME RInv, [Next]_vars
  PROVE  RInv'
<1>0. TypeInv
  BY DEF RInv
<1>1. ASSUME NEW p \in Procs, Step(p) PROVE RInv'
  <2>1. Kinds(p)
    BY <1>0, <1>1, StepKinds
  <2> QED
    BY <2>1, LeavesKeeps, BeginsKeeps, RetriesKeeps DEF Kinds
<1>2. ASSUME NEW p \in Procs, NEW c \in prog.calls[p], Enter(p, c) PROVE RInv'
  BY <1>2, EnterKeeps
<1>3. CASE Serve
  <2>1. PICK k \in 1..Len(toServer) :
          /\ toServer' = RemoveAt(toServer, k)
          /\ toClient' = IF Cardinality(toClient) < MaxInTransit
                         THEN toClient \cup {Answer(toServer[k])} ELSE toClient
          /\ srv' = IF Denied(toServer[k]) THEN srv ELSE Changed(toServer[k])
          /\ UNCHANGED <<rfltab, Rf_data, call, result, prog>>
    BY <1>3 DEF Serve
  <2>2. toClient' \subseteq toClient \cup {Answer(toServer[k])}
    BY <2>1
  <2> QED
    BY <2>1, <2>2, ServeKeeps DEF Served
<1>4. CASE Lose
  BY <1>4, LoseKeeps
<1>5. CASE UNCHANGED vars
  BY <1>5 DEF vars, net, RInv, TypeInv, MutexInv, AskInv, Inside, Free, ServerTyped
<1> QED
  BY <1>1, <1>2, <1>3, <1>4, <1>5 DEF Next

----------------------------------------------------------------------------
\* The order of the requests.

\* The numbers are numbers.
LEMMA SeqTyped ==
  ASSUME TypeInv
  PROVE  /\ Rf_data.seq \in Nat /\ Len(toServer) \in Nat
         /\ \A k \in 1..Len(toServer) : toServer[k] \in MsgType /\ toServer[k].seq \in Nat
         /\ \A r \in toClient : r \in ReplyType /\ r.seq \in Nat
         /\ \A p \in Procs : call[p] \in CallType /\ call[p].msg \in MsgType
                             /\ call[p].msg.seq \in Nat
<1>1. toServer \in Seq(MsgType) /\ toClient \subseteq ReplyType
  BY DEF TypeInv
<1>2. Rf_data.seq \in Nat
  BY DEF TypeInv
<1>3. \A p \in Procs : call[p] \in CallType /\ call[p].msg \in MsgType
  BY DEF TypeInv, CallType
<1>4. \A m \in MsgType : m.seq \in Nat
  BY DEF MsgType
<1>5. \A r \in ReplyType : r.seq \in Nat
  BY DEF ReplyType
<1>6. Len(toServer) \in Nat /\ \A k \in 1..Len(toServer) : toServer[k] \in MsgType
  BY <1>1
<1> QED
  BY <1>1, <1>2, <1>3, <1>4, <1>5, <1>6

\* A message that is sent is the last one.
LEMMA SentLast ==
  ASSUME TypeInv, NEW m \in MsgType, Sent(m)
  PROVE  \A k \in 1..Len(toServer') :
            \/ k \in 1..Len(toServer) /\ toServer'[k] = toServer[k]
            \/ k > Len(toServer) /\ toServer'[k] = m
<1>1. toServer \in Seq(MsgType) /\ Len(toServer) \in Nat
  <2>1. toServer \in Seq(MsgType)
    BY DEF TypeInv
  <2> QED
    BY <2>1
<1> DEFINE t == Append(toServer, m)
<1>2. /\ Len(t) = Len(toServer) + 1
      /\ \A j \in 1..Len(toServer) : t[j] = toServer[j]
      /\ t[Len(toServer) + 1] = m
  BY <1>1, AppendProperties
<1>3. CASE toServer' = t
  <2> HIDE DEF t
  <2>1. \A k \in 1..Len(t) : k \in 1..Len(toServer) \/ k = Len(toServer) + 1
    BY <1>1, <1>2
  <2>2. Len(toServer) + 1 > Len(toServer)
    BY <1>1
  <2> QED
    BY <1>2, <1>3, <2>1, <2>2
<1>4. CASE toServer' = toServer
  BY <1>4
<1> QED
  BY <1>3, <1>4 DEF Sent

\* A call that returns keeps the order of the requests.
LEMMA LeavesOrder ==
  ASSUME RInv, OInv, NEW p \in Procs, NEW r, Leaves(p, r)
  PROVE  OInv'
<1>0. TypeInv /\ MutexInv /\ AskInv /\ OrderInv /\ TrueInv
  BY DEF RInv, OInv
<1>1. /\ Inside(p)
      /\ Rf_data' = [Rf_data EXCEPT !.mutex = signal(@)]
      /\ call' = [call EXCEPT ![p] = User]
      /\ UNCHANGED <<toServer, srv>>
      /\ toClient' \subseteq toClient
  BY DEF Leaves, Leave
<1>2. Rf_data'.seq = Rf_data.seq
  BY <1>0, <1>1, LeaveMutex
<1>3. \A q \in Procs : call'[q].at # "recv"
  <2>1. \A q \in Procs : q # p => call[q].at # "recv"
    BY <1>0, <1>1 DEF MutexInv, Inside
  <2> QED
    BY <1>0, <1>1, <2>1 DEF TypeInv, User
<1> QED
  BY <1>0, <1>1, <1>2, <1>3 DEF OInv, OrderInv, TrueInv

\* The request of a call is sent, for the first time or again.
LEMMA SendOrder ==
  ASSUME RInv, OrderInv, NEW m \in MsgType, Sent(m),
         m.seq + 1 = Rf_data'.seq, Rf_data.seq <= Rf_data'.seq, toClient' \subseteq toClient,
         \A k \in 1..Len(toServer) : toServer[k].seq <= m.seq,
         \A r \in toClient : r.seq <= m.seq,
         \A k \in 1..Len(toServer) : toServer[k].seq = m.seq => toServer[k] = m,
         \A p \in Procs : call'[p].at = "recv" => call'[p].msg = m
  PROVE  OrderInv'
<1>0. TypeInv
  BY DEF RInv
<1>1. /\ m.seq \in Nat /\ Rf_data'.seq \in Nat /\ Len(toServer) \in Nat
      /\ \A k \in 1..Len(toServer) : toServer[k].seq \in Nat
      /\ \A r \in toClient : r.seq \in Nat
  <2>1. m.seq \in Nat
    BY DEF MsgType
  <2> QED
    BY <1>0, <2>1, SeqTyped
<1>2. \A k \in 1..Len(toServer') :
         \/ k \in 1..Len(toServer) /\ toServer'[k] = toServer[k]
         \/ k > Len(toServer) /\ toServer'[k] = m
  BY <1>0, SentLast
<1>3. \A k \in 1..Len(toServer') : toServer'[k].seq < Rf_data'.seq /\ toServer'[k].seq <= m.seq
  BY <1>1, <1>2
<1>4. ASSUME NEW j \in 1..Len(toServer'), NEW k \in 1..Len(toServer'), j <= k
      PROVE  toServer'[j].seq <= toServer'[k].seq
  <2>1. CASE k > Len(toServer) /\ toServer'[k] = m
    BY <1>3, <2>1
  <2>2. CASE k \in 1..Len(toServer) /\ toServer'[k] = toServer[k]
    <3>1. j \in 1..Len(toServer) /\ ~(j > Len(toServer))
      BY <1>1, <1>4, <2>2
    <3>2. toServer'[j] = toServer[j]
      BY <1>2, <3>1
    <3> QED
      BY <1>4, <2>2, <3>1, <3>2 DEF OrderInv
  <2> QED
    BY <1>2, <2>1, <2>2
<1>5. \A r \in toClient' : r.seq < Rf_data'.seq
  BY <1>1
<1>6. \A r \in toClient' : \A k \in 1..Len(toServer') : r.seq <= toServer'[k].seq
  BY <1>2 DEF OrderInv
<1>7. \A p \in Procs : call'[p].at = "recv" =>
         \A k \in 1..Len(toServer') :
            toServer'[k].seq = call'[p].msg.seq => toServer'[k] = call'[p].msg
  BY <1>2
<1> QED
  BY <1>3, <1>4, <1>5, <1>6, <1>7 DEF OrderInv

\* So does one that sends its request,
LEMMA BeginsOrder ==
  ASSUME RInv, RInv', OInv, NEW p \in Procs, NEW d, Begins(p, d)
  PROVE  OInv'
<1>0. TypeInv /\ MutexInv /\ AskInv /\ OrderInv /\ TrueInv
  BY DEF RInv, OInv
<1>1. /\ Inside(p) /\ d \in CallType /\ d.at = "recv"
      /\ d.msg.seq = Rf_data.seq
      /\ Rf_data' = [Rf_data EXCEPT !.seq = @ + 1, !.registered = TRUE]
      /\ call' = [call EXCEPT ![p] = d]
      /\ Sent(d.msg)
      /\ UNCHANGED <<toClient, srv>>
  BY DEF Begins
<1> DEFINE n == Rf_data.seq
           m == d.msg
<1>2. n \in Nat /\ Rf_data'.seq = n + 1
  BY <1>0, <1>1 DEF TypeInv
<1>3. m \in MsgType
  BY <1>1 DEF CallType
<1>4. call'[p] = d /\ \A q \in Procs : q # p => call'[q] = call[q]
  BY <1>0, <1>1 DEF TypeInv
<1>5. \A q \in Procs : call'[q].at = "recv" => q = p
  BY <1>0, <1>1, <1>4 DEF MutexInv, Inside
<1>6. \A q \in Procs : call'[q].at = "recv" => call'[q].msg = m
  BY <1>4, <1>5
<1>7. /\ \A k \in 1..Len(toServer) : toServer[k].seq < n /\ toServer[k].seq \in Nat
      /\ \A r \in toClient : r.seq < n /\ r.seq \in Nat
  BY <1>0, SeqTyped DEF OrderInv
<1>8. OrderInv'
  <2>1. /\ m.seq = n /\ m.seq + 1 = Rf_data'.seq /\ Rf_data.seq <= Rf_data'.seq
        /\ \A k \in 1..Len(toServer) : toServer[k].seq <= m.seq /\ toServer[k].seq # m.seq
        /\ \A r \in toClient : r.seq <= m.seq
    BY <1>1, <1>2, <1>7
  <2> HIDE DEF n, m
  <2> QED
    BY <1>0, <1>1, <1>3, <1>6, <2>1, SendOrder DEF m
<1>9. TrueInv'
  <2>1. \A r \in toClient : ~Matches(r, m)
    BY <1>1, <1>2, <1>7 DEF Matches
  <2> QED
    BY <1>1, <1>6, <2>1 DEF TrueInv
<1> QED
  BY <1>8, <1>9 DEF OInv

\* one that sends it again,
LEMMA RetriesOrder ==
  ASSUME RInv, OInv, NEW p \in Procs, Retries(p)
  PROVE  OInv'
<1> DEFINE m == call[p].msg
<1>0. TypeInv /\ MutexInv /\ AskInv /\ OrderInv /\ TrueInv
  BY DEF RInv, OInv
<1>1. /\ Inside(p) /\ call[p].at = "recv"
      /\ call' = [call EXCEPT ![p].i = @ + 1]
      /\ Sent(m)
      /\ UNCHANGED <<Rf_data, srv>>
      /\ toClient' \subseteq toClient
  BY DEF Retries
<1>2. m \in MsgType /\ m.seq \in Nat /\ Rf_data.seq \in Nat /\ call[p] \in CallType
  BY <1>0, SeqTyped
<1>3. /\ call'[p].msg = m /\ call'[p].at = "recv"
      /\ \A q \in Procs : q # p => call'[q] = call[q]
  BY <1>0, <1>1, <1>2 DEF TypeInv, CallType
<1>4. \A q \in Procs : call'[q].at = "recv" => q = p
  BY <1>0, <1>1, <1>3 DEF MutexInv, Inside
<1>5. \A q \in Procs : call'[q].at = "recv" => call'[q].msg = m
  BY <1>3, <1>4
<1>6. m.seq + 1 = Rf_data.seq
  BY <1>0, <1>1 DEF AskInv
<1>7. /\ \A k \in 1..Len(toServer) : toServer[k].seq < Rf_data.seq /\ toServer[k].seq \in Nat
      /\ \A r \in toClient : r.seq < Rf_data.seq /\ r.seq \in Nat
  BY <1>0, SeqTyped DEF OrderInv
<1>8. OrderInv'
  <2>1. /\ m.seq + 1 = Rf_data'.seq /\ Rf_data.seq <= Rf_data'.seq
        /\ \A k \in 1..Len(toServer) : toServer[k].seq <= m.seq
        /\ \A r \in toClient : r.seq <= m.seq
    BY <1>1, <1>2, <1>6, <1>7
  <2>2. \A k \in 1..Len(toServer) : toServer[k].seq = m.seq => toServer[k] = m
    BY <1>0, <1>1 DEF OrderInv
  <2> HIDE DEF m
  <2> QED
    BY <1>0, <1>1, <1>2, <1>5, <2>1, <2>2, SendOrder
<1>9. TrueInv'
  <2>1. \A r \in toClient' :
           Matches(r, m) /\ (r.status = 0 \/ m.type = "SREQ") => Kept(m, srv, r)
    BY <1>0, <1>1 DEF TrueInv
  <2> QED
    BY <1>1, <1>5, <2>1 DEF TrueInv
<1> QED
  BY <1>8, <1>9 DEF OInv

\* and one that begins.
LEMMA EnterOrder ==
  ASSUME RInv, OInv, NEW p \in Procs, NEW c \in prog.calls[p], Enter(p, c)
  PROVE  OInv'
<1> DEFINE d == [c EXCEPT !.at = "enter"]
<1>0. TypeInv /\ MutexInv /\ AskInv /\ OrderInv /\ TrueInv
  BY DEF RInv, OInv
<1>1. /\ call[p].at = "user"
      /\ Rf_data' = [Rf_data EXCEPT !.mutex = wait(@, p)]
      /\ call' = [call EXCEPT ![p] = d]
      /\ UNCHANGED <<toServer, toClient, srv>>
  BY DEF Enter, net
<1>2. d.at = "enter"
  <2>1. c \in CallType
    BY <1>0, CallTyped
  <2> QED
    BY <2>1 DEF CallType
<1> HIDE DEF d
<1>3. Rf_data'.seq = Rf_data.seq
  BY <1>0, <1>1, <1>2, EnterMutex
<1>4. call'[p] = d /\ \A q \in Procs : q # p => call'[q] = call[q]
  BY <1>0, <1>1 DEF TypeInv
<1>5. \A q \in Procs : call'[q].at = "recv" => call[q].at = "recv" /\ call'[q] = call[q]
  BY <1>2, <1>4
<1> QED
  BY <1>0, <1>1, <1>3, <1>5 DEF OInv, OrderInv, TrueInv

\* The server takes the oldest request.
LEMMA ServeOrder ==
  ASSUME RInv, OInv, toServer # << >>,
         toServer' = RemoveAt(toServer, 1),
         toClient' \subseteq toClient \cup {Answer(toServer[1])},
         srv' = Served(toServer[1]),
         UNCHANGED <<rfltab, Rf_data, call, result, prog>>
  PROVE  OInv'
<1> DEFINE q == toServer[1]
           a == Answer(q)
<1>0. TypeInv /\ MutexInv /\ AskInv /\ OrderInv /\ TrueInv
  BY DEF RInv, OInv
<1>1. 1 \in 1..Len(toServer)
  <2>1. toServer \in Seq(MsgType)
    BY <1>0 DEF TypeInv
  <2> QED
    BY <2>1, EmptySeq
<1>2. /\ q \in MsgType /\ Len(toServer') = Len(toServer) - 1 /\ Len(toServer) \in Nat
      /\ \A j \in 1..(Len(toServer) - 1) :
            toServer'[j] = IF j < 1 THEN toServer[j] ELSE toServer[j + 1]
  BY <1>0, <1>1, TakenTyped
<1>3. \A j \in 1..Len(toServer') : j + 1 \in 1..Len(toServer) /\ toServer'[j] = toServer[j + 1]
  BY <1>2
<1>4. /\ q.seq \in Nat /\ q.seq < Rf_data.seq
      /\ \A k \in 1..Len(toServer) : q.seq <= toServer[k].seq
      /\ \A r \in toClient : r.seq <= q.seq
  <2>1. \A k \in 1..Len(toServer) : 1 <= k
    BY <1>2
  <2> QED
    BY <1>0, <1>1, <2>1, SeqTyped DEF OrderInv
<1>5. ServerTyped(srv)
  BY <1>0 DEF TypeInv
<1>6. a.seq = q.seq /\ a.type = q.type /\ a \in ReplyType
  BY <1>2, <1>5, AnswerTyped
<1> HIDE DEF a, q
<1>7. OrderInv'
  <2>1. \A k \in 1..Len(toServer') : toServer'[k].seq < Rf_data'.seq
    BY <1>0, <1>3 DEF OrderInv
  <2>2. ASSUME NEW j \in 1..Len(toServer'), NEW k \in 1..Len(toServer'), j <= k
        PROVE  toServer'[j].seq <= toServer'[k].seq
    <3>1. j + 1 <= k + 1
      BY <2>2
    <3> QED
      BY <1>0, <1>3, <3>1 DEF OrderInv
  <2>3. \A r \in toClient' : r.seq < Rf_data'.seq
    BY <1>0, <1>4, <1>6 DEF OrderInv, a, q
  <2>4. \A r \in toClient' : \A k \in 1..Len(toServer') : r.seq <= toServer'[k].seq
    <3>1. \A r \in toClient' : r \in toClient \/ r = a
      BY DEF a, q
    <3> QED
      BY <1>0, <1>3, <1>4, <1>6, <3>1 DEF OrderInv
  <2>5. \A p \in Procs : call'[p].at = "recv" =>
           \A k \in 1..Len(toServer') :
              toServer'[k].seq = call'[p].msg.seq => toServer'[k] = call'[p].msg
    BY <1>0, <1>3 DEF OrderInv
  <2> QED
    BY <2>1, <2>2, <2>3, <2>4, <2>5 DEF OrderInv
<1>8. ASSUME NEW p \in Procs, call[p].at = "recv", NEW r \in toClient',
             Matches(r, call[p].msg), r.status = 0 \/ call[p].msg.type = "SREQ"
      PROVE  Kept(call[p].msg, srv', r)
  <2> DEFINE m == call[p].msg
  <2>1. Asks(call[p].op, m) /\ m.seq + 1 = Rf_data.seq
    BY <1>0, <1>8 DEF AskInv
  <2>2. m.seq \in Nat /\ m \in MsgType
    BY <1>0, SeqTyped
  <2>3. r \in toClient \/ r = a
    BY DEF a, q
  <2>4. q.seq = m.seq
    <3>1. r.seq = m.seq /\ r.seq <= q.seq
      BY <1>4, <1>6, <1>8, <2>3 DEF Matches
    <3> QED
      BY <1>0, <1>4, <2>1, <2>2, <3>1, SeqTyped
  <2>5. q = m
    BY <1>0, <1>1, <1>8, <2>4 DEF OrderInv, q
  <2>6. m.type \in Requests /\ (m.type = "WREQ" => m.len = Len(m.data))
    BY <2>1 DEF Asks, Requests
  <2>7. /\ a.status = 0 \/ m.type = "SREQ" => Kept(m, srv', a)
        /\ \A x \in ReplyType : Kept(m, srv, x) => Kept(m, srv', x)
    BY <1>5, <2>2, <2>5, <2>6, ServedKeeps DEF a, q
  <2>8. CASE r = a
    BY <1>8, <2>7, <2>8
  <2>9. CASE r \in toClient
    <3>1. Kept(m, srv, r) /\ r \in ReplyType
      BY <1>0, <1>8, <2>9, SeqTyped DEF TrueInv
    <3> QED
      BY <2>7, <3>1
  <2> QED
    BY <2>3, <2>8, <2>9
<1>9. TrueInv'
  BY <1>8 DEF TrueInv
<1> QED
  BY <1>7, <1>9 DEF OInv

\* A message is lost.
LEMMA LoseOrder ==
  ASSUME RInv, OInv, Lose
  PROVE  OInv'
<1>0. TypeInv /\ OrderInv /\ TrueInv
  BY DEF RInv, OInv
<1>1. UNCHANGED <<rfltab, Rf_data, call, result, srv, prog>>
  BY DEF Lose
<1>2. CASE \E k \in 1..Len(toServer) : toServer' = RemoveAt(toServer, k) /\ UNCHANGED toClient
  <2>1. PICK k \in 1..Len(toServer) : toServer' = RemoveAt(toServer, k) /\ UNCHANGED toClient
    BY <1>2
  <2>2. /\ Len(toServer') = Len(toServer) - 1 /\ Len(toServer) \in Nat
        /\ \A j \in 1..(Len(toServer) - 1) :
              toServer'[j] = IF j < k THEN toServer[j] ELSE toServer[j + 1]
    BY <1>0, <2>1, TakenTyped
  <2> DEFINE at(j) == IF j < k THEN j ELSE j + 1
  <2>3. \A j \in 1..Len(toServer') : at(j) \in 1..Len(toServer) /\ toServer'[j] = toServer[at(j)]
    BY <2>2
  <2>4. \A i, j \in 1..Len(toServer') : i <= j => at(i) <= at(j)
    BY <2>2
  <2> HIDE DEF at
  <2>5. \A k1 \in 1..Len(toServer') : toServer'[k1].seq < Rf_data'.seq
    BY <1>0, <1>1, <2>3 DEF OrderInv
  <2>6. \A i, j \in 1..Len(toServer') : i <= j => toServer'[i].seq <= toServer'[j].seq
    BY <1>0, <2>3, <2>4 DEF OrderInv
  <2>7. \A r \in toClient' : \A j \in 1..Len(toServer') : r.seq <= toServer'[j].seq
    BY <1>0, <2>1, <2>3 DEF OrderInv
  <2>8. \A p \in Procs : call'[p].at = "recv" =>
           \A j \in 1..Len(toServer') :
              toServer'[j].seq = call'[p].msg.seq => toServer'[j] = call'[p].msg
    BY <1>0, <1>1, <2>3 DEF OrderInv
  <2> QED
    BY <1>0, <1>1, <2>1, <2>5, <2>6, <2>7, <2>8 DEF OInv, OrderInv, TrueInv
<1>3. CASE \E r \in toClient : toClient' = toClient \ {r} /\ UNCHANGED toServer
  BY <1>0, <1>1, <1>3 DEF OInv, OrderInv, TrueInv
<1> QED
  BY <1>2, <1>3 DEF Lose

\* No request is under way at the start.
LEMMA InitOrder ==
  ASSUME Init
  PROVE  OInv
<1>1. toServer = << >> /\ toClient = {} /\ \A p \in Procs : call[p].at = "user"
  BY DEF Init, User
<1>2. 1..Len(toServer) = {}
  BY <1>1
<1> QED
  BY <1>1, <1>2 DEF OInv, OrderInv, TrueInv

\* Every step keeps the order, unless requests overtake one another.
LEMMA NextOrder ==
  ASSUME ~Overtaking, RInv, RInv', OInv, [Next]_vars
  PROVE  OInv'
<1>0. TypeInv
  BY DEF RInv
<1>1. ASSUME NEW p \in Procs, Step(p) PROVE OInv'
  <2>1. Kinds(p)
    BY <1>0, <1>1, StepKinds
  <2> QED
    BY <2>1, LeavesOrder, BeginsOrder, RetriesOrder DEF Kinds
<1>2. ASSUME NEW p \in Procs, NEW c \in prog.calls[p], Enter(p, c) PROVE OInv'
  BY <1>2, EnterOrder
<1>3. CASE Serve
  <2>1. PICK k \in 1..Len(toServer) :
          /\ k = 1
          /\ toServer' = RemoveAt(toServer, k)
          /\ toClient' = IF Cardinality(toClient) < MaxInTransit
                         THEN toClient \cup {Answer(toServer[k])} ELSE toClient
          /\ srv' = IF Denied(toServer[k]) THEN srv ELSE Changed(toServer[k])
          /\ UNCHANGED <<rfltab, Rf_data, call, result, prog>>
    BY <1>3 DEF Serve
  <2>2. toClient' \subseteq toClient \cup {Answer(toServer[1])}
    BY <2>1
  <2>3. toServer # << >>
    BY <2>1
  <2> QED
    BY <2>1, <2>2, <2>3, ServeOrder DEF Served
<1>4. CASE Lose
  BY <1>4, LoseOrder
<1>5. CASE UNCHANGED vars
  BY <1>5 DEF vars, net, OInv, OrderInv, TrueInv
<1> QED
  BY <1>1, <1>2, <1>3, <1>4, <1>5 DEF Next

----------------------------------------------------------------------------
\* What a call returns.

\* The truth of an answer is that of what is returned for it.
LEMMA DoneReturned ==
  ASSUME NEW c, NEW m, Asks(c.op, m), NEW s, NEW a, Done(m, s, a)
  PROVE  Done(m, s, Returned(c, a))
<1> DEFINE r == Returned(c, a)
<1>1. m.type = "RREQ" => r.data = a.data /\ r.len = a.len
  BY DEF Asks, Returned, Gave, Functions
<1>2. m.type \in {"WREQ", "SREQ"} => r.len = a.len
  BY DEF Asks, Returned, Gave, Functions
<1>3. m.type \in Requests
  BY DEF Asks, Requests
<1> HIDE DEF r
<1> QED
  BY <1>1, <1>2, <1>3 DEF Done, Requests, r

\* A call that leaves with success has had a true answer.
LEMMA LeavesTrue ==
  ASSUME RInv, OInv, NEW p \in Procs, NEW r, Leaves(p, r), call[p].at = "recv", r.ok
  PROVE  /\ Done(call[p].msg, srv, r)
         /\ call[p].op = "open" => call[p].slot \in Free
<1>0. AskInv /\ TrueInv
  BY DEF RInv, OInv
<1>1. PICK a \in toClient : /\ Matches(a, call[p].msg) /\ ~Bad(call[p], a)
                            /\ r = Returned(call[p], a)
  BY DEF Leaves
<1>2. Asks(call[p].op, call[p].msg) /\ (call[p].op = "open" => call[p].slot \in Free)
  BY <1>0 DEF AskInv
<1>3. a.status = 0 \/ call[p].msg.type = "SREQ"
  BY <1>1, <1>2 DEF Bad, Asks, Functions
<1>4. Done(call[p].msg, srv, a)
  BY <1>0, <1>1, <1>3 DEF TrueInv, Kept
<1> QED
  BY <1>1, <1>2, <1>4, DoneReturned

\* A call that was waiting for the server and is over has left.
LEMMA OnlyLeaves ==
  ASSUME RInv, [Next]_vars, NEW p \in Procs, call[p].at = "recv", call'[p].at = "user"
  PROVE  Leaves(p, result'[p])
<1>0. TypeInv /\ MutexInv
  BY DEF RInv
<1>1. ASSUME NEW q \in Procs, Step(q) PROVE Leaves(p, result'[p])
  <2>1. Kinds(q)
    BY <1>0, <1>1, StepKinds
  <2>2. Inside(p)
    BY <1>0, ReceiverInside
  <2>3. ASSUME NEW r, Leaves(q, r) PROVE Leaves(p, result'[p])
    <3>1. q = p
      BY <1>0, <2>2, <2>3 DEF Leaves, MutexInv
    <3>2. result'[p] = r
      BY <1>0, <2>3, <3>1 DEF Leaves, Leave, TypeInv
    <3> QED
      BY <2>3, <3>1, <3>2
  <2>4. ASSUME NEW d, Begins(q, d) PROVE FALSE
    <3>1. q = p
      BY <1>0, <2>2, <2>4 DEF Begins, MutexInv
    <3> QED
      BY <2>4, <3>1 DEF Begins
  <2>5. ASSUME Retries(q) PROVE FALSE
    <3>1. call'[p].at = call[p].at
      BY <1>0, <2>5 DEF Retries, TypeInv, CallType
    <3> QED
      BY <3>1
  <2> QED
    BY <2>1, <2>3, <2>4, <2>5 DEF Kinds
<1>2. ASSUME NEW q \in Procs, NEW c \in prog.calls[q], Enter(q, c) PROVE FALSE
  <2>1. q # p
    BY <1>2 DEF Enter
  <2>2. call'[p] = call[p]
    BY <1>0, <1>2, <2>1 DEF Enter, TypeInv
  <2> QED
    BY <2>2
<1>3. ASSUME Serve \/ Lose \/ UNCHANGED vars PROVE FALSE
  BY <1>3 DEF Serve, Lose, vars
<1> QED
  BY <1>1, <1>2, <1>3 DEF Next

\* The action of AnswersTrue.
TrueAnswers ==
    \A p \in Procs :
        call[p].at = "recv" /\ call'[p].at = "user" /\ result'[p].ok =>
            /\ Done(call[p].msg, srv, result'[p])
            /\ call[p].op = "open" => call[p].slot \in Free

\* What a step returns with success is true of the server.
LEMMA NextTrue ==
  ASSUME RInv, OInv, [Next]_vars
  PROVE  [TrueAnswers]_vars
BY OnlyLeaves, LeavesTrue DEF TrueAnswers

\* The invariant implies the types.
LEMMA RInvTypeOK ==
  ASSUME RInv
  PROVE  TypeOK
<1>0. TypeInv /\ MutexInv
  BY DEF RInv
<1>1. ASSUME NEW s \in Slots
      PROVE  /\ rfltab[s].state \in {"FREE", "USED"}
             /\ rfltab[s].name \in DOMAIN Length /\ rfltab[s].pos \in Nat
             /\ rfltab[s].mode \subseteq {"r", "w", "o", "n"}
  BY <1>0, <1>1 DEF TypeInv, BlockType, Letters
<1>2. Rf_data.mutex.count <= 1 /\ Rf_data.registered \in BOOLEAN
  BY <1>0 DEF TypeInv, MutexInv
<1>3. \A p \in Procs : call[p].i \in 0..RF_RETRIES
  BY <1>0 DEF TypeInv, CallType
<1> QED
  BY <1>0, <1>1, <1>2, <1>3 DEF TypeOK, TypeInv

----------------------------------------------------------------------------
\* The theorems.

\* rf_mutex does what it is for (rfscomm, rfsopen and the calls of the file devices):
\* whatever the network does, also when requests overtake one another, one process at
\* a time is between its wait and its signal, the others stand in the queue with a
\* call they have not begun, and the mutex counts them.
THEOREM OneCallAtATime == Spec => []MutexInv
<1>1. Init => RInv
  BY InitRInv
<1>2. RInv /\ [Next]_vars => RInv'
  BY NextRInv
<1>3. RInv => MutexInv
  BY DEF RInv
<1> QED
  BY <1>1, <1>2, <1>3, PTL DEF Spec

\* The control blocks, the tries of a call and the mutex stay in their types
\* (struct rflcblk, struct rfdata), whatever the network does.
THEOREM RfsTyped == Spec => []TypeOK
<1>1. Init => RInv
  BY InitRInv
<1>2. RInv /\ [Next]_vars => RInv'
  BY NextRInv
<1>3. RInv => TypeOK
  BY RInvTypeOK
<1> QED
  BY <1>1, <1>2, <1>3, PTL DEF Spec

\* A call that waits for the server has asked for what it is for, under the last
\* number that was given (rf_seq), and the device that an open will take is in the
\* hands of nobody else, however many calls wait for the mutex meanwhile.
THEOREM CallsAskTheirOwn == Spec => []AskInv
<1>1. Init => RInv
  BY InitRInv
<1>2. RInv /\ [Next]_vars => RInv'
  BY NextRInv
<1>3. RInv => AskInv
  BY DEF RInv
<1> QED
  BY <1>1, <1>2, <1>3, PTL DEF Spec

\* A call that returns with success tells the truth (rfscomm, rflread, rflwrite,
\* rfsopen, rfscontrol): requests may be repeated, answers may be lost, delivered
\* twice and late, but the number of a request is that of no other, and no request
\* reaches the server after a later one, so that what is done stays done until the
\* call has returned.
THEOREM AnswersAreTrue ==
  ASSUME ~Overtaking
  PROVE  Spec => AnswersTrue
<1>1. Init => RInv /\ OInv
  BY InitRInv, InitOrder
<1>2. RInv /\ OInv /\ [Next]_vars => RInv' /\ OInv'
  BY NextRInv, NextOrder
<1>3. RInv /\ OInv /\ [Next]_vars => [TrueAnswers]_vars
  BY NextTrue
<1>4. RInv => TypeOK
  BY RInvTypeOK
<1>5. Spec => [][TrueAnswers]_vars /\ []TypeOK
  BY <1>1, <1>2, <1>3, <1>4, PTL DEF Spec
<1> QED
  BY <1>5 DEF AnswersTrue, TrueAnswers
=============================================================================

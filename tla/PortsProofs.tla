---------------------------- MODULE PortsProofs -----------------------------
(***************************************************************************)
(* Ports, for any number of processes, ports, semaphores, nodes and any    *)
(* counts: what holds as long as the nodes last (PInv) is preserved by     *)
(* every step, and makes a port a channel.                                 *)
(***************************************************************************)
EXTENDS Ports, QueueProofs

----------------------------------------------------------------------------
\* The invariant.

Roles == {"send", "recv"}

\* The semaphore that the calls of role r on port k wait for, and what it
\* counts when nobody is inside.
Gate(k, r) == IF r = "send" THEN porttab[k].ssem ELSE porttab[k].rsem
Room(k, r) == IF r = "send" THEN porttab[k].maxcnt - Len(porttab[k].msgs)
              ELSE Len(porttab[k].msgs)

\* Process c is clearing port k.
Clears(c, k) ==
    c \notin dead /\ call[c].at \in {"clear", "cleared"} /\ call[c].port = k

\* Port k will still use its semaphore of role r: it is open, or the process
\* that clears it has not got so far.
Holds(k, r) ==
    \/ porttab[k].state = "ALLOC"
    \/ \E c \in Procs : /\ Clears(c, k)
                        /\ \/ call[c].new = "ALLOC"
                           \/ r = "recv" /\ call[c].at = "clear"

\* The semaphore of role r counts what is there: the port is open, or the reset
\* has got past it.
Settled(k, r) ==
    \/ porttab[k].state = "ALLOC"
    \/ \E c \in Procs : /\ Clears(c, k) /\ call[c].new = "ALLOC"
                        /\ r = "send" \/ call[c].at = "cleared"

Waits(p, s) == Has(semtab[s].queue, p)

TypeInv ==
    /\ porttab \in [Ports -> [state : {"FREE", "LIMBO", "ALLOC"},
                              ssem : Sems \cup {SYSERR}, rsem : Sems \cup {SYSERR},
                              maxcnt : Counts \cup {0}, seq : 0..MaxSeq,
                              msgs : Seq(Msgs)]]
    /\ ptfree \in Nat
    /\ ptnextid \in Ports
    /\ semtab \in [Sems -> [used : BOOLEAN, count : Int, queue : Seq(Procs)]]
    /\ nextsem \in Sems
    /\ call \in [Procs -> [at : {"user", "send", "recv", "clear", "cleared"},
                           port : Ports, seq : 0..MaxSeq, msg : Msgs \cup {0},
                           new : {"FREE", "ALLOC"}]]
    /\ dead \in SUBSET Procs
    /\ lost \in BOOLEAN

SemsInv == \A s \in Sems : SemSound(semtab[s])

\* A process waits on the semaphore of its call's role of its call's port, which
\* has not changed since or is just being cleared.
WaitInv ==
    \A s \in Sems, p \in Procs : Waits(p, s) =>
        LET pt == porttab[call[p].port] IN
        /\ p \notin dead
        /\ call[p].at \in Roles
        /\ Gate(call[p].port, call[p].at) = s
        /\ \/ pt.state = "ALLOC" /\ pt.seq = call[p].seq
           \/ pt.state = "LIMBO" /\ pt.seq = call[p].seq + 1 /\ call[p].at = "recv"

\* A semaphore that a port will still use is in use, nobody waits on it for
\* another port or role, and no other port or role uses it.
HoldInv ==
    \A k \in Ports, r \in Roles :
        LET s == Gate(k, r) IN
        Holds(k, r) /\ s # SYSERR =>
            /\ semtab[s].used
            /\ \A p \in Procs : Waits(p, s) => call[p].port = k /\ call[p].at = r
            /\ \A j \in Ports, t \in Roles :
                  Holds(j, t) /\ Gate(j, t) = s => j = k /\ t = r

\* A port that is cleared is in limbo, one process clears it, and when both
\* releases are done nobody waits for it.
ClearInv ==
    \A c \in Procs, k \in Ports : Clears(c, k) =>
        /\ porttab[k].state = "LIMBO"
        /\ porttab[k].seq = call[c].seq + 1
        /\ \A d \in Procs : Clears(d, k) => d = c
        /\ call[c].at = "cleared" =>
              \A s \in Sems, p \in Procs : Waits(p, s) => call[p].port # k

\* The port of a call is as old as the call, and then it has the semaphore that
\* the call waits for, or it has changed since.
CallInv ==
    \A p \in Procs : call[p].at \in Roles =>
        LET pt == porttab[call[p].port] IN
        /\ call[p].seq <= pt.seq
        /\ pt.state # "ALLOC" => call[p].seq < pt.seq
        /\ call[p].seq = pt.seq => Gate(call[p].port, call[p].at) # SYSERR
        /\ call[p].at = "send" => call[p].msg \in Msgs

\* A port holds at most as many messages as it was made for, and none when it
\* is not open.
SizeInv ==
    \A k \in Ports :
        /\ porttab[k].state # "ALLOC" => porttab[k].msgs = << >>
        /\ porttab[k].state # "FREE" => porttab[k].maxcnt \in Counts
        /\ Len(porttab[k].msgs) <= porttab[k].maxcnt

\* The counts; SlotInv for each semaphore, and in the midst of a reset too.
CountInv ==
    \A k \in Ports, r \in Roles :
        LET s == Gate(k, r)
            n == Room(k, r) - Cardinality(Inside(k, r))
        IN  Settled(k, r) /\ s # SYSERR =>
                IF lost THEN semtab[s].count <= n ELSE semtab[s].count = n

NodeInv == ptfree + Filled(porttab, NPORTS) = PT_MSGS

PInv == /\ TypeInv /\ SemsInv /\ WaitInv /\ HoldInv /\ ClearInv
        /\ CallInv /\ SizeInv /\ CountInv /\ NodeInv

----------------------------------------------------------------------------
\* The messages in the ports.

IsFill(f, pt, n) ==
    f = [i \in 0..n |-> IF i = 0 THEN 0 ELSE f[i - 1] + Len(pt[i - 1].msgs)]

\* The semaphores of SemOps are those the lemmas of QueueProofs are about.
LEMMA SameSem ==
  /\ \A x, p : wait(x, p) = Sem!wait(x, p) /\ Unwait(x, p) = Sem!Unwait(x, p)
  /\ \A x, p : Queued(x, p) <=> Sem!Queued(x, p)
  /\ \A x : signal(x) = Sem!signal(x)
  /\ \A x, n : signaln(x, n) = Sem!signaln(x, n) /\ semreset(x, n) = Sem!semreset(x, n)
  /\ \A n : semcreate(n) = Sem!semcreate(n)
  /\ NoSem = Sem!NoSem
<1>1. \A x, p : wait(x, p) = Sem!wait(x, p)
  BY DEF wait, Sem!wait
<1>2. \A x, p : Unwait(x, p) = Sem!Unwait(x, p)
  BY DEF Unwait, Sem!Unwait, RemoveAt, Sem!RemoveAt
<1>3. \A x, p : Queued(x, p) <=> Sem!Queued(x, p)
  BY DEF Queued, Sem!Queued, Range, Sem!Range
<1>4. \A x, n : signaln(x, n) = Sem!signaln(x, n)
  BY DEF signaln, Sem!signaln, Min, Sem!Min
<1>5. \A x : signal(x) = Sem!signal(x)
  BY <1>4 DEF signal, Sem!signal
<1>6. \A x, n : semreset(x, n) = Sem!semreset(x, n)
  BY DEF semreset, Sem!semreset
<1>7. (\A n : semcreate(n) = Sem!semcreate(n)) /\ NoSem = Sem!NoSem
  BY DEF semcreate, Sem!semcreate, NoSem, Sem!NoSem
<1> QED
  BY <1>1, <1>2, <1>3, <1>4, <1>5, <1>6, <1>7

\* Counting port by port.
LEMMA FilledSteps ==
  ASSUME NEW pt, NEW n \in Nat, \A k \in 0..(n - 1) : Len(pt[k].msgs) \in Int
  PROVE  /\ Filled(pt, n) \in Int
         /\ n = 0 => Filled(pt, n) = 0
         /\ n > 0 => Filled(pt, n) = Filled(pt, n - 1) + Len(pt[n - 1].msgs)
<1> DEFINE s == [i \in 1..n |-> i]
           ks == [i \in 1..n |-> Len(pt[i - 1].msgs)]
           sum(m) == CHOOSE f : IsFill(f, pt, m)
<1>1. \A i \in 1..n : ks[s[i]] = Len(pt[i - 1].msgs) /\ ks[s[i]] \in Int
  OBVIOUS
<1> HIDE DEF s, ks
<1>2. ASSUME NEW m \in 0..n, NEW f
      PROVE  IsFill(f, pt, m) <=> IsSum(f, s, ks, m)
  <2> DEFINE g == [i \in 0..m |-> IF i = 0 THEN 0 ELSE f[i - 1] + Len(pt[i - 1].msgs)]
             h == [i \in 0..m |-> IF i = 0 THEN 0 ELSE f[i - 1] + ks[s[i]]]
  <2>1. \A i \in 0..m : g[i] = h[i]
    BY <1>1
  <2>2. g = h
    BY <2>1
  <2> QED
    BY <2>2 DEF IsFill, IsSum
<1>3. ASSUME NEW m \in 0..n
      PROVE  /\ Filled(pt, m) = sum(m)[m]
             /\ IsSum(sum(m), s, ks, m)
             /\ Filled(pt, m) \in Int
  <2>1. PICK f \in [0..m -> Int] : IsSum(f, s, ks, m)
    <3>1. m \in Nat /\ \A i \in 1..m : ks[s[i]] \in Int
      BY <1>1
    <3> QED
      BY <3>1, SumExists
  <2>2. IsFill(f, pt, m)
    BY <1>2, <2>1
  <2>3. IsFill(sum(m), pt, m)
    BY <2>2
  <2>4. Filled(pt, m) = sum(m)[m]
    BY DEF Filled, IsFill
  <2> HIDE DEF sum
  <2>5. IsSum(sum(m), s, ks, m)
    BY <1>2, <2>3
  <2>6. sum(m)[m] = f[m]
    BY <2>1, <2>5, SumUnique
  <2> QED
    BY <2>1, <2>4, <2>5, <2>6
<1> HIDE DEF sum
<1>4. Filled(pt, n) \in Int
  BY <1>3
<1>5. n = 0 => Filled(pt, n) = 0
  <2>1. 0 \in 0..0
    OBVIOUS
  <2> QED
    BY <1>3, <2>1 DEF IsSum
<1>6. ASSUME n > 0
      PROVE  Filled(pt, n) = Filled(pt, n - 1) + Len(pt[n - 1].msgs)
  <2>1. n - 1 \in 0..n /\ n \in 0..n /\ n - 1 \in 0..(n - 1) /\ n \in 1..n
    BY <1>6
  <2>2. sum(n)[n] = sum(n)[n - 1] + ks[s[n]]
    <3>1. IsSum(sum(n), s, ks, n)
      BY <1>3
    <3> QED
      BY <3>1, <2>1, <1>6 DEF IsSum
  <2>3. sum(n - 1)[n - 1] = sum(n)[n - 1]
    <3>1. IsSum(sum(n - 1), s, ks, n - 1) /\ IsSum(sum(n), s, ks, n)
      BY <1>3, <2>1
    <3>2. n - 1 \in Nat /\ n - 1 <= n
      BY <2>1
    <3> QED
      BY <2>1, <3>1, <3>2, SumUnique
  <2>4. ks[s[n]] = Len(pt[n - 1].msgs)
    BY <1>1, <2>1
  <2> QED
    BY <1>3, <2>1, <2>2, <2>3, <2>4
<1> QED
  BY <1>4, <1>5, <1>6

\* When one port changes, the number of messages changes by as much.
LEMMA FilledChange ==
  ASSUME NEW pt, NEW qt, NEW k \in Ports,
         \A j \in Ports : Len(pt[j].msgs) \in Int /\ Len(qt[j].msgs) \in Int,
         \A j \in Ports : j # k => Len(qt[j].msgs) = Len(pt[j].msgs)
  PROVE  Filled(qt, NPORTS) - Filled(pt, NPORTS) = Len(qt[k].msgs) - Len(pt[k].msgs)
<1> DEFINE a(n) == Filled(pt, n)
           b(n) == Filled(qt, n)
           lp(j) == Len(pt[j].msgs)
           lq(j) == Len(qt[j].msgs)
           A == {n \in Nat : b(n) - a(n) = IF n <= k THEN 0 ELSE lq(k) - lp(k)}
<1>0. /\ NPORTS \in Nat /\ k \in Nat /\ 0 <= k /\ ~(NPORTS <= k)
      /\ \A n \in 0..(NPORTS - 1) : n \in Ports
  BY PortsAssumption DEF Ports
<1>1. a(0) = 0 /\ b(0) = 0
  BY FilledSteps
<1>2. ASSUME NEW n \in Ports
      PROVE  /\ n \in Nat /\ a(n) \in Int /\ b(n) \in Int /\ lp(n) \in Int /\ lq(n) \in Int
             /\ a(n + 1) = a(n) + lp(n)
             /\ b(n + 1) = b(n) + lq(n)
  <2>1. /\ n \in Nat /\ n + 1 \in Nat /\ n + 1 > 0 /\ (n + 1) - 1 = n
        /\ 0..n \subseteq Ports /\ 0..((n + 1) - 1) \subseteq Ports
        /\ 0..(n - 1) \subseteq Ports
    BY <1>0 DEF Ports
  <2>2. /\ \A j \in 0..(n - 1) : Len(pt[j].msgs) \in Int /\ Len(qt[j].msgs) \in Int
        /\ \A j \in 0..((n + 1) - 1) : Len(pt[j].msgs) \in Int /\ Len(qt[j].msgs) \in Int
    BY <2>1
  <2>3. a(n) \in Int /\ b(n) \in Int
    BY <2>1, <2>2, FilledSteps
  <2>4. a(n + 1) = a((n + 1) - 1) + lp((n + 1) - 1)
    BY <2>1, <2>2, FilledSteps
  <2>5. b(n + 1) = b((n + 1) - 1) + lq((n + 1) - 1)
    BY <2>1, <2>2, FilledSteps
  <2> QED
    BY <2>1, <2>3, <2>4, <2>5
<1>3. \A j \in Ports : j # k => lq(j) = lp(j)
  OBVIOUS
<1> HIDE DEF a, b, lp, lq
<1>4. 0 \in A
  BY <1>0, <1>1
<1>5. ASSUME NEW n \in 0..(NPORTS - 1), n \in A PROVE n + 1 \in A
  <2>1. n \in Ports
    BY <1>0
  <2>2. CASE n = k
    BY <1>2, <1>5, <2>1, <2>2
  <2>3. CASE n # k
    <3>1. b(n + 1) - a(n + 1) = b(n) - a(n)
      BY <1>2, <1>3, <2>1, <2>3
    <3>2. n + 1 <= k <=> n <= k
      BY <1>0, <2>3
    <3> QED
      BY <1>5, <3>1, <3>2
  <2> QED
    BY <2>2, <2>3
<1>6. NPORTS \in A
  <2> HIDE DEF A
  <2>1. 0 \in Nat /\ NPORTS \in 0..NPORTS
    BY <1>0
  <2>2. \A n \in 0..NPORTS : n \in A
    BY <1>0, <1>4, <1>5, StepsReach
  <2> QED
    BY <2>1, <2>2
<1> QED
  BY <1>0, <1>6 DEF a, b, lp, lq

\* The messages are at least those of one port; and if each port holds at most
\* m, and one of them less, fewer than m for each port.
LEMMA FilledBound ==
  ASSUME NEW pt, \A j \in Ports : Len(pt[j].msgs) \in Nat, NEW k \in Ports
  PROVE  /\ Filled(pt, NPORTS) \in Nat
         /\ Len(pt[k].msgs) <= Filled(pt, NPORTS)
         /\ \A m \in Nat :
              (\A j \in Ports : Len(pt[j].msgs) <= m) /\ Len(pt[k].msgs) < m
                => Filled(pt, NPORTS) < NPORTS * m
<1> DEFINE a(n) == Filled(pt, n)
           lp(j) == Len(pt[j].msgs)
           A == {n \in Nat : a(n) \in Nat /\ (~(n <= k) => lp(k) <= a(n))}
<1>0. /\ NPORTS \in Nat /\ k \in Nat /\ 0 <= k /\ ~(NPORTS <= k)
      /\ \A n \in 0..(NPORTS - 1) : n \in Ports
  BY PortsAssumption DEF Ports
<1>1. a(0) = 0
  BY FilledSteps
<1>2. ASSUME NEW n \in Ports
      PROVE  n \in Nat /\ a(n) \in Int /\ lp(n) \in Nat /\ a(n + 1) = a(n) + lp(n)
  <2>1. /\ n \in Nat /\ n + 1 \in Nat /\ n + 1 > 0 /\ (n + 1) - 1 = n
        /\ 0..n \subseteq Ports /\ 0..((n + 1) - 1) \subseteq Ports
        /\ 0..(n - 1) \subseteq Ports
    BY <1>0 DEF Ports
  <2>2. /\ \A j \in 0..(n - 1) : Len(pt[j].msgs) \in Int
        /\ \A j \in 0..((n + 1) - 1) : Len(pt[j].msgs) \in Int
    BY <2>1
  <2>3. a(n) \in Int
    BY <2>1, <2>2, FilledSteps
  <2>4. a(n + 1) = a((n + 1) - 1) + lp((n + 1) - 1)
    BY <2>1, <2>2, FilledSteps
  <2> QED
    BY <2>1, <2>3, <2>4
<1> HIDE DEF a, lp
<1>3. 0 \in A
  BY <1>0, <1>1
<1>4. ASSUME NEW n \in 0..(NPORTS - 1), n \in A PROVE n + 1 \in A
  <2>1. n \in Ports /\ k \in Ports
    BY <1>0
  <2>2. n + 1 \in Nat /\ a(n + 1) \in Nat /\ a(n) <= a(n + 1) /\ lp(n) <= a(n + 1)
    BY <1>2, <1>4, <2>1
  <2>3. CASE n = k
    BY <2>2, <2>3
  <2>4. CASE n # k
    <3>1. n + 1 <= k <=> n <= k
      BY <1>0, <2>4
    <3> QED
      BY <1>2, <1>4, <2>1, <2>2, <3>1
  <2> QED
    BY <2>3, <2>4
<1>5. NPORTS \in A
  <2> HIDE DEF A
  <2>1. 0 \in Nat /\ NPORTS \in 0..NPORTS
    BY <1>0
  <2>2. \A n \in 0..NPORTS : n \in A
    BY <1>0, <1>3, <1>4, StepsReach
  <2> QED
    BY <2>1, <2>2
<1>6. ASSUME NEW m \in Nat, \A j \in Ports : lp(j) <= m, lp(k) < m
      PROVE  a(NPORTS) < NPORTS * m
  <2> DEFINE B == {n \in Nat : a(n) <= n * m /\ (~(n <= k) => a(n) < n * m)}
  <2>1. 0 \in B
    BY <1>0, <1>1
  <2>2. ASSUME NEW n \in 0..(NPORTS - 1), n \in B PROVE n + 1 \in B
    <3> DEFINE u == n * m
               v == (n + 1) * m
    <3>1. n \in Ports /\ n \in Nat
      BY <1>0
    <3>2. u \in Nat /\ v \in Nat /\ v = u + m
      BY <3>1
    <3>3. a(n) <= u /\ (~(n <= k) => a(n) < u)
      BY <2>2
    <3> HIDE DEF u, v
    <3>4. a(n + 1) <= v
      BY <1>2, <1>6, <3>1, <3>2, <3>3
    <3>5. ASSUME ~(n + 1 <= k) PROVE a(n + 1) < v
      <4>1. CASE n = k
        BY <1>2, <1>6, <3>1, <3>2, <3>3, <4>1
      <4>2. CASE n # k
        <5>1. ~(n <= k)
          BY <1>0, <3>1, <3>5, <4>2
        <5> QED
          BY <1>2, <1>6, <3>1, <3>2, <3>3, <5>1
      <4> QED
        BY <4>1, <4>2
    <3> QED
      BY <3>1, <3>4, <3>5 DEF v
  <2>3. NPORTS \in B
    <3> HIDE DEF B
    <3>1. 0 \in Nat /\ NPORTS \in 0..NPORTS
      BY <1>0
    <3>2. \A n \in 0..NPORTS : n \in B
      BY <1>0, <2>1, <2>2, StepsReach
    <3> QED
      BY <3>1, <3>2
  <2> QED
    BY <1>0, <2>3
<1> QED
  BY <1>0, <1>5, <1>6 DEF a, lp

----------------------------------------------------------------------------
\* The processes inside.

\* Sets of processes have a size.
LEMMA ProcsFinite ==
  ASSUME NEW S \in SUBSET Procs
  PROVE  IsFiniteSet(S) /\ Cardinality(S) \in Nat
BY PortsAssumption, FS_Subset, FS_CardinalityType

\* A process that is inside, and released, has room: what the semaphore counts
\* together with those inside it covers.
LEMMA RoomInside ==
  ASSUME NEW x \in SemType(Procs), SemSound(x), x.used, NEW S \in SUBSET Procs,
         NEW p \in S, ~Has(x.queue, p), \A q \in Procs : Has(x.queue, q) => q \in S,
         NEW n \in Int, x.count <= n - Cardinality(S)
  PROVE  n >= 1
<1>1. /\ IsFiniteSet(S \ {p}) /\ Cardinality(S \ {p}) = Cardinality(S) - 1
      /\ Cardinality(S) \in Nat /\ Cardinality(S \ {p}) \in Nat
  <2>1. S \ {p} \in SUBSET Procs
    OBVIOUS
  <2> QED
    BY <2>1, ProcsFinite, FS_RemoveElement
<1>2. Len(x.queue) <= Cardinality(S \ {p})
  <2>1. x.queue \in Seq(Procs) /\ Distinct(x.queue)
    BY DEF SemType, SemSound
  <2>2. \A q \in Procs : Has(x.queue, q) => q \in S \ {p}
    OBVIOUS
  <2> QED
    BY <1>1, <2>1, <2>2, ListInSet
<1>3. x.count \in Int /\ Len(x.queue) = IF x.count < 0 THEN -x.count ELSE 0
  BY DEF SemType, SemSound
<1> QED
  BY <1>1, <1>2, <1>3

----------------------------------------------------------------------------
\* The steps of ptsend and ptrecv.

\* What they leave alone: the ports but for their messages, who clears a port,
\* and the calls of the others; nobody else starts to wait.
CallStep(p) ==
    /\ dead' = dead /\ p \notin dead
    /\ \A k \in Ports : /\ porttab'[k].state = porttab[k].state
                        /\ porttab'[k].seq = porttab[k].seq
                        /\ porttab'[k].ssem = porttab[k].ssem
                        /\ porttab'[k].rsem = porttab[k].rsem
    /\ \A s \in Sems : semtab'[s].used = semtab[s].used
    /\ \A q \in Procs : q # p => call'[q] = call[q]
    /\ call[p].at \in {"user"} \cup Roles /\ call'[p].at \in {"user"} \cup Roles
    /\ \/ call'[p] = call[p]
       \/ call'[p] = User
       \/ /\ porttab[call'[p].port].state = "ALLOC"
          /\ porttab[call'[p].port].seq = call'[p].seq
          /\ Gate(call'[p].port, call'[p].at) # SYSERR
          /\ call'[p].at = "send" => call'[p].msg \in Msgs
    /\ \A s \in Sems, q \in Procs : q # p /\ Waits(q, s)' => Waits(q, s)
    /\ \A s \in Sems : Waits(p, s)' =>
          /\ porttab[call'[p].port].state = "ALLOC"
          /\ porttab[call'[p].port].seq = call'[p].seq
          /\ call'[p].at \in Roles
          /\ Gate(call'[p].port, call'[p].at) = s

\* Who clears which port, and what a port will still use, is as before.
LEMMA CallHolds ==
  ASSUME NEW p \in Procs, CallStep(p)
  PROVE  /\ \A c \in Procs, k \in Ports : Clears(c, k)' <=> Clears(c, k)
         /\ \A c \in Procs, k \in Ports : Clears(c, k) => call'[c] = call[c]
         /\ \A k \in Ports, r \in Roles : Holds(k, r)' <=> Holds(k, r)
         /\ \A k \in Ports, r \in Roles : Settled(k, r)' <=> Settled(k, r)
<1>1. ASSUME NEW c \in Procs, NEW k \in Ports
      PROVE  Clears(c, k)' <=> Clears(c, k)
  BY DEF CallStep, Clears, Roles
<1>2. ASSUME NEW c \in Procs, NEW k \in Ports, Clears(c, k)
      PROVE  call'[c] = call[c]
  BY <1>2 DEF CallStep, Clears, Roles
<1>3. ASSUME NEW k \in Ports, NEW r \in Roles
      PROVE  /\ Holds(k, r)' <=> Holds(k, r)
             /\ Settled(k, r)' <=> Settled(k, r)
  <2>1. porttab'[k].state = porttab[k].state
    BY DEF CallStep
  <2>2. \A c \in Procs : Clears(c, k)' <=> Clears(c, k)
    BY <1>1
  <2>3. \A c \in Procs : Clears(c, k) => call'[c] = call[c]
    BY <1>2
  <2> QED
    BY <2>1, <2>2, <2>3 DEF Holds, Settled
<1> QED
  BY <1>1, <1>2, <1>3

\* The parts of the invariant about who waits where survive such a step.
LEMMA CallKeeps ==
  ASSUME NEW p \in Procs, CallStep(p), TypeInv, TypeInv',
         WaitInv, HoldInv, ClearInv, CallInv
  PROVE  WaitInv' /\ HoldInv' /\ ClearInv' /\ CallInv'
<1>1. /\ \A k \in Ports : /\ porttab'[k].state = porttab[k].state
                          /\ porttab'[k].seq = porttab[k].seq
      /\ \A k \in Ports, r \in Roles : Gate(k, r)' = Gate(k, r)
      /\ dead' = dead /\ p \notin dead
      /\ \A q \in Procs : q # p => call'[q] = call[q]
      /\ \A s \in Sems : semtab'[s].used = semtab[s].used
      /\ \A s \in Sems, q \in Procs : q # p /\ Waits(q, s)' => Waits(q, s)
  BY DEF CallStep, Gate
<1>2. /\ \A q \in Procs : call[q].port \in Ports /\ call'[q].port \in Ports
      /\ \A k \in Ports, r \in Roles : Gate(k, r) \in Sems \cup {SYSERR}
  BY DEF TypeInv, Gate
<1>3. WaitInv'
  <2> SUFFICES ASSUME NEW s \in Sems, NEW q \in Procs, Waits(q, s)'
               PROVE  LET pt == porttab'[call'[q].port] IN
                      /\ q \notin dead'
                      /\ call'[q].at \in Roles
                      /\ Gate(call[q].port, call[q].at)' = s
                      /\ \/ pt.state = "ALLOC" /\ pt.seq = call'[q].seq
                         \/ /\ pt.state = "LIMBO" /\ pt.seq = call'[q].seq + 1
                            /\ call'[q].at = "recv"
    BY DEF WaitInv
  <2>0. Gate(call[q].port, call[q].at)' = Gate(call'[q].port, call'[q].at)
    BY <1>2 DEF CallStep, Gate
  <2>1. CASE q = p
    <3>1. /\ porttab[call'[p].port].state = "ALLOC"
          /\ porttab[call'[p].port].seq = call'[p].seq
          /\ call'[p].at \in Roles
          /\ Gate(call'[p].port, call'[p].at) = s
      BY <2>1 DEF CallStep
    <3> QED
      BY <1>1, <1>2, <2>0, <2>1, <3>1
  <2>2. CASE q # p
    <3>1. Waits(q, s) /\ call'[q] = call[q] /\ call[q].port \in Ports
      BY <1>1, <1>2, <2>2
    <3> QED
      BY <1>1, <2>0, <3>1 DEF WaitInv
  <2> QED
    BY <2>1, <2>2
<1>4. HoldInv'
  <2> SUFFICES ASSUME NEW k \in Ports, NEW r \in Roles, Holds(k, r)', Gate(k, r)' # SYSERR
               PROVE  /\ semtab'[Gate(k, r)'].used
                      /\ \A q \in Procs : Waits(q, Gate(k, r))' =>
                            call'[q].port = k /\ call'[q].at = r
                      /\ \A j \in Ports, t \in Roles :
                            Holds(j, t)' /\ Gate(j, t)' = Gate(k, r)' => j = k /\ t = r
    BY DEF HoldInv
  <2> DEFINE s == Gate(k, r)
  <2>1. Gate(k, r)' = s /\ s \in Sems /\ Holds(k, r)
    BY <1>1, <1>2, CallHolds
  <2>2. /\ semtab[s].used
        /\ \A q \in Procs : Waits(q, s) => call[q].port = k /\ call[q].at = r
        /\ \A j \in Ports, t \in Roles : Holds(j, t) /\ Gate(j, t) = s => j = k /\ t = r
    BY <2>1 DEF HoldInv
  <2>3. \A j \in Ports, t \in Roles :
           Holds(j, t)' /\ Gate(j, t)' = s => j = k /\ t = r
    BY <1>1, <2>2, CallHolds
  <2>4. ASSUME NEW q \in Procs, Has(semtab'[s].queue, q)
        PROVE  call'[q].port = k /\ call'[q].at = r
    <3>1. CASE q = p
      <4>1. /\ porttab[call'[p].port].state = "ALLOC"
            /\ call'[p].at \in Roles /\ call'[p].port \in Ports
            /\ Gate(call'[p].port, call'[p].at) = s
        BY <1>2, <2>1, <2>4, <3>1 DEF CallStep, Waits
      <4>2. Holds(call'[p].port, call'[p].at)
        BY <4>1 DEF Holds
      <4> QED
        BY <2>2, <3>1, <4>1, <4>2
    <3>2. CASE q # p
      BY <1>1, <2>1, <2>2, <2>4, <3>2 DEF Waits
    <3> QED
      BY <3>1, <3>2
  <2> QED
    BY <1>1, <2>1, <2>2, <2>3, <2>4 DEF Waits
<1>5. ClearInv'
  <2> SUFFICES ASSUME NEW c \in Procs, NEW k \in Ports, Clears(c, k)'
               PROVE  /\ porttab'[k].state = "LIMBO"
                      /\ porttab'[k].seq = call'[c].seq + 1
                      /\ \A d \in Procs : Clears(d, k)' => d = c
                      /\ call'[c].at = "cleared" =>
                            \A s \in Sems, q \in Procs : Waits(q, s)' => call'[q].port # k
    BY DEF ClearInv
  <2>1. Clears(c, k) /\ call'[c] = call[c] /\ \A d \in Procs : Clears(d, k)' => Clears(d, k)
    BY CallHolds
  <2>2. /\ porttab[k].state = "LIMBO" /\ porttab[k].seq = call[c].seq + 1
        /\ \A d \in Procs : Clears(d, k) => d = c
        /\ call[c].at = "cleared" =>
              \A s \in Sems, q \in Procs : Waits(q, s) => call[q].port # k
    BY <2>1 DEF ClearInv
  <2>3. ASSUME call[c].at = "cleared", NEW s \in Sems, NEW q \in Procs, Waits(q, s)'
        PROVE  call'[q].port # k
    <3>1. CASE q = p
      BY <2>2, <2>3, <3>1 DEF CallStep
    <3>2. CASE q # p
      BY <1>1, <2>2, <2>3, <3>2
    <3> QED
      BY <3>1, <3>2
  <2> QED
    BY <1>1, <2>1, <2>2, <2>3
<1>6. CallInv'
  <2> SUFFICES ASSUME NEW q \in Procs, call'[q].at \in Roles
               PROVE  LET pt == porttab'[call'[q].port] IN
                      /\ call'[q].seq <= pt.seq
                      /\ pt.state # "ALLOC" => call'[q].seq < pt.seq
                      /\ call'[q].seq = pt.seq => Gate(call[q].port, call[q].at)' # SYSERR
                      /\ call'[q].at = "send" => call'[q].msg \in Msgs
    BY DEF CallInv
  <2>0. Gate(call[q].port, call[q].at)' = Gate(call'[q].port, call'[q].at)
    BY <1>2 DEF CallStep, Gate
  <2>1. CASE call'[q] = call[q]
    BY <1>1, <1>2, <2>0, <2>1 DEF CallInv
  <2>2. CASE call'[q] # call[q]
    <3>1. q = p /\ call'[p] # User
      BY <1>1, <2>2 DEF User, Roles
    <3>2. /\ porttab[call'[p].port].state = "ALLOC"
          /\ porttab[call'[p].port].seq = call'[p].seq
          /\ Gate(call'[p].port, call'[p].at) # SYSERR
          /\ call'[p].at = "send" => call'[p].msg \in Msgs
      BY <2>2, <3>1 DEF CallStep
    <3>3. call'[p].seq \in Int
      BY PortsAssumption DEF TypeInv
    <3> QED
      BY <1>1, <1>2, <2>0, <3>1, <3>2, <3>3
  <2> QED
    BY <2>1, <2>2
<1> QED
  BY <1>3, <1>4, <1>5, <1>6

\* The types of what a port holds.
LEMMA PortTypes ==
  ASSUME TypeInv, NEW k \in Ports
  PROVE  /\ porttab[k].maxcnt \in Nat /\ porttab[k].seq \in Nat
         /\ porttab[k].msgs \in Seq(Msgs) /\ Len(porttab[k].msgs) \in Nat
         /\ \A r \in Roles : /\ Room(k, r) \in Int
                             /\ Gate(k, r) \in Sems \cup {SYSERR}
<1>1. /\ porttab[k].maxcnt \in Counts \cup {0}
      /\ porttab[k].seq \in 0..MaxSeq
      /\ porttab[k].msgs \in Seq(Msgs)
      /\ porttab[k].ssem \in Sems \cup {SYSERR}
      /\ porttab[k].rsem \in Sems \cup {SYSERR}
  BY DEF TypeInv
<1>2. porttab[k].maxcnt \in Nat /\ porttab[k].seq \in Nat
  <2>1. Counts \cup {0} \subseteq Nat /\ 0..MaxSeq \subseteq Nat
    BY PortsAssumption
  <2> QED
    BY <1>1, <2>1
<1>3. Len(porttab[k].msgs) \in Nat
  BY <1>1, LenProperties
<1>4. \A r \in Roles : Room(k, r) \in Int
  BY <1>2, <1>3 DEF Room
<1> QED
  BY <1>1, <1>2, <1>3, <1>4 DEF Gate

\* A process waits on a semaphore when it is blocked.
LEMMA BlockedWaits ==
  ASSUME TypeInv, NEW p \in Procs
  PROVE  /\ Blocked(p) <=> \E s \in Sems : Waits(p, s)
         /\ \A s \in Sems : semtab[s] \in SemType(Procs) /\ (Queued(semtab[s], p) <=> Waits(p, s))
<1>1. \A s \in Sems : semtab[s] \in SemType(Procs)
  BY DEF TypeInv, SemType
<1>2. \A s \in Sems : Queued(semtab[s], p) <=> Waits(p, s)
  BY <1>1, QueuedHas, SameSem DEF Waits
<1> QED
  BY <1>1, <1>2 DEF Blocked

\* signal on the semaphore of an open port.
LEMMA SignalledTab ==
  ASSUME NEW tab \in [Sems -> SemType(Procs)], \A s \in Sems : SemSound(tab[s]),
         NEW h \in Sems \cup {SYSERR},
         h # SYSERR => semtab[h].used /\ tab[h].used
  PROVE  LET t == Signalled(tab, h) IN
         /\ t \in [Sems -> SemType(Procs)]
         /\ \A s \in Sems :
              /\ SemSound(t[s]) /\ t[s].used = tab[s].used
              /\ t[s].count = IF s = h THEN tab[s].count + 1 ELSE tab[s].count
              /\ \A q : Has(t[s].queue, q) => Has(tab[s].queue, q)
<1>0. SYSERR \notin Sems
  BY DEF Sems, SYSERR
<1>1. CASE h = SYSERR
  <2>1. Signalled(tab, h) = tab
    BY <1>1 DEF Signalled, Bad
  <2> QED
    BY <1>0, <1>1, <2>1
<1>2. CASE h # SYSERR
  <2>1. Signalled(tab, h) = [tab EXCEPT ![h] = signal(tab[h])]
    BY <1>2 DEF Signalled, Bad
  <2>2. LET y == signal(tab[h]) IN
        /\ y \in SemType(Procs) /\ SemSound(y) /\ y.used = tab[h].used
        /\ y.count = tab[h].count + 1
        /\ \A q : Has(y.queue, q) => Has(tab[h].queue, q)
    BY <1>2, SignalSem, SameSem
  <2> QED
    BY <1>2, <2>1, <2>2
<1> QED
  BY <1>1, <1>2

\* Process p has got through the semaphore of role r of the open port k, at once
\* or after it was released, and leaves the semaphores as in tab.
Taken(tab, p, k, r) ==
    /\ porttab[k].state = "ALLOC" /\ p \notin dead
    /\ \/ /\ call[p].at = "user" /\ ~Bad(Gate(k, r))
          /\ tab = [semtab EXCEPT ![Gate(k, r)] = wait(@, p)]
          /\ ~Queued(tab[Gate(k, r)], p)
          /\ call' = call
       \/ /\ call[p].at = r /\ ~Blocked(p)
          /\ call[p].port = k /\ call[p].seq = porttab[k].seq
          /\ tab = semtab
          /\ call' = [call EXCEPT ![p] = User]

\* The processes inside, after the calls have changed.
InsideNow(k, r) ==
    {q \in Procs \ dead : /\ call'[q].at = r /\ call'[q].port = k
                          /\ call'[q].seq = porttab[k].seq}

\* wait on the semaphore of an open port: p is in its queue if the count was
\* used up.
LEMMA WaitedTab ==
  ASSUME TypeInv, SemsInv, WaitInv, HoldInv, NEW p \in Procs, NEW k \in Ports,
         NEW r \in Roles, porttab[k].state = "ALLOC", call[p].at = "user",
         ~Bad(Gate(k, r))
  PROVE  LET g == Gate(k, r)
             tab == [semtab EXCEPT ![g] = wait(@, p)] IN
         /\ g \in Sems /\ semtab[g].used
         /\ tab \in [Sems -> SemType(Procs)]
         /\ \A s \in Sems : SemSound(tab[s]) /\ tab[s].used = semtab[s].used
         /\ \A s \in Sems : s # g => tab[s] = semtab[s]
         /\ tab[g].count = semtab[g].count - 1
         /\ \A q : Has(tab[g].queue, q) <=>
                     Has(semtab[g].queue, q) \/ (q = p /\ semtab[g].count <= 0)
         /\ \A s \in Sems : ~Waits(p, s)
         /\ Queued(tab[g], p) <=> semtab[g].count <= 0
<1> DEFINE g == Gate(k, r)
           tab == [semtab EXCEPT ![g] = wait(@, p)]
<1>1. g \in Sems /\ semtab[g].used
  BY DEF Bad, TypeInv, Gate
<1>2. /\ semtab \in [Sems -> SemType(Procs)] /\ \A s \in Sems : SemSound(semtab[s])
  BY DEF TypeInv, SemType, SemsInv
<1>3. \A s \in Sems : ~Waits(p, s)
  BY DEF WaitInv, Roles
<1>4. ~Has(semtab[g].queue, p)
  BY <1>1, <1>3 DEF Waits
<1> HIDE DEF g
<1>5. LET y == wait(semtab[g], p) IN
      /\ y \in SemType(Procs) /\ SemSound(y) /\ y.used = semtab[g].used
      /\ y.count = semtab[g].count - 1
      /\ \A q : Has(y.queue, q) <=>
                  Has(semtab[g].queue, q) \/ (q = p /\ semtab[g].count <= 0)
  <2>1. LET y == Sem!wait(semtab[g], p) IN
        /\ y \in SemType(Procs) /\ SemSound(y) /\ y.used = semtab[g].used
        /\ y.count = semtab[g].count - 1
        /\ \A q : Has(y.queue, q) <=>
                    Has(semtab[g].queue, q) \/ (q = p /\ semtab[g].count <= 0)
    BY <1>1, <1>2, <1>4, WaitSem
  <2>2. wait(semtab[g], p) = Sem!wait(semtab[g], p)
    BY SameSem
  <2> QED
    BY <2>1, <2>2, Zenon
<1>6. tab[g] = wait(semtab[g], p) /\ \A s \in Sems : s # g => tab[s] = semtab[s]
  BY <1>1, <1>2
<1>7. tab \in [Sems -> SemType(Procs)]
  BY <1>1, <1>2, <1>5
<1>8. Queued(tab[g], p) <=> semtab[g].count <= 0
  BY <1>1, <1>4, <1>5, <1>6, <1>7, QueuedHas, SameSem
<1> HIDE DEF tab
<1>9. \A s \in Sems : SemSound(tab[s]) /\ tab[s].used = semtab[s].used
  BY <1>1, <1>2, <1>5, <1>6
<1> QED
  BY <1>1, <1>3, <1>5, <1>6, <1>7, <1>8, <1>9 DEF g, tab

\* A process that has got through finds room.
LEMMA TakenFacts ==
  ASSUME TypeInv, SemsInv, WaitInv, HoldInv, CallInv, CountInv,
         NEW p \in Procs, NEW k \in Ports, NEW r \in Roles, NEW tab, Taken(tab, p, k, r)
  PROVE  LET g == Gate(k, r) IN
         /\ g \in Sems /\ semtab[g].used
         /\ tab \in [Sems -> SemType(Procs)]
         /\ \A s \in Sems : SemSound(tab[s]) /\ tab[s].used = semtab[s].used
         /\ \A s \in Sems, q \in Procs : Has(tab[s].queue, q) => Waits(q, s) /\ q # p
         /\ \A s \in Sems : s # g => tab[s] = semtab[s]
         /\ tab[g].count + Cardinality(InsideNow(k, r))
              = semtab[g].count + Cardinality(Inside(k, r)) - 1
         /\ \A j \in Ports, t \in Roles :
              j # k \/ t # r => InsideNow(j, t) = Inside(j, t)
         /\ Room(k, r) \in Int /\ Room(k, r) >= 1
<1> DEFINE g == Gate(k, r)
           S == Inside(k, r)
<1>1. /\ semtab \in [Sems -> SemType(Procs)] /\ \A s \in Sems : SemSound(semtab[s])
      /\ call \in [Procs -> [at : {"user", "send", "recv", "clear", "cleared"},
                             port : Ports, seq : 0..MaxSeq, msg : Msgs \cup {0},
                             new : {"FREE", "ALLOC"}]]
  BY DEF TypeInv, SemType, SemsInv
<1>2. S \in SUBSET Procs /\ IsFiniteSet(S) /\ Cardinality(S) \in Nat
  BY ProcsFinite DEF Inside
<1>3. Room(k, r) \in Int
  BY PortTypes
<1>4. /\ Holds(k, r) /\ Settled(k, r)
  BY DEF Taken, Holds, Settled
<1>5. g # SYSERR => semtab[g].count <= Room(k, r) - Cardinality(S)
  <2>1. g # SYSERR => semtab[g].count \in Int
    BY <1>1 DEF TypeInv, Gate, SemType
  <2> QED
    BY <1>2, <1>3, <1>4, <2>1 DEF CountInv
<1>6. CASE call[p].at = "user"
  <2>0. r # "user"
    BY DEF Roles
  <2>1. /\ ~Bad(g) /\ tab = [semtab EXCEPT ![g] = wait(@, p)]
        /\ ~Queued(tab[g], p)
        /\ call' = call /\ porttab[k].state = "ALLOC"
    BY <1>6, <2>0 DEF Taken
  <2>2. /\ g \in Sems /\ semtab[g].used
        /\ tab \in [Sems -> SemType(Procs)]
        /\ \A s \in Sems : SemSound(tab[s]) /\ tab[s].used = semtab[s].used
        /\ \A s \in Sems : s # g => tab[s] = semtab[s]
        /\ tab[g].count = semtab[g].count - 1
        /\ \A q : Has(tab[g].queue, q) <=>
                     Has(semtab[g].queue, q) \/ (q = p /\ semtab[g].count <= 0)
        /\ \A s \in Sems : ~Waits(p, s)
        /\ Queued(tab[g], p) <=> semtab[g].count <= 0
    BY <1>6, <2>1, WaitedTab
  <2>3. semtab[g].count \in Int /\ semtab[g].count > 0
    BY <1>1, <2>1, <2>2 DEF SemType
  <2>4. Room(k, r) >= 1
    <3>1. g # SYSERR
      BY <2>1 DEF Bad
    <3> HIDE DEF g, S
    <3> QED
      BY <1>2, <1>3, <1>5, <2>3, <3>1
  <2>5. \A j \in Ports, t \in Roles : InsideNow(j, t) = Inside(j, t)
    BY <2>1 DEF InsideNow, Inside
  <2>6. \A s \in Sems, q \in Procs : Has(tab[s].queue, q) => Waits(q, s) /\ q # p
    BY <2>2, <2>3 DEF Waits
  <2>7. tab[g].count + Cardinality(InsideNow(k, r)) = semtab[g].count + Cardinality(S) - 1
    BY <1>2, <2>2, <2>3, <2>5
  <2> QED
    BY <1>3, <2>2, <2>4, <2>5, <2>6, <2>7
<1>7. CASE call[p].at # "user"
  <2>1. /\ call[p].at = r /\ ~Blocked(p) /\ p \notin dead
        /\ call[p].port = k /\ call[p].seq = porttab[k].seq
        /\ tab = semtab /\ call' = [call EXCEPT ![p] = User]
        /\ porttab[k].state = "ALLOC"
    BY <1>7 DEF Taken
  <2>2. g # SYSERR
    BY <2>1 DEF CallInv
  <2>3. g \in Sems /\ semtab[g].used
    BY <1>4, <2>2 DEF TypeInv, Gate, HoldInv
  <2>4. \A s \in Sems : ~Waits(p, s)
    BY <2>1, BlockedWaits
  <2>5. p \in S
    BY <2>1 DEF Inside
  <2>6. \A q \in Procs : Has(semtab[g].queue, q) => q \in S
    <3> SUFFICES ASSUME NEW q \in Procs, Waits(q, g) PROVE q \in S
      BY DEF Waits
    <3>1. call[q].port = k /\ call[q].at = r
      BY <1>4, <2>2 DEF HoldInv
    <3>2. q \notin dead /\ (\/ porttab[k].state = "ALLOC" /\ porttab[k].seq = call[q].seq
                            \/ porttab[k].state = "LIMBO")
      BY <2>3, <3>1 DEF WaitInv
    <3> QED
      BY <2>1, <3>1, <3>2 DEF Inside
  <2>7. Room(k, r) >= 1
    <3>1. semtab[g] \in SemType(Procs) /\ SemSound(semtab[g]) /\ ~Has(semtab[g].queue, p)
      BY <1>1, <2>3, <2>4 DEF Waits
    <3> HIDE DEF g, S
    <3> QED
      BY <1>2, <1>3, <1>5, <2>2, <2>3, <2>5, <2>6, <3>1, RoomInside
  <2>8. InsideNow(k, r) = S \ {p}
    <3>1. \A q \in Procs : q # p => call'[q] = call[q]
      BY <2>1
    <3>2. call'[p].at # r
      BY <1>1, <2>1 DEF User, Roles
    <3> QED
      BY <3>1, <3>2 DEF InsideNow, Inside
  <2>9. Cardinality(S \ {p}) = Cardinality(S) - 1
    BY <1>2, <2>5, FS_RemoveElement
  <2>10. ASSUME NEW j \in Ports, NEW t \in Roles, j # k \/ t # r
         PROVE  InsideNow(j, t) = Inside(j, t)
    <3>1. \A q \in Procs : q # p => call'[q] = call[q]
      BY <2>1
    <3>2. call'[p].at # t
      BY <1>1, <2>1 DEF User, Roles
    <3>3. ~(call[p].at = t /\ call[p].port = j)
      BY <2>1, <2>10
    <3> QED
      BY <3>1, <3>2, <3>3 DEF InsideNow, Inside
  <2>11. \A s \in Sems, q \in Procs : Has(tab[s].queue, q) => Waits(q, s) /\ q # p
    BY <2>1, <2>4 DEF Waits
  <2>12. tab[g].count + Cardinality(InsideNow(k, r)) = semtab[g].count + Cardinality(S) - 1
    <3>1. semtab[g].count \in Int
      BY <1>1, <2>3 DEF SemType
    <3> QED
      BY <1>2, <2>1, <2>8, <2>9, <3>1
  <2> QED
    BY <1>1, <1>3, <2>1, <2>3, <2>7, <2>10, <2>11, <2>12
<1> QED
  BY <1>6, <1>7

PortType == [state : {"FREE", "LIMBO", "ALLOC"},
             ssem : Sems \cup {SYSERR}, rsem : Sems \cup {SYSERR},
             maxcnt : Counts \cup {0}, seq : 0..MaxSeq, msgs : Seq(Msgs)]
CallType == [at : {"user", "send", "recv", "clear", "cleared"},
             port : Ports, seq : 0..MaxSeq, msg : Msgs \cup {0},
             new : {"FREE", "ALLOC"}]

\* The type invariant in terms of these.
LEMMA Typed ==
  TypeInv <=> /\ porttab \in [Ports -> PortType] /\ ptfree \in Nat
              /\ ptnextid \in Ports /\ semtab \in [Sems -> SemType(Procs)]
              /\ nextsem \in Sems /\ call \in [Procs -> CallType]
              /\ dead \in SUBSET Procs /\ lost \in BOOLEAN
BY DEF TypeInv, PortType, SemType, CallType

\* The call of a process that is outside.
LEMMA UserTyped == User \in CallType
<1>1. 0 \in Ports /\ 0 \in 0..MaxSeq
  BY PortsAssumption DEF Ports
<1> QED
  BY <1>1 DEF User, CallType

\* Other messages in a port.
LEMMA PortMsgs ==
  ASSUME TypeInv, NEW k \in Ports, NEW c \in Seq(Msgs),
         porttab' = [porttab EXCEPT ![k].msgs = c]
  PROVE  /\ porttab' \in [Ports -> PortType]
         /\ \A j \in Ports : /\ porttab'[j].state = porttab[j].state
                             /\ porttab'[j].seq = porttab[j].seq
                             /\ porttab'[j].ssem = porttab[j].ssem
                             /\ porttab'[j].rsem = porttab[j].rsem
                             /\ porttab'[j].maxcnt = porttab[j].maxcnt
                             /\ j # k => porttab'[j] = porttab[j]
         /\ porttab'[k].msgs = c
<1>1. porttab \in [Ports -> PortType]
  BY Typed
<1>2. porttab' = [porttab EXCEPT ![k] = [porttab[k] EXCEPT !.msgs = c]]
  BY <1>1
<1>3. LET y == [porttab[k] EXCEPT !.msgs = c] IN
      /\ y \in PortType /\ y.msgs = c
      /\ y.state = porttab[k].state /\ y.seq = porttab[k].seq
      /\ y.ssem = porttab[k].ssem /\ y.rsem = porttab[k].rsem
      /\ y.maxcnt = porttab[k].maxcnt
  <2>1. porttab[k] \in PortType
    BY <1>1
  <2> QED
    BY <2>1 DEF PortType
<1> QED
  BY <1>1, <1>2, <1>3

\* Nodes move between the free list and one port.
LEMMA NodesMove ==
  ASSUME TypeInv, NodeInv, porttab' \in [Ports -> PortType], NEW k \in Ports,
         \A j \in Ports : j # k => porttab'[j].msgs = porttab[j].msgs,
         ptfree' \in Nat,
         ptfree' - ptfree = Len(porttab[k].msgs) - Len(porttab'[k].msgs)
  PROVE  NodeInv'
<1>1. ASSUME NEW j \in Ports
      PROVE  Len(porttab[j].msgs) \in Nat /\ Len(porttab'[j].msgs) \in Nat
  <2>1. porttab'[j].msgs \in Seq(Msgs)
    BY DEF PortType
  <2> QED
    BY <2>1, PortTypes, LenProperties
<1>2. /\ \A j \in Ports : Len(porttab[j].msgs) \in Int /\ Len(porttab'[j].msgs) \in Int
      /\ \A j \in Ports : j # k => Len(porttab'[j].msgs) = Len(porttab[j].msgs)
  BY <1>1
<1> DEFINE a == Filled(porttab, NPORTS)
           b == Filled(porttab', NPORTS)
           old == Len(porttab[k].msgs)
           new == Len(porttab'[k].msgs)
           u == ptfree
           v == ptfree'
<1>3. b - a = new - old
  BY <1>2, FilledChange
<1>4. a \in Nat /\ b \in Nat /\ old \in Nat /\ new \in Nat
  BY <1>1, FilledBound
<1>5. u + a = PT_MSGS /\ v - u = old - new
  BY DEF NodeInv
<1>6. u \in Nat /\ v \in Nat
  BY Typed
<1> HIDE DEF a, b, old, new, u, v
<1>7. v + b = PT_MSGS
  <2>1. v = u + old - new /\ b = a + new - old
    BY <1>3, <1>4, <1>5, <1>6
  <2> QED
    BY <1>4, <1>5, <1>6, <2>1
<1> QED
  BY <1>7 DEF NodeInv, b, v

Other(r) == IF r = "send" THEN "recv" ELSE "send"

\* A send or a receive that got through: a message comes or goes, and the other
\* side is signalled.
PassStep(p, k, r, tab) ==
    /\ Taken(tab, p, k, r)
    /\ dead' = dead /\ lost' = lost
    /\ semtab' = Signalled(tab, Gate(k, Other(r)))
    /\ \E c \in Seq(Msgs) :
          /\ porttab' = [porttab EXCEPT ![k].msgs = c]
          /\ Len(c) = Len(porttab[k].msgs) + (IF r = "send" THEN 1 ELSE -1)

\* The semaphores after it.
LEMMA PassSems ==
  ASSUME TypeInv, SemsInv, WaitInv, HoldInv, CallInv, CountInv,
         NEW p \in Procs, NEW k \in Ports, NEW r \in Roles, NEW tab,
         Taken(tab, p, k, r), semtab' = Signalled(tab, Gate(k, Other(r)))
  PROVE  LET g == Gate(k, r)
             h == Gate(k, Other(r)) IN
         /\ g \in Sems /\ h \in Sems \cup {SYSERR} /\ g # h
         /\ semtab' \in [Sems -> SemType(Procs)]
         /\ \A s \in Sems :
              /\ SemSound(semtab'[s]) /\ semtab'[s].used = semtab[s].used
              /\ s # g /\ s # h => semtab'[s].count = semtab[s].count
         /\ h # SYSERR => semtab'[h].count = semtab[h].count + 1
         /\ semtab'[g].count + Cardinality(InsideNow(k, r))
              = semtab[g].count + Cardinality(Inside(k, r)) - 1
         /\ \A s \in Sems, q \in Procs : Has(semtab'[s].queue, q) => Waits(q, s) /\ q # p
<1> DEFINE g == Gate(k, r)
           h == Gate(k, Other(r))
<1>1. /\ g \in Sems /\ semtab[g].used
      /\ tab \in [Sems -> SemType(Procs)]
      /\ \A s \in Sems : SemSound(tab[s]) /\ tab[s].used = semtab[s].used
      /\ \A s \in Sems, q \in Procs : Has(tab[s].queue, q) => Waits(q, s) /\ q # p
      /\ \A s \in Sems : s # g => tab[s] = semtab[s]
      /\ tab[g].count + Cardinality(InsideNow(k, r))
              = semtab[g].count + Cardinality(Inside(k, r)) - 1
  BY TakenFacts
<1>2. Other(r) \in Roles /\ Other(r) # r
  BY DEF Other, Roles
<1>3. h \in Sems \cup {SYSERR} /\ SYSERR \notin Sems
  BY <1>2, PortTypes DEF Sems, SYSERR
<1>4. Holds(k, r) /\ Holds(k, Other(r))
  BY DEF Taken, Holds
<1>5. g # h
  BY <1>1, <1>2, <1>3, <1>4 DEF HoldInv
<1>6. h # SYSERR => semtab[h].used /\ h \in Sems
  BY <1>2, <1>3, <1>4 DEF HoldInv
<1>7. h # SYSERR => tab[h].used
  BY <1>1, <1>6
<1>s. semtab' = Signalled(tab, h)
  OBVIOUS
<1> HIDE DEF g, h
<1>8. /\ semtab' \in [Sems -> SemType(Procs)]
      /\ \A s \in Sems :
              /\ SemSound(semtab'[s]) /\ semtab'[s].used = tab[s].used
              /\ semtab'[s].count = IF s = h THEN tab[s].count + 1 ELSE tab[s].count
              /\ \A q : Has(semtab'[s].queue, q) => Has(tab[s].queue, q)
  <2>1. \A s \in Sems : SemSound(tab[s])
    BY <1>1
  <2>2. h # SYSERR => semtab[h].used /\ tab[h].used
    BY <1>6, <1>7
  <2>3. LET t == Signalled(tab, h) IN
        /\ t \in [Sems -> SemType(Procs)]
        /\ \A s \in Sems :
              /\ SemSound(t[s]) /\ t[s].used = tab[s].used
              /\ t[s].count = IF s = h THEN tab[s].count + 1 ELSE tab[s].count
              /\ \A q : Has(t[s].queue, q) => Has(tab[s].queue, q)
    BY <1>1, <1>3, <2>1, <2>2, SignalledTab
  <2> QED
    BY <1>s, <2>3
<1>9. /\ \A s \in Sems : s # g /\ s # h => semtab'[s].count = semtab[s].count
      /\ h # SYSERR => semtab'[h].count = semtab[h].count + 1
      /\ semtab'[g].count = tab[g].count
  BY <1>1, <1>3, <1>5, <1>8
<1>10. \A s \in Sems : SemSound(semtab'[s]) /\ semtab'[s].used = semtab[s].used
  BY <1>1, <1>8
<1> QED
  BY <1>1, <1>3, <1>5, <1>8, <1>9, <1>10 DEF g, h

\* Such a step is one of those that leave alone who waits where.
LEMMA PassIsCall ==
  ASSUME TypeInv, SemsInv, WaitInv, HoldInv, CallInv, CountInv,
         NEW p \in Procs, NEW k \in Ports, NEW r \in Roles, NEW tab,
         PassStep(p, k, r, tab)
  PROVE  CallStep(p)
<1>1. PICK c \in Seq(Msgs) : porttab' = [porttab EXCEPT ![k].msgs = c]
  BY DEF PassStep
<1>2. \A j \in Ports : /\ porttab'[j].state = porttab[j].state
                       /\ porttab'[j].seq = porttab[j].seq
                       /\ porttab'[j].ssem = porttab[j].ssem
                       /\ porttab'[j].rsem = porttab[j].rsem
  BY <1>1, PortMsgs
<1>3. /\ \A s \in Sems : semtab'[s].used = semtab[s].used
      /\ \A s \in Sems, q \in Procs : Waits(q, s)' => Waits(q, s) /\ q # p
  BY PassSems DEF PassStep, Waits
<1>4. call \in [Procs -> CallType] /\ User.at = "user"
  BY Typed DEF User
<1>5. /\ \A q \in Procs : q # p => call'[q] = call[q]
      /\ call'[p] = call[p] \/ call'[p] = User
      /\ call[p].at \in {"user"} \cup Roles /\ call'[p].at \in {"user"} \cup Roles
  BY <1>4 DEF PassStep, Taken
<1>6. dead' = dead /\ p \notin dead
  BY DEF PassStep, Taken
<1> QED
  BY <1>2, <1>3, <1>5, <1>6 DEF CallStep

\* The counts agree after it.
LEMMA PassCounts ==
  ASSUME TypeInv, SemsInv, WaitInv, HoldInv, CallInv, CountInv,
         NEW p \in Procs, NEW k \in Ports, NEW r \in Roles, NEW tab,
         PassStep(p, k, r, tab)
  PROVE  CountInv'
<1> DEFINE g == Gate(k, r)
           o == Other(r)
           h == Gate(k, o)
<1>1. PICK c \in Seq(Msgs) :
          /\ porttab' = [porttab EXCEPT ![k].msgs = c]
          /\ Len(c) = Len(porttab[k].msgs) + (IF r = "send" THEN 1 ELSE -1)
  BY DEF PassStep
<1>2. /\ \A j \in Ports : /\ porttab'[j].seq = porttab[j].seq
                          /\ porttab'[j].ssem = porttab[j].ssem
                          /\ porttab'[j].rsem = porttab[j].rsem
                          /\ porttab'[j].maxcnt = porttab[j].maxcnt
                          /\ j # k => porttab'[j] = porttab[j]
      /\ porttab'[k].msgs = c
  BY <1>1, PortMsgs
<1>3. dead' = dead /\ lost' = lost
  BY DEF PassStep
<1>4. \A j \in Ports, t \in Roles : Inside(j, t)' = InsideNow(j, t)
  BY <1>2, <1>3 DEF Inside, InsideNow
<1>5. /\ g \in Sems /\ h \in Sems \cup {SYSERR} /\ g # h
      /\ semtab' \in [Sems -> SemType(Procs)]
      /\ \A s \in Sems : s # g /\ s # h => semtab'[s].count = semtab[s].count
      /\ h # SYSERR => semtab'[h].count = semtab[h].count + 1
      /\ semtab'[g].count + Cardinality(InsideNow(k, r))
              = semtab[g].count + Cardinality(Inside(k, r)) - 1
  BY PassSems DEF PassStep
<1>6. \A j \in Ports, t \in Roles : j # k \/ t # r => InsideNow(j, t) = Inside(j, t)
  BY TakenFacts DEF PassStep
<1>7. o \in Roles /\ o # r /\ r \in Roles /\ \A t \in Roles : t = r \/ t = o
  BY DEF Other, Roles
<1>8. Holds(k, r) /\ Holds(k, o) /\ Settled(k, r) /\ Settled(k, o)
  BY DEF PassStep, Taken, Holds, Settled
<1>9. \A s \in Sems : semtab[s].count \in Int /\ semtab'[s].count \in Int
  BY <1>5, Typed DEF SemType
<1>10. \A j \in Ports, t \in Roles :
          /\ Cardinality(Inside(j, t)) \in Nat /\ Cardinality(InsideNow(j, t)) \in Nat
          /\ Room(j, t) \in Int /\ Gate(j, t) \in Sems \cup {SYSERR}
          /\ Gate(j, t)' = Gate(j, t)
  <2> SUFFICES ASSUME NEW j \in Ports, NEW t \in Roles
               PROVE  /\ Cardinality(Inside(j, t)) \in Nat
                      /\ Cardinality(InsideNow(j, t)) \in Nat
                      /\ Room(j, t) \in Int /\ Gate(j, t) \in Sems \cup {SYSERR}
                      /\ Gate(j, t)' = Gate(j, t)
    OBVIOUS
  <2>1. Inside(j, t) \in SUBSET Procs /\ InsideNow(j, t) \in SUBSET Procs
    BY DEF Inside, InsideNow
  <2>2. Gate(j, t)' = Gate(j, t)
    BY <1>2 DEF Gate
  <2> QED
    BY <2>1, <2>2, ProcsFinite, PortTypes
<1>11. /\ Room(k, r)' = Room(k, r) - 1
       /\ Room(k, o)' = Room(k, o) + 1
       /\ \A j \in Ports, t \in Roles : j # k => Room(j, t)' = Room(j, t)
  <2>1. porttab[k].maxcnt \in Nat /\ Len(porttab[k].msgs) \in Nat
    BY PortTypes
  <2> DEFINE cap == porttab[k].maxcnt
             len == Len(porttab[k].msgs)
             new == Len(c)
  <2>a. /\ Room(k, "send") = cap - len /\ Room(k, "send")' = cap - new
        /\ Room(k, "recv") = len /\ Room(k, "recv")' = new
    BY <1>2 DEF Room
  <2>b. (r = "send" => new = len + 1) /\ (r # "send" => new = len - 1)
    BY <1>1, <2>1
  <2> HIDE DEF cap, len, new
  <2>2. Room(k, r)' = Room(k, r) - 1
    <3>1. CASE r = "send"
      BY <2>1, <2>a, <2>b, <3>1 DEF cap, len
    <3>2. CASE r = "recv"
      BY <2>1, <2>a, <2>b, <3>2 DEF cap, len
    <3> QED
      BY <3>1, <3>2 DEF Roles
  <2>3. Room(k, o)' = Room(k, o) + 1
    <3>1. CASE r = "send"
      BY <2>1, <2>a, <2>b, <3>1 DEF cap, len, Other
    <3>2. CASE r = "recv"
      BY <2>1, <2>a, <2>b, <3>2 DEF cap, len, Other
    <3> QED
      BY <3>1, <3>2 DEF Roles
  <2>4. \A j \in Ports, t \in Roles : j # k => Room(j, t)' = Room(j, t)
    BY <1>2 DEF Room
  <2> QED
    BY <2>2, <2>3, <2>4
<1> HIDE DEF o, g, h
<1>12. SUFFICES ASSUME NEW j \in Ports, NEW t \in Roles,
                       Settled(j, t)', Gate(j, t)' # SYSERR
                PROVE  LET s == Gate(j, t)
                           n == Room(j, t)' - Cardinality(InsideNow(j, t))
                       IN  IF lost THEN semtab'[s].count <= n ELSE semtab'[s].count = n
  BY <1>3, <1>4, <1>10 DEF CountInv
<1> DEFINE s == Gate(j, t)
           m == Cardinality(Inside(j, t))
           n == Cardinality(InsideNow(j, t))
           u == Room(j, t)
           v == Room(j, t)'
           x == semtab[s].count
           y == semtab'[s].count
<1>13. s \in Sems /\ Settled(j, t) /\ Holds(j, t)
  <2>1. Settled(j, t)
    BY <1>12, PassIsCall, CallHolds
  <2> QED
    BY <1>10, <1>12, <2>1 DEF Settled, Holds
<1>14. /\ x \in Int /\ y \in Int /\ m \in Nat /\ n \in Nat /\ u \in Int
       /\ IF lost THEN x <= u - m ELSE x = u - m
  BY <1>9, <1>10, <1>12, <1>13 DEF CountInv
<1>15. y - x = (v - n) - (u - m) /\ v \in Int
  <2>1. CASE j = k /\ t = r
    <3>1. s = g /\ y + n = x + m - 1 /\ v = u - 1
      BY <1>5, <1>11, <2>1 DEF g
    <3> HIDE DEF s, m, n, u, v, x, y
    <3> QED
      BY <1>14, <3>1
  <2>2. CASE j = k /\ t = o
    <3>1. s = h /\ h # SYSERR
      BY <1>10, <1>12, <2>2 DEF h
    <3>2. y = x + 1 /\ v = u + 1
      BY <1>5, <1>11, <2>2, <3>1
    <3>3. m = n
      BY <1>6, <1>7, <2>2
    <3> HIDE DEF s, m, n, u, v, x, y
    <3> QED
      BY <1>14, <3>2, <3>3
  <2>3. CASE j # k
    <3>1. s # g /\ s # h
      <4>1. s # SYSERR
        BY <1>13 DEF Sems, SYSERR
      <4>2. \A i \in Ports, w \in Roles : Holds(i, w) /\ Gate(i, w) = s => i = j /\ w = t
        BY <1>13, <4>1 DEF HoldInv
      <4> QED
        BY <1>7, <1>8, <2>3, <4>2 DEF g, h
    <3>2. y = x /\ v = u /\ m = n
      BY <1>5, <1>6, <1>11, <1>13, <2>3, <3>1
    <3> HIDE DEF s, m, n, u, v, x, y
    <3> QED
      BY <1>14, <3>2
  <2> QED
    BY <1>7, <2>1, <2>2, <2>3
<1> HIDE DEF s, m, n, u, v, x, y
<1>16. IF lost THEN y <= v - n ELSE y = v - n
  BY <1>14, <1>15
<1> QED
  BY <1>16 DEF s, n, v, y

\* The whole invariant after it, when the node comes from the free list or goes
\* back to it.
LEMMA PassKeeps ==
  ASSUME PInv, NEW p \in Procs, NEW k \in Ports, NEW r \in Roles, NEW tab,
         PassStep(p, k, r, tab), ptnextid' = ptnextid, nextsem' = nextsem,
         ptfree' \in Nat, ptfree' = ptfree + (IF r = "send" THEN -1 ELSE 1)
  PROVE  PInv'
<1> USE DEF PInv
<1>1. PICK c \in Seq(Msgs) :
          /\ porttab' = [porttab EXCEPT ![k].msgs = c]
          /\ Len(c) = Len(porttab[k].msgs) + (IF r = "send" THEN 1 ELSE -1)
  BY DEF PassStep
<1>2. /\ porttab' \in [Ports -> PortType]
      /\ \A j \in Ports : /\ porttab'[j].state = porttab[j].state
                          /\ porttab'[j].maxcnt = porttab[j].maxcnt
                          /\ j # k => porttab'[j] = porttab[j]
      /\ porttab'[k].msgs = c
  BY <1>1, PortMsgs
<1>3. semtab' \in [Sems -> SemType(Procs)] /\ SemsInv'
  BY PassSems DEF PassStep, SemsInv
<1>4. call' \in [Procs -> CallType]
  BY Typed, UserTyped DEF PassStep, Taken
<1>5. TypeInv'
  <2>1. dead' \in SUBSET Procs /\ lost' \in BOOLEAN
    BY Typed DEF PassStep
  <2>2. nextsem' \in Sems /\ ptnextid' \in Ports
    BY Typed
  <2>3. TypeInv' <=> /\ porttab' \in [Ports -> PortType] /\ ptfree' \in Nat
              /\ ptnextid' \in Ports /\ semtab' \in [Sems -> SemType(Procs)]
              /\ nextsem' \in Sems /\ call' \in [Procs -> CallType]
              /\ dead' \in SUBSET Procs /\ lost' \in BOOLEAN
    BY DEF TypeInv, PortType, SemType, CallType
  <2> QED
    BY <1>2, <1>3, <1>4, <2>1, <2>2, <2>3
<1>6. CallStep(p)
  BY PassIsCall
<1>7. WaitInv' /\ HoldInv' /\ ClearInv' /\ CallInv'
  BY <1>5, <1>6, CallKeeps
<1>8. CountInv'
  BY PassCounts
<1>9. Room(k, r) >= 1 /\ porttab[k].state = "ALLOC"
  BY TakenFacts DEF PassStep, Taken
<1>10. Len(porttab[k].msgs) \in Nat /\ porttab[k].maxcnt \in Nat /\ Len(c) \in Nat
  BY <1>1, PortTypes, LenProperties
<1>11. Len(c) <= porttab[k].maxcnt
  <2>1. CASE r = "send"
    <3>1. porttab[k].maxcnt - Len(porttab[k].msgs) >= 1
      BY <1>9, <2>1 DEF Room
    <3> QED
      BY <1>1, <1>10, <2>1, <3>1
  <2>2. CASE r = "recv"
    <3>1. Len(porttab[k].msgs) <= porttab[k].maxcnt
      BY DEF SizeInv
    <3> QED
      BY <1>1, <1>10, <2>2, <3>1
  <2> QED
    BY <2>1, <2>2 DEF Roles
<1>12. SizeInv'
  <2> SUFFICES ASSUME NEW j \in Ports
               PROVE  /\ porttab'[j].state # "ALLOC" => porttab'[j].msgs = << >>
                      /\ porttab'[j].state # "FREE" => porttab'[j].maxcnt \in Counts
                      /\ Len(porttab'[j].msgs) <= porttab'[j].maxcnt
    BY DEF SizeInv
  <2>1. CASE j = k
    BY <1>2, <1>9, <1>11, <2>1 DEF SizeInv
  <2>2. CASE j # k
    BY <1>2, <2>2 DEF SizeInv
  <2> QED
    BY <2>1, <2>2
<1>13. NodeInv'
  <2>1. ptfree' - ptfree = Len(porttab[k].msgs) - Len(c)
    <3>1. ptfree \in Nat
      BY Typed
    <3>2. CASE r = "send"
      BY <1>1, <1>10, <3>1, <3>2
    <3>3. CASE r # "send"
      BY <1>1, <1>10, <3>1, <3>3
    <3> QED
      BY <3>2, <3>3
  <2> QED
    BY <1>2, <2>1, NodesMove
<1> QED
  BY <1>3, <1>5, <1>7, <1>8, <1>12, <1>13

\* The second half of ptsend.
LEMMA EnqueueStep ==
  ASSUME PInv, ~crashed, NEW p \in Procs, NEW k \in Ports, NEW tab,
         Taken(tab, p, k, "send"), NEW m \in Msgs, Enqueue(tab, k, m),
         dead' = dead, lost' = lost, ptnextid' = ptnextid, nextsem' = nextsem
  PROVE  /\ crashed' \/ PInv'
         /\ crashed' <=> ptfree = 0
<1>1. CASE ptfree = 0
  BY <1>1 DEF Enqueue
<1>2. CASE ptfree # 0
  <2>1. /\ porttab' = [porttab EXCEPT ![k].msgs = Append(@, m)]
        /\ ptfree' = ptfree - 1
        /\ semtab' = Signalled(tab, porttab[k].rsem)
        /\ crashed' = crashed
    BY <1>2 DEF Enqueue
  <2> DEFINE c == Append(porttab[k].msgs, m)
  <2>2. porttab[k].msgs \in Seq(Msgs) /\ porttab \in [Ports -> PortType] /\ ptfree \in Nat
    BY Typed, PortTypes DEF PInv
  <2>3. /\ c \in Seq(Msgs) /\ Len(c) = Len(porttab[k].msgs) + 1
        /\ porttab' = [porttab EXCEPT ![k].msgs = c]
    BY <2>1, <2>2
  <2>4. Gate(k, Other("send")) = porttab[k].rsem /\ "send" \in Roles
    BY DEF Gate, Other, Roles
  <2> HIDE DEF c
  <2>5. PassStep(p, k, "send", tab)
    BY <2>1, <2>3, <2>4 DEF PassStep
  <2>6. ptfree' \in Nat /\ ptfree' = ptfree + (IF "send" = "send" THEN -1 ELSE 1)
    BY <1>2, <2>1, <2>2
  <2> QED
    BY <1>2, <2>1, <2>4, <2>5, <2>6, PassKeeps
<1> QED
  BY <1>1, <1>2

\* The second half of ptrecv: there is a message.
LEMMA DequeueStep ==
  ASSUME PInv, ~crashed, NEW p \in Procs, NEW k \in Ports, NEW tab,
         Taken(tab, p, k, "recv"), Dequeue(tab, k),
         dead' = dead, lost' = lost, ptnextid' = ptnextid, nextsem' = nextsem
  PROVE  PInv' /\ ~crashed'
<1>1. "recv" \in Roles /\ "recv" # "send" /\ Gate(k, Other("recv")) = porttab[k].ssem
  BY DEF Gate, Other, Roles
<1>2. Room(k, "recv") >= 1
  BY <1>1, TakenFacts DEF PInv
<1>3. porttab[k].msgs # << >>
  BY <1>2 DEF Room
<1>4. /\ porttab' = [porttab EXCEPT ![k].msgs = Tail(@)]
      /\ ptfree' = ptfree + 1
      /\ semtab' = Signalled(tab, porttab[k].ssem)
      /\ crashed' = crashed
  BY <1>3 DEF Dequeue
<1> DEFINE c == Tail(porttab[k].msgs)
<1>5. porttab[k].msgs \in Seq(Msgs) /\ porttab \in [Ports -> PortType] /\ ptfree \in Nat
      /\ Len(porttab[k].msgs) \in Nat
  BY Typed, PortTypes DEF PInv
<1>6. /\ c \in Seq(Msgs) /\ Len(c) = Len(porttab[k].msgs) + -1
      /\ porttab' = [porttab EXCEPT ![k].msgs = c]
  BY <1>3, <1>4, <1>5
<1> HIDE DEF c
<1>7. PassStep(p, k, "recv", tab)
  BY <1>1, <1>4, <1>6 DEF PassStep
<1>8. ptfree' \in Nat /\ ptfree' = ptfree + (IF "recv" = "send" THEN -1 ELSE 1)
  BY <1>1, <1>4, <1>5
<1> QED
  BY <1>1, <1>4, <1>7, <1>8, PassKeeps

\* A call that has to wait for the semaphore of role r of port k.
BlockStep(p, k, r, m) ==
    /\ p \notin dead /\ call[p].at = "user"
    /\ porttab[k].state = "ALLOC" /\ ~Bad(Gate(k, r))
    /\ semtab' = [semtab EXCEPT ![Gate(k, r)] = wait(@, p)]
    /\ Queued(semtab'[Gate(k, r)], p)
    /\ call' = [call EXCEPT ![p] = Call(r, k, m, "FREE")]
    /\ UNCHANGED <<porttab, ptfree, ptnextid, nextsem, dead, lost>>

\* The calls after p's has changed.
LEMMA CallChanged ==
  ASSUME TypeInv, NEW p \in Procs, NEW x \in CallType, call' = [call EXCEPT ![p] = x]
  PROVE  /\ call' \in [Procs -> CallType]
         /\ call'[p] = x
         /\ \A q \in Procs : q # p => call'[q] = call[q]
BY Typed

\* The call that Call makes.
LEMMA CallMade ==
  ASSUME TypeInv, NEW k \in Ports, NEW at \in {"send", "recv", "clear", "cleared"},
         NEW m \in Msgs \cup {0}, NEW new \in {"FREE", "ALLOC"}
  PROVE  LET x == Call(at, k, m, new) IN
         /\ x \in CallType
         /\ x.at = at /\ x.port = k /\ x.seq = porttab[k].seq
         /\ x.msg = m /\ x.new = new
<1>1. porttab[k].seq \in 0..MaxSeq
  BY DEF TypeInv
<1> QED
  BY <1>1 DEF Call, CallType

\* The invariant after it.
LEMMA BlockKeeps ==
  ASSUME PInv, NEW p \in Procs, NEW k \in Ports, NEW r \in Roles,
         NEW m \in Msgs \cup {0}, r = "send" => m \in Msgs, BlockStep(p, k, r, m)
  PROVE  PInv'
<1> USE DEF PInv
<1> DEFINE g == Gate(k, r)
           x == Call(r, k, m, "FREE")
<1>1. /\ p \notin dead /\ call[p].at = "user"
      /\ porttab[k].state = "ALLOC" /\ ~Bad(g)
      /\ semtab' = [semtab EXCEPT ![g] = wait(@, p)]
      /\ Queued(semtab'[g], p)
      /\ call' = [call EXCEPT ![p] = x]
      /\ porttab' = porttab /\ ptfree' = ptfree /\ ptnextid' = ptnextid
      /\ nextsem' = nextsem /\ dead' = dead /\ lost' = lost
  BY DEF BlockStep
<1>2. /\ x \in CallType /\ x.at = r /\ x.port = k /\ x.seq = porttab[k].seq
      /\ x.msg = m
  BY CallMade DEF Roles
<1>3. /\ g \in Sems /\ semtab[g].used
      /\ semtab' \in [Sems -> SemType(Procs)]
      /\ \A s \in Sems : SemSound(semtab'[s]) /\ semtab'[s].used = semtab[s].used
      /\ \A s \in Sems : s # g => semtab'[s] = semtab[s]
      /\ semtab'[g].count = semtab[g].count - 1
      /\ \A q : Has(semtab'[g].queue, q) <=>
                  Has(semtab[g].queue, q) \/ (q = p /\ semtab[g].count <= 0)
      /\ \A s \in Sems : ~Waits(p, s)
  BY <1>1, WaitedTab, SMTT(60)
<1> HIDE DEF x
<1>4. /\ call' \in [Procs -> CallType] /\ call'[p] = x
      /\ \A q \in Procs : q # p => call'[q] = call[q]
  BY <1>1, <1>2, CallChanged
<1>5. TypeInv'
  <2>1. TypeInv' <=> /\ porttab' \in [Ports -> PortType] /\ ptfree' \in Nat
              /\ ptnextid' \in Ports /\ semtab' \in [Sems -> SemType(Procs)]
              /\ nextsem' \in Sems /\ call' \in [Procs -> CallType]
              /\ dead' \in SUBSET Procs /\ lost' \in BOOLEAN
    BY DEF TypeInv, PortType, SemType, CallType
  <2> QED
    BY <1>1, <1>3, <1>4, <2>1, Typed
<1>6. SYSERR \notin Sems
  BY DEF Sems, SYSERR
<1> HIDE DEF g
<1>7. \A s \in Sems, q \in Procs : Waits(q, s)' => Waits(q, s) \/ (q = p /\ s = g)
  BY <1>3 DEF Waits
<1>8. CallStep(p)
  <2>1. \A s \in Sems, q \in Procs : q # p /\ Waits(q, s)' => Waits(q, s)
    BY <1>7
  <2>2. \A s \in Sems : Waits(p, s)' => s = g
    BY <1>3, <1>7
  <2>3. Gate(call'[p].port, call'[p].at) = g
    BY <1>2, <1>4 DEF g
  <2> QED
    BY <1>1, <1>2, <1>3, <1>4, <1>6, <2>1, <2>2, <2>3 DEF CallStep
<1>9. WaitInv' /\ HoldInv' /\ ClearInv' /\ CallInv'
  BY <1>5, <1>8, CallKeeps
<1>10. SemsInv' /\ SizeInv' /\ NodeInv'
  BY <1>1, <1>3 DEF SemsInv, SizeInv, NodeInv
<1>11. CountInv'
  <2>1. /\ \A j \in Ports, t \in Roles : /\ Room(j, t)' = Room(j, t)
                                         /\ Gate(j, t)' = Gate(j, t)
    BY <1>1 DEF Room, Gate
  <2>2. Inside(k, r)' = Inside(k, r) \cup {p} /\ p \notin Inside(k, r)
    BY <1>1, <1>2, <1>4 DEF Inside, Roles
  <2>3. \A j \in Ports, t \in Roles : j # k \/ t # r => Inside(j, t)' = Inside(j, t)
    BY <1>1, <1>2, <1>4 DEF Inside, Roles
  <2> SUFFICES ASSUME NEW j \in Ports, NEW t \in Roles,
                      Settled(j, t)', Gate(j, t) # SYSERR
               PROVE  LET s == Gate(j, t)
                          n == Room(j, t) - Cardinality(Inside(j, t)')
                      IN  IF lost THEN semtab'[s].count <= n ELSE semtab'[s].count = n
    BY <1>1, <2>1 DEF CountInv
  <2> DEFINE s == Gate(j, t)
             a == Cardinality(Inside(j, t))
             b == Cardinality(Inside(j, t)')
             u == Room(j, t)
             y == semtab[s].count
             z == semtab'[s].count
  <2>4. Settled(j, t) /\ Holds(j, t)
    <3>1. Settled(j, t)
      BY <1>8, CallHolds
    <3> QED
      BY <3>1 DEF Settled, Holds
  <2>5. s \in Sems /\ u \in Int
    BY PortTypes
  <2>6. y \in Int /\ z \in Int
    BY <1>3, <2>5, Typed DEF SemType
  <2>7. IF lost THEN y <= u - a ELSE y = u - a
    BY <2>4 DEF CountInv
  <2>8. a \in Nat /\ IsFiniteSet(Inside(j, t))
    <3>1. Inside(j, t) \in SUBSET Procs
      BY DEF Inside
    <3> QED
      BY <3>1, ProcsFinite
  <2>9. CASE j = k /\ t = r
    <3>1. b = a + 1
      BY <2>2, <2>8, <2>9, FS_AddElement
    <3>2. z = y - 1
      BY <1>3, <2>9 DEF g
    <3> HIDE DEF a, b, u, y, z
    <3>3. IF lost THEN z <= u - b ELSE z = u - b
      BY <2>5, <2>6, <2>7, <2>8, <3>1, <3>2
    <3> QED
      BY <3>3 DEF b, u, z
  <2>10. CASE j # k \/ t # r
    <3>1. Holds(k, r)
      BY <1>1 DEF Holds
    <3>2. s # g
      BY <1>3, <1>6, <2>4, <2>5, <2>10, <3>1 DEF HoldInv, g
    <3>3. z = y /\ b = a
      BY <1>3, <2>3, <2>5, <2>10, <3>2
    <3> QED
      BY <2>7, <3>3
  <2> QED
    BY <2>9, <2>10
<1> QED
  BY <1>5, <1>9, <1>10, <1>11

\* A call that goes on and finds its port closed or changed.
LEMMA LeaveKeeps ==
  ASSUME PInv, NEW p \in Procs, p \notin dead, call[p].at \in Roles, ~Blocked(p),
         ~StillOpen(call[p]), call' = [call EXCEPT ![p] = User],
         UNCHANGED <<porttab, ptfree, semtab, ptnextid, nextsem, dead, lost>>
  PROVE  PInv'
<1> USE DEF PInv
<1>1. /\ porttab' = porttab /\ ptfree' = ptfree /\ semtab' = semtab
      /\ ptnextid' = ptnextid /\ nextsem' = nextsem /\ dead' = dead /\ lost' = lost
  OBVIOUS
<1>2. /\ call' \in [Procs -> CallType] /\ call'[p] = User /\ User.at = "user"
      /\ \A q \in Procs : q # p => call'[q] = call[q]
  BY CallChanged, UserTyped DEF User
<1>3. TypeInv'
  <2>1. TypeInv' <=> /\ porttab' \in [Ports -> PortType] /\ ptfree' \in Nat
              /\ ptnextid' \in Ports /\ semtab' \in [Sems -> SemType(Procs)]
              /\ nextsem' \in Sems /\ call' \in [Procs -> CallType]
              /\ dead' \in SUBSET Procs /\ lost' \in BOOLEAN
    BY DEF TypeInv, PortType, SemType, CallType
  <2> QED
    BY <1>1, <1>2, <2>1, Typed
<1>4. \A s \in Sems, q \in Procs : (Waits(q, s)' <=> Waits(q, s)) /\ ~Waits(p, s)
  BY <1>1, BlockedWaits DEF Waits
<1>5. CallStep(p)
  BY <1>1, <1>2, <1>4 DEF CallStep
<1>6. WaitInv' /\ HoldInv' /\ ClearInv' /\ CallInv'
  BY <1>3, <1>5, CallKeeps
<1>7. SemsInv' /\ SizeInv' /\ NodeInv'
  BY <1>1 DEF SemsInv, SizeInv, NodeInv
<1>8. CountInv'
  <2> SUFFICES ASSUME NEW j \in Ports, NEW t \in Roles,
                      Settled(j, t)', Gate(j, t)' # SYSERR
               PROVE  LET s == Gate(j, t)'
                          n == Room(j, t)' - Cardinality(Inside(j, t)')
                      IN  IF lost' THEN semtab'[s].count <= n ELSE semtab'[s].count = n
    BY DEF CountInv
  <2>1. Settled(j, t) /\ Gate(j, t)' = Gate(j, t) /\ Room(j, t)' = Room(j, t)
    <3>1. Settled(j, t)
      BY <1>5, CallHolds
    <3> QED
      BY <1>1, <3>1 DEF Gate, Room
  <2>2. p \notin Inside(j, t)
    <3> SUFFICES ASSUME call[p].at = t, call[p].port = j, call[p].seq = porttab[j].seq
                 PROVE  FALSE
      BY DEF Inside
    <3>1. porttab[j].state = "ALLOC"
      <4>1. porttab[j].seq \in Nat
        BY PortTypes
      <4> QED
        BY <4>1 DEF CallInv
    <3> QED
      BY <3>1 DEF StillOpen
  <2>3. Inside(j, t)' = Inside(j, t)
    BY <1>1, <1>2, <2>2 DEF Inside, Roles
  <2> QED
    BY <1>1, <2>1, <2>3 DEF CountInv
<1> QED
  BY <1>3, <1>6, <1>7, <1>8

\* What makes ptsend panic: a sender got through, and there is no node.
Spent == ptfree = 0 /\ \E k \in Ports : Room(k, "send") >= 1

\* ptsend, and what is left of it when the sender waited.
LEMMA SendKeeps ==
  ASSUME PInv, ~crashed, NEW p \in Procs,
         \/ \E k \in Ports, m \in Msgs : ptsend(p, k, m)
         \/ ptsendResumed(p)
  PROVE  IF crashed' THEN Spent ELSE PInv'
<1>1. "send" \in Roles /\ \A k \in Ports : Gate(k, "send") = porttab[k].ssem
  BY DEF Roles, Gate
<1>2. ASSUME NEW k \in Ports, NEW tab, NEW m \in Msgs, Taken(tab, p, k, "send"),
             Enqueue(tab, k, m), dead' = dead, lost' = lost,
             ptnextid' = ptnextid, nextsem' = nextsem
      PROVE  IF crashed' THEN Spent ELSE PInv'
  <2>1. Room(k, "send") >= 1
    BY <1>1, <1>2, TakenFacts DEF PInv
  <2>2. (crashed' \/ PInv') /\ (crashed' <=> ptfree = 0)
    BY <1>2, EnqueueStep
  <2> QED
    BY <2>1, <2>2 DEF Spent
<1>3. ASSUME NEW k \in Ports, NEW m \in Msgs, ptsend(p, k, m)
      PROVE  IF crashed' THEN Spent ELSE PInv'
  <2> DEFINE g == porttab[k].ssem
             tab == [semtab EXCEPT ![g] = wait(@, p)]
  <2>1. /\ p \notin dead /\ call[p].at = "user" /\ porttab[k].state = "ALLOC" /\ ~Bad(g)
        /\ dead' = dead /\ lost' = lost /\ ptnextid' = ptnextid /\ nextsem' = nextsem
    BY <1>3 DEF ptsend, Runs, lifeVars
  <2>2. CASE Queued(tab[g], p)
    <3>1. /\ semtab' = tab /\ call' = [call EXCEPT ![p] = Call("send", k, m, "FREE")]
          /\ porttab' = porttab /\ ptfree' = ptfree /\ crashed' = crashed
      BY <1>3, <2>2 DEF ptsend
    <3>2. BlockStep(p, k, "send", m)
      BY <1>1, <2>1, <2>2, <3>1 DEF BlockStep
    <3> QED
      BY <1>1, <3>1, <3>2, BlockKeeps
  <2>3. CASE ~Queued(tab[g], p)
    <3>1. Enqueue(tab, k, m) /\ call' = call
      BY <1>3, <2>3 DEF ptsend
    <3>2. Taken(tab, p, k, "send")
      BY <1>1, <2>1, <2>3, <3>1 DEF Taken
    <3> QED
      BY <1>2, <2>1, <3>1, <3>2
  <2> QED
    BY <2>2, <2>3
<1>4. ASSUME ptsendResumed(p)
      PROVE  IF crashed' THEN Spent ELSE PInv'
  <2>1. /\ p \notin dead /\ call[p].at = "send" /\ ~Blocked(p)
        /\ call' = [call EXCEPT ![p] = User]
        /\ dead' = dead /\ lost' = lost /\ ptnextid' = ptnextid /\ nextsem' = nextsem
    BY <1>4 DEF ptsendResumed, Runs, lifeVars
  <2>2. CASE StillOpen(call[p])
    <3>1. Enqueue(semtab, call[p].port, call[p].msg)
      BY <1>4, <2>2 DEF ptsendResumed
    <3>2. Taken(semtab, p, call[p].port, "send")
      BY <2>1, <2>2 DEF Taken, StillOpen
    <3>3. call[p].port \in Ports /\ call[p].msg \in Msgs
      BY <1>1, <2>1 DEF PInv, CallInv, TypeInv
    <3> QED
      BY <1>2, <2>1, <3>1, <3>2, <3>3
  <2>3. CASE ~StillOpen(call[p])
    <3>1. UNCHANGED <<porttab, ptfree, semtab, crashed>>
      BY <1>4, <2>3 DEF ptsendResumed
    <3>2. PInv'
      BY <1>1, <2>1, <2>3, <3>1, LeaveKeeps
    <3> QED
      BY <3>1, <3>2
  <2> QED
    BY <2>2, <2>3
<1> QED
  BY <1>3, <1>4

\* ptrecv, and what is left of it when the receiver waited.
LEMMA RecvKeeps ==
  ASSUME PInv, ~crashed, NEW p \in Procs,
         \/ \E k \in Ports : ptrecv(p, k)
         \/ ptrecvResumed(p)
  PROVE  PInv' /\ ~crashed'
<1>1. "recv" \in Roles /\ "recv" # "send" /\ \A k \in Ports : Gate(k, "recv") = porttab[k].rsem
  BY DEF Roles, Gate
<1>3. ASSUME NEW k \in Ports, ptrecv(p, k)
      PROVE  PInv' /\ ~crashed'
  <2> DEFINE g == porttab[k].rsem
             tab == [semtab EXCEPT ![g] = wait(@, p)]
  <2>1. /\ p \notin dead /\ call[p].at = "user" /\ porttab[k].state = "ALLOC" /\ ~Bad(g)
        /\ dead' = dead /\ lost' = lost /\ ptnextid' = ptnextid /\ nextsem' = nextsem
    BY <1>3 DEF ptrecv, Runs, lifeVars
  <2>2. CASE Queued(tab[g], p)
    <3>1. /\ semtab' = tab /\ call' = [call EXCEPT ![p] = Call("recv", k, 0, "FREE")]
          /\ porttab' = porttab /\ ptfree' = ptfree /\ crashed' = crashed
      BY <1>3, <2>2 DEF ptrecv
    <3>2. BlockStep(p, k, "recv", 0)
      BY <1>1, <2>1, <2>2, <3>1 DEF BlockStep
    <3>3. 0 \in Msgs \cup {0}
      OBVIOUS
    <3> QED
      BY <1>1, <3>1, <3>2, <3>3, BlockKeeps
  <2>3. CASE ~Queued(tab[g], p)
    <3>1. Dequeue(tab, k) /\ call' = call
      BY <1>3, <2>3 DEF ptrecv
    <3>2. Taken(tab, p, k, "recv")
      BY <1>1, <2>1, <2>3, <3>1 DEF Taken
    <3> QED
      BY <2>1, <3>1, <3>2, DequeueStep
  <2> QED
    BY <2>2, <2>3
<1>4. ASSUME ptrecvResumed(p)
      PROVE  PInv' /\ ~crashed'
  <2>1. /\ p \notin dead /\ call[p].at = "recv" /\ ~Blocked(p)
        /\ call' = [call EXCEPT ![p] = User]
        /\ dead' = dead /\ lost' = lost /\ ptnextid' = ptnextid /\ nextsem' = nextsem
    BY <1>4 DEF ptrecvResumed, Runs, lifeVars
  <2>2. CASE StillOpen(call[p])
    <3>1. Dequeue(semtab, call[p].port)
      BY <1>4, <2>2 DEF ptrecvResumed
    <3>2. Taken(semtab, p, call[p].port, "recv")
      BY <2>1, <2>2 DEF Taken, StillOpen
    <3>3. call[p].port \in Ports
      BY DEF PInv, TypeInv
    <3> QED
      BY <2>1, <3>1, <3>2, <3>3, DequeueStep
  <2>3. CASE ~StillOpen(call[p])
    <3>1. UNCHANGED <<porttab, ptfree, semtab, crashed>>
      BY <1>4, <2>3 DEF ptrecvResumed
    <3>2. PInv'
      BY <1>1, <2>1, <2>3, <3>1, LeaveKeeps
    <3> QED
      BY <3>1, <3>2
  <2> QED
    BY <2>2, <2>3
<1> QED
  BY <1>3, <1>4

----------------------------------------------------------------------------
\* Clearing a port.

\* The release of those who wait on a port's semaphore.
LEMMA FreedTab ==
  ASSUME TypeInv, SemsInv, NEW h \in Sems \cup {SYSERR}, NEW new, NEW n \in Nat,
         semtab' = Freed(semtab, h, new, n)
  PROVE  /\ semtab' \in [Sems -> SemType(Procs)] /\ SemsInv'
         /\ \A s \in Sems : s # h => semtab'[s] = semtab[s]
         /\ \A q : h # SYSERR => ~Has(semtab'[h].queue, q)
         /\ \A s \in Sems, q \in Procs : Waits(q, s)' => Waits(q, s) /\ s # h
         /\ new = "ALLOC" => \A s \in Sems : semtab'[s].used = semtab[s].used
         /\ h # SYSERR /\ new = "ALLOC" /\ semtab[h].used => semtab'[h].count = n
<1>1. semtab \in [Sems -> SemType(Procs)] /\ \A s \in Sems : SemSound(semtab[s])
  BY Typed DEF SemsInv
<1>2. SYSERR \notin Sems
  BY DEF Sems, SYSERR
<1>3. CASE h # SYSERR /\ semtab[h].used
  <2> DEFINE y == IF new = "ALLOC" THEN semreset(semtab[h], n) ELSE semdelete(semtab[h])
  <2>1. h \in Sems /\ semtab' = [semtab EXCEPT ![h] = y]
    BY <1>1, <1>3 DEF Freed, Bad
  <2>2. /\ y \in SemType(Procs) /\ SemSound(y) /\ \A q : ~Has(y.queue, q)
        /\ new = "ALLOC" => y.used = semtab[h].used /\ y.count = n
    <3>1. semtab[h] \in SemType(Procs)
      BY <1>1, <2>1
    <3>2. CASE new = "ALLOC"
      <4>1. y = semreset(semtab[h], n)
        BY <3>2
      <4>2. \A z \in SemType(Procs) :
               /\ semreset(z, n) \in SemType(Procs) /\ SemSound(semreset(z, n))
               /\ semreset(z, n).used = z.used /\ semreset(z, n).count = n
               /\ \A q : ~Has(semreset(z, n).queue, q)
        BY NewSem, SameSem, SMTT(60)
      <4> HIDE DEF y
      <4> QED
        BY <3>1, <4>1, <4>2, Zenon
    <3>3. CASE new # "ALLOC"
      <4>1. y = NoSem
        BY <3>3 DEF semdelete
      <4> HIDE DEF y
      <4> QED
        BY <3>3, <4>1, NewSem, SameSem
    <3> QED
      BY <3>2, <3>3
  <2> HIDE DEF y
  <2>3. semtab' \in [Sems -> SemType(Procs)] /\ semtab'[h] = y
        /\ \A s \in Sems : s # h => semtab'[s] = semtab[s]
    BY <1>1, <2>1, <2>2
  <2>4. SemsInv'
    BY <1>1, <2>2, <2>3 DEF SemsInv
  <2>5. \A s \in Sems, q \in Procs : Waits(q, s)' => Waits(q, s) /\ s # h
    BY <2>2, <2>3 DEF Waits
  <2> QED
    BY <2>2, <2>3, <2>4, <2>5
<1>4. CASE h = SYSERR \/ ~semtab[h].used
  <2>1. semtab' = semtab
    BY <1>4 DEF Freed, Bad
  <2>2. ASSUME h # SYSERR, NEW q PROVE ~Has(semtab[h].queue, q)
    <3>1. h \in Sems /\ ~semtab[h].used
      BY <1>4, <2>2
    <3>2. Len(semtab[h].queue) = 0
      BY <1>1, <3>1 DEF SemSound
    <3> QED
      BY <3>2 DEF Has
  <2>3. SemsInv'
    BY <2>1 DEF SemsInv
  <2>4. \A s \in Sems, q \in Procs : Waits(q, s)' => Waits(q, s) /\ s # h
    BY <1>2, <2>1, <2>2 DEF Waits
  <2> QED
    BY <1>1, <1>4, <2>1, <2>2, <2>3, <2>4
<1> QED
  BY <1>3, <1>4, Zenon

\* A step after which the ports use no more semaphores than before, and nobody
\* has started to wait.
LEMMA NarrowHold ==
  ASSUME HoldInv,
         \A k \in Ports, r \in Roles : Gate(k, r)' = Gate(k, r),
         \A k \in Ports, r \in Roles : Gate(k, r) \in Sems \cup {SYSERR},
         \A k \in Ports, r \in Roles : Holds(k, r)' => Holds(k, r),
         \A s \in Sems, q \in Procs : Waits(q, s)' =>
            Waits(q, s) /\ call'[q].port = call[q].port /\ call'[q].at = call[q].at,
         \A k \in Ports, r \in Roles : Holds(k, r)' /\ Gate(k, r) # SYSERR =>
            semtab'[Gate(k, r)].used = semtab[Gate(k, r)].used
  PROVE  HoldInv'
<1> SUFFICES ASSUME NEW k \in Ports, NEW r \in Roles, Holds(k, r)', Gate(k, r) # SYSERR
             PROVE  /\ semtab'[Gate(k, r)].used
                    /\ \A q \in Procs : Has(semtab'[Gate(k, r)].queue, q) =>
                          call'[q].port = k /\ call'[q].at = r
                    /\ \A j \in Ports, t \in Roles :
                          Holds(j, t)' /\ Gate(j, t) = Gate(k, r) => j = k /\ t = r
  BY DEF HoldInv, Waits
<1> DEFINE s == Gate(k, r)
<1>1. Holds(k, r) /\ s \in Sems /\ s # SYSERR
  OBVIOUS
<1>2. /\ semtab[s].used
      /\ \A q \in Procs : Waits(q, s) => call[q].port = k /\ call[q].at = r
      /\ \A j \in Ports, t \in Roles : Holds(j, t) /\ Gate(j, t) = s => j = k /\ t = r
  BY <1>1 DEF HoldInv
<1>3. semtab'[s].used
  BY <1>2
<1>4. \A q \in Procs : Has(semtab'[s].queue, q) => Waits(q, s)'
  BY DEF Waits
<1> QED
  BY <1>1, <1>2, <1>3, <1>4

\* A call of another process on a port is older than the port.
LEMMA CallOlder ==
  ASSUME TypeInv, CallInv, NEW q \in Procs, call[q].at \in Roles
  PROVE  /\ call[q].port \in Ports /\ call[q].seq \in Nat
         /\ porttab[call[q].port].seq \in Nat
         /\ call[q].seq <= porttab[call[q].port].seq
         /\ porttab[call[q].port].state # "ALLOC" =>
               call[q].seq < porttab[call[q].port].seq
<1>1. call[q].port \in Ports /\ call[q].seq \in 0..MaxSeq /\ 0..MaxSeq \subseteq Nat
  BY PortsAssumption DEF TypeInv
<1> QED
  BY <1>1, PortTypes DEF CallInv

\* The type invariant after a step, for the primed state.
LEMMA TypedNext ==
  TypeInv' <=> /\ porttab' \in [Ports -> PortType] /\ ptfree' \in Nat
               /\ ptnextid' \in Ports /\ semtab' \in [Sems -> SemType(Procs)]
               /\ nextsem' \in Sems /\ call' \in [Procs -> CallType]
               /\ dead' \in SUBSET Procs /\ lost' \in BOOLEAN
BY DEF TypeInv, PortType, SemType, CallType

\* ptreset and ptdelete, up to the release of the senders: the port is in limbo,
\* and the calls on it are older than it is.
LEMMA ClearKeeps ==
  ASSUME PInv, NEW p \in Procs, NEW k \in Ports, NEW new \in {"ALLOC", "FREE"},
         ptclear(p, k, new)
  PROVE  PInv'
<1> USE DEF PInv
<1> DEFINE g == porttab[k].ssem
           n == porttab[k].maxcnt
           x == Call("clear", k, 0, new)
<1>1. /\ p \notin dead /\ call[p].at = "user" /\ porttab[k].state = "ALLOC"
      /\ porttab[k].seq < MaxSeq
      /\ porttab' = [porttab EXCEPT ![k].state = "LIMBO",
                                    ![k].seq = @ + 1, ![k].msgs = << >>]
      /\ ptfree' = NodesFreed(k)
      /\ semtab' = Freed(semtab, g, new, n)
      /\ call' = [call EXCEPT ![p] = x]
      /\ ptnextid' = ptnextid /\ nextsem' = nextsem /\ dead' = dead /\ lost' = lost
  BY DEF ptclear, Runs, lifeVars
<1>t. /\ n \in Nat /\ porttab[k].seq \in Nat /\ Len(porttab[k].msgs) \in Nat
      /\ g \in Sems \cup {SYSERR} /\ porttab \in [Ports -> PortType]
      /\ porttab[k].seq + 1 \in 0..MaxSeq /\ ptfree \in Nat
  <2>1. porttab[k].seq \in Nat
    BY PortTypes
  <2>2. porttab[k].seq + 1 \in 0..MaxSeq
    BY <1>1, <2>1, PortsAssumption
  <2> QED
    BY <2>1, <2>2, Typed, PortTypes DEF PortType
<1>2. /\ x \in CallType /\ x.at = "clear" /\ x.port = k
      /\ x.seq = porttab[k].seq /\ x.new = new
  <2>1. 0 \in Msgs \cup {0} /\ new \in {"FREE", "ALLOC"}
    OBVIOUS
  <2> QED
    BY <2>1, CallMade
<1> HIDE DEF x
<1>3. /\ call' \in [Procs -> CallType] /\ call'[p] = x
      /\ \A q \in Procs : q # p => call'[q] = call[q]
  BY <1>1, <1>2, CallChanged
<1>g. g = Gate(k, "send") /\ "send" \in Roles /\ "recv" \in Roles /\ "send" # "recv"
  BY DEF Gate, Roles
<1> HIDE DEF g, n
<1>4. /\ semtab' \in [Sems -> SemType(Procs)] /\ SemsInv'
      /\ \A s \in Sems : s # g => semtab'[s] = semtab[s]
      /\ \A s \in Sems, q \in Procs : Waits(q, s)' => Waits(q, s) /\ s # g
      /\ new = "ALLOC" => \A s \in Sems : semtab'[s].used = semtab[s].used
      /\ g # SYSERR /\ new = "ALLOC" /\ semtab[g].used => semtab'[g].count = n
  BY <1>1, <1>t, FreedTab
<1>5. /\ porttab' \in [Ports -> PortType]
      /\ \A j \in Ports : j # k => porttab'[j] = porttab[j]
      /\ \A j \in Ports : porttab'[j].ssem = porttab[j].ssem /\ porttab'[j].rsem = porttab[j].rsem
      /\ porttab'[k].state = "LIMBO" /\ porttab'[k].seq = porttab[k].seq + 1
      /\ porttab'[k].msgs = << >> /\ porttab'[k].maxcnt = n
  <2> DEFINE u == porttab[k].seq + 1
             v == << >>
             y == [porttab[k] EXCEPT !.state = "LIMBO", !.seq = u, !.msgs = v]
  <2>1. porttab' = [porttab EXCEPT ![k] = y]
    BY <1>1, <1>t
  <2>2. porttab[k] \in PortType /\ u \in 0..MaxSeq /\ v \in Seq(Msgs)
    BY <1>t
  <2> HIDE DEF u, v
  <2>3. /\ y \in PortType /\ y.state = "LIMBO" /\ y.seq = u /\ y.msgs = v
        /\ y.maxcnt = porttab[k].maxcnt /\ y.ssem = porttab[k].ssem
        /\ y.rsem = porttab[k].rsem
    BY <2>2 DEF PortType
  <2> HIDE DEF y
  <2> QED
    BY <1>t, <2>1, <2>3 DEF u, v, n
<1>6. TypeInv'
  <2>1. ptfree' \in Nat
    BY <1>1, <1>t DEF NodesFreed
  <2> QED
    BY <1>1, <1>3, <1>4, <1>5, <2>1, Typed, TypedNext
<1>7. /\ \A j \in Ports, t \in Roles : Gate(j, t)' = Gate(j, t)
      /\ \A j \in Ports, t \in Roles : Gate(j, t) \in Sems \cup {SYSERR}
  BY <1>5, PortTypes DEF Gate
<1>8. \A s \in Sems : ~Waits(p, s)
  BY <1>1 DEF WaitInv, Roles
<1>9. /\ \A c \in Procs : ~Clears(c, k)
      /\ \A c \in Procs : Clears(c, k)' <=> c = p
      /\ \A c \in Procs, j \in Ports : j # k => (Clears(c, j)' <=> Clears(c, j)) /\ ~Clears(p, j)
  <2>1. \A c \in Procs : ~Clears(c, k)
    BY <1>1 DEF ClearInv
  <2> QED
    BY <1>1, <1>2, <1>3, <2>1 DEF Clears
<1>10. /\ \A t \in Roles : Holds(k, t)
       /\ \A t \in Roles : Holds(k, t)' <=> new = "ALLOC" \/ t = "recv"
       /\ \A t \in Roles : Settled(k, t)' <=> new = "ALLOC" /\ t = "send"
       /\ \A j \in Ports, t \in Roles :
             j # k => (Holds(j, t)' <=> Holds(j, t)) /\ (Settled(j, t)' <=> Settled(j, t))
  <2>1. \A t \in Roles : Holds(k, t)
    BY <1>1 DEF Holds
  <2>2. ASSUME NEW t \in Roles
        PROVE  /\ Holds(k, t)' <=> new = "ALLOC" \/ t = "recv"
               /\ Settled(k, t)' <=> new = "ALLOC" /\ t = "send"
    <3>1. /\ porttab'[k].state # "ALLOC" /\ call'[p].at = "clear" /\ call'[p].new = new
      BY <1>2, <1>3, <1>5
    <3> QED
      BY <1>9, <3>1 DEF Holds, Settled
  <2>3. ASSUME NEW j \in Ports, NEW t \in Roles, j # k
        PROVE  (Holds(j, t)' <=> Holds(j, t)) /\ (Settled(j, t)' <=> Settled(j, t))
    <3>1. /\ porttab'[j] = porttab[j]
          /\ \A c \in Procs : Clears(c, j)' <=> Clears(c, j)
          /\ \A c \in Procs : Clears(c, j) => call'[c] = call[c]
      BY <1>3, <1>5, <1>9, <2>3
    <3> QED
      BY <3>1 DEF Holds, Settled
  <2> QED
    BY <2>1, <2>2, <2>3
<1>11. WaitInv'
  <2> SUFFICES ASSUME NEW s \in Sems, NEW q \in Procs, Waits(q, s)'
               PROVE  LET pt == porttab'[call'[q].port] IN
                      /\ q \notin dead'
                      /\ call'[q].at \in Roles
                      /\ Gate(call[q].port, call[q].at)' = s
                      /\ \/ pt.state = "ALLOC" /\ pt.seq = call'[q].seq
                         \/ /\ pt.state = "LIMBO" /\ pt.seq = call'[q].seq + 1
                            /\ call'[q].at = "recv"
    BY DEF WaitInv
  <2>1. Waits(q, s) /\ s # g /\ q # p /\ call'[q] = call[q] /\ call[q].port \in Ports
    BY <1>3, <1>4, <1>8, Typed DEF CallType
  <2>2. /\ q \notin dead /\ call[q].at \in Roles /\ Gate(call[q].port, call[q].at) = s
        /\ LET pt == porttab[call[q].port] IN
           \/ pt.state = "ALLOC" /\ pt.seq = call[q].seq
           \/ /\ pt.state = "LIMBO" /\ pt.seq = call[q].seq + 1
              /\ call[q].at = "recv"
    BY <2>1 DEF WaitInv
  <2>3. Gate(call[q].port, call[q].at)' = s
    <3>1. Gate(call'[q].port, call'[q].at) = s
      BY <2>1, <2>2
    <3>2. Gate(call[q].port, call[q].at)' = Gate(call'[q].port, call'[q].at)
      BY <1>5, <2>1 DEF Gate
    <3> QED
      BY <3>1, <3>2
  <2>4. CASE call[q].port = k
    <3>1. call[q].at = "recv"
      BY <1>g, <2>1, <2>2, <2>4 DEF Roles
    <3> QED
      BY <1>1, <1>5, <2>1, <2>2, <2>3, <2>4, <3>1
  <2>5. CASE call[q].port # k
    BY <1>1, <1>5, <2>1, <2>2, <2>3, <2>5
  <2> QED
    BY <2>4, <2>5
<1>12. HoldInv'
  <2>1. \A j \in Ports, t \in Roles : Holds(j, t)' => Holds(j, t)
    BY <1>10
  <2>2. \A s \in Sems, q \in Procs : Waits(q, s)' =>
            Waits(q, s) /\ call'[q].port = call[q].port /\ call'[q].at = call[q].at
    BY <1>3, <1>4, <1>8
  <2>3. ASSUME NEW j \in Ports, NEW t \in Roles, Holds(j, t)', Gate(j, t) # SYSERR
        PROVE  semtab'[Gate(j, t)].used = semtab[Gate(j, t)].used
    <3>1. Gate(j, t) \in Sems /\ Holds(j, t)
      BY <1>7, <2>1, <2>3
    <3>2. CASE new = "ALLOC"
      BY <1>4, <3>1, <3>2
    <3>3. CASE new # "ALLOC"
      <4>1. ~(j = k /\ t = "send")
        BY <1>g, <1>10, <2>3, <3>3
      <4>2. Gate(j, t) # g
        BY <1>10, <1>g, <2>3, <3>1, <4>1 DEF HoldInv
      <4> QED
        BY <1>4, <3>1, <4>2
    <3> QED
      BY <3>2, <3>3
  <2> QED
    BY <1>7, <2>1, <2>2, <2>3, NarrowHold
<1>13. ClearInv'
  <2> SUFFICES ASSUME NEW c \in Procs, NEW j \in Ports, Clears(c, j)'
               PROVE  /\ porttab'[j].state = "LIMBO"
                      /\ porttab'[j].seq = call'[c].seq + 1
                      /\ \A d \in Procs : Clears(d, j)' => d = c
                      /\ call'[c].at = "cleared" =>
                            \A s \in Sems, q \in Procs : Waits(q, s)' => call'[q].port # j
    BY DEF ClearInv
  <2>1. CASE j = k
    <3>1. c = p /\ call'[c] = x /\ x.at # "cleared"
      BY <1>2, <1>3, <1>9, <2>1
    <3> QED
      BY <1>2, <1>5, <1>9, <2>1, <3>1
  <2>2. CASE j # k
    <3>1. Clears(c, j) /\ c # p /\ call'[c] = call[c] /\ porttab'[j] = porttab[j]
      BY <1>3, <1>5, <1>9, <2>2
    <3>2. \A d \in Procs : Clears(d, j)' => d = c
      BY <1>9, <2>2, <3>1 DEF ClearInv
    <3>3. ASSUME call'[c].at = "cleared", NEW s \in Sems, NEW q \in Procs, Waits(q, s)'
          PROVE  call'[q].port # j
      <4>1. Waits(q, s) /\ call'[q] = call[q]
        BY <1>3, <1>4, <1>8, <3>3
      <4> QED
        BY <3>1, <3>3, <4>1 DEF ClearInv
    <3>4. porttab'[j].state = "LIMBO" /\ porttab'[j].seq = call'[c].seq + 1
      BY <3>1 DEF ClearInv
    <3> QED
      BY <3>2, <3>3, <3>4
  <2> QED
    BY <2>1, <2>2
<1>14. \A q \in Procs : call'[q].at \in Roles =>
          q # p /\ call'[q] = call[q]
  BY <1>2, <1>3 DEF Roles
<1>15. CallInv'
  <2> SUFFICES ASSUME NEW q \in Procs, call'[q].at \in Roles
               PROVE  LET pt == porttab'[call'[q].port] IN
                      /\ call'[q].seq <= pt.seq
                      /\ pt.state # "ALLOC" => call'[q].seq < pt.seq
                      /\ call'[q].seq = pt.seq => Gate(call[q].port, call[q].at)' # SYSERR
                      /\ call'[q].at = "send" => call'[q].msg \in Msgs
    BY DEF CallInv
  <2>1. q # p /\ call'[q] = call[q] /\ call[q].at \in Roles
    BY <1>14
  <2>2. /\ call[q].port \in Ports /\ call[q].seq \in Nat
        /\ porttab[call[q].port].seq \in Nat
        /\ call[q].seq <= porttab[call[q].port].seq
    BY <2>1, CallOlder
  <2>3. CASE call[q].port = k
    <3>1. porttab'[call'[q].port].seq = porttab[call[q].port].seq + 1
      BY <1>5, <2>1, <2>3
    <3>2. call'[q].seq < porttab'[call'[q].port].seq
      BY <2>1, <2>2, <3>1
    <3>3. call'[q].seq \in Nat /\ porttab'[call'[q].port].seq \in Nat
      BY <2>1, <2>2, <3>1
    <3> QED
      BY <2>1, <3>2, <3>3 DEF CallInv
  <2>4. CASE call[q].port # k
    <3>1. porttab'[call'[q].port] = porttab[call[q].port]
      BY <1>5, <2>1, <2>2, <2>4
    <3>2. Gate(call[q].port, call[q].at)' = Gate(call[q].port, call[q].at)
      BY <2>1, <3>1 DEF Gate
    <3> QED
      BY <2>1, <3>1, <3>2 DEF CallInv
  <2> QED
    BY <2>3, <2>4
<1>16. SizeInv'
  <2> SUFFICES ASSUME NEW j \in Ports
               PROVE  /\ porttab'[j].state # "ALLOC" => porttab'[j].msgs = << >>
                      /\ porttab'[j].state # "FREE" => porttab'[j].maxcnt \in Counts
                      /\ Len(porttab'[j].msgs) <= porttab'[j].maxcnt
    BY DEF SizeInv
  <2>1. CASE j = k
    <3>1. n \in Counts /\ Len(<< >>) = 0 /\ n >= 0
      BY <1>1, <1>t DEF SizeInv, n
    <3> QED
      BY <1>5, <2>1, <3>1
  <2>2. CASE j # k
    BY <1>5, <2>2 DEF SizeInv
  <2> QED
    BY <2>1, <2>2
<1>17. CountInv'
  <2> SUFFICES ASSUME NEW j \in Ports, NEW t \in Roles,
                      Settled(j, t)', Gate(j, t) # SYSERR
               PROVE  LET s == Gate(j, t)
                          m == Room(j, t)' - Cardinality(Inside(j, t)')
                      IN  IF lost THEN semtab'[s].count <= m ELSE semtab'[s].count = m
    BY <1>1, <1>7 DEF CountInv
  <2>1. CASE j = k
    <3>1. new = "ALLOC" /\ t = "send" /\ Gate(j, t) = g /\ semtab[g].used
      BY <1>10, <1>g, <2>1 DEF HoldInv
    <3>2. semtab'[g].count = n
      BY <1>4, <1>g, <2>1, <3>1
    <3>3. Room(j, t)' = n
      BY <1>5, <1>t, <2>1, <3>1 DEF Room
    <3>4. Inside(j, t)' = {}
      <4> SUFFICES ASSUME NEW q \in Procs, call'[q].at = t, call'[q].port = k,
                          call'[q].seq = porttab'[k].seq
                   PROVE  FALSE
        BY <2>1 DEF Inside
      <4>1. q # p /\ call'[q] = call[q] /\ call[q].at \in Roles
        BY <1>14
      <4>2. call[q].seq \in Nat /\ porttab[k].seq \in Nat /\ call[q].seq <= porttab[k].seq
        BY <4>1, CallOlder
      <4> QED
        BY <1>5, <4>1, <4>2
    <3>5. Cardinality(Inside(j, t)') = 0
      BY <3>4, FS_EmptySet
    <3> QED
      BY <1>t, <3>1, <3>2, <3>3, <3>5
  <2>2. CASE j # k
    <3>1. Settled(j, t) /\ Holds(j, t)
      <4>1. Settled(j, t)
        BY <1>10, <2>2
      <4> QED
        BY <4>1 DEF Settled, Holds
    <3>2. Gate(j, t) # g /\ Gate(j, t) \in Sems
      BY <1>7, <1>10, <1>g, <2>2, <3>1 DEF HoldInv
    <3>3. semtab'[Gate(j, t)] = semtab[Gate(j, t)]
      BY <1>4, <3>2
    <3>4. Room(j, t)' = Room(j, t)
      BY <1>5, <2>2 DEF Room
    <3>5. Inside(j, t)' = Inside(j, t)
      BY <1>1, <1>2, <1>3, <1>5, <2>2 DEF Inside, Roles
    <3> QED
      BY <3>1, <3>3, <3>4, <3>5 DEF CountInv
  <2> QED
    BY <2>1, <2>2
<1>18. NodeInv'
  <2>1. Len(porttab'[k].msgs) = 0
    BY <1>5
  <2>2. ptfree' \in Nat /\ ptfree' - ptfree = Len(porttab[k].msgs) - Len(porttab'[k].msgs)
    BY <1>1, <1>t, <2>1 DEF NodesFreed
  <2> QED
    BY <1>5, <2>2, NodesMove
<1> QED
  BY <1>4, <1>6, <1>11, <1>12, <1>13, <1>15, <1>16, <1>17, <1>18

\* A process that clears a port has not been killed, and changes nothing that the
\* calls on ports depend on when it goes on.
LEMMA OthersKept ==
  ASSUME TypeInv, NEW p \in Procs, NEW y \in CallType, call[p].at \notin Roles,
         y.at \notin Roles, call' = [call EXCEPT ![p] = y], dead' = dead,
         \A j \in Ports : porttab'[j].seq = porttab[j].seq
  PROVE  /\ call' \in [Procs -> CallType] /\ call'[p] = y
         /\ \A q \in Procs : q # p => call'[q] = call[q]
         /\ \A q \in Procs : call'[q].at \in Roles => q # p /\ call'[q] = call[q]
         /\ \A j \in Ports, t \in Roles : Inside(j, t)' = Inside(j, t)
<1>1. /\ call' \in [Procs -> CallType] /\ call'[p] = y
      /\ \A q \in Procs : q # p => call'[q] = call[q]
  BY CallChanged
<1>2. \A q \in Procs : call'[q].at \in Roles => q # p /\ call'[q] = call[q]
  BY <1>1
<1>3. ASSUME NEW j \in Ports, NEW t \in Roles
      PROVE  Inside(j, t)' = Inside(j, t)
  BY <1>1 DEF Inside
<1> QED
  BY <1>1, <1>2, <1>3

\* The release of the receivers: nobody waits for the port any more.
LEMMA ReceiversKeeps ==
  ASSUME PInv, NEW p \in Procs, ptclearReceivers(p)
  PROVE  PInv'
<1> USE DEF PInv
<1>0. PICK k \in Ports, new \in {"FREE", "ALLOC"} : k = call[p].port /\ new = call[p].new
  <2>1. call[p] \in CallType
    BY Typed
  <2> QED
    BY <2>1 DEF CallType
<1> DEFINE h == porttab[k].rsem
           x == [call[p] EXCEPT !.at = "cleared"]
<1>1. /\ p \notin dead /\ call[p].at = "clear"
      /\ semtab' = Freed(semtab, h, new, 0)
      /\ call' = [call EXCEPT ![p].at = "cleared"]
      /\ porttab' = porttab /\ ptfree' = ptfree
      /\ ptnextid' = ptnextid /\ nextsem' = nextsem /\ dead' = dead /\ lost' = lost
  BY <1>0 DEF ptclearReceivers, Runs, lifeVars
<1>t. /\ call[p] \in CallType /\ k \in Ports /\ new \in {"FREE", "ALLOC"}
      /\ h \in Sems \cup {SYSERR} /\ call \in [Procs -> CallType] /\ 0 \in Nat
  BY Typed, PortTypes DEF CallType, PortType
<1>2. /\ x \in CallType /\ x.at = "cleared" /\ x.port = k
      /\ x.seq = call[p].seq /\ x.new = new
  BY <1>0, <1>t DEF CallType
<1>c. call' = [call EXCEPT ![p] = x]
  BY <1>1, <1>t
<1> HIDE DEF x
<1>3. /\ call' \in [Procs -> CallType] /\ call'[p] = x
      /\ \A q \in Procs : q # p => call'[q] = call[q]
      /\ \A q \in Procs : call'[q].at \in Roles => q # p /\ call'[q] = call[q]
      /\ \A j \in Ports, t \in Roles : Inside(j, t)' = Inside(j, t)
  <2>1. call[p].at \notin Roles /\ x.at \notin Roles
    BY <1>1, <1>2 DEF Roles
  <2> QED
    BY <1>1, <1>2, <1>c, <2>1, OthersKept
<1>g. h = Gate(k, "recv") /\ "send" \in Roles /\ "recv" \in Roles /\ "send" # "recv"
  BY DEF Gate, Roles
<1>k. Clears(p, k)
  BY <1>0, <1>1 DEF Clears
<1>s. /\ porttab[k].state = "LIMBO" /\ porttab[k].seq = call[p].seq + 1
      /\ \A d \in Procs : Clears(d, k) => d = p
      /\ Holds(k, "recv")
  <2>1. Holds(k, "recv")
    BY <1>0, <1>1, <1>k DEF Holds
  <2> QED
    BY <1>k, <1>t, <2>1 DEF ClearInv
<1> HIDE DEF h
<1>4. /\ semtab' \in [Sems -> SemType(Procs)] /\ SemsInv'
      /\ \A s \in Sems : s # h => semtab'[s] = semtab[s]
      /\ \A s \in Sems, q \in Procs : Waits(q, s)' => Waits(q, s) /\ s # h
      /\ new = "ALLOC" => \A s \in Sems : semtab'[s].used = semtab[s].used
      /\ h # SYSERR /\ new = "ALLOC" /\ semtab[h].used => semtab'[h].count = 0
  BY <1>1, <1>t, FreedTab
<1>6. TypeInv'
  BY <1>1, <1>3, <1>4, Typed, TypedNext
<1>7. /\ \A j \in Ports, t \in Roles : Gate(j, t)' = Gate(j, t) /\ Room(j, t)' = Room(j, t)
      /\ \A j \in Ports, t \in Roles : Gate(j, t) \in Sems \cup {SYSERR}
  BY <1>1, PortTypes DEF Gate, Room
<1>8. \A s \in Sems : ~Waits(p, s)
  BY <1>1 DEF WaitInv, Roles
<1>9. /\ \A c \in Procs, j \in Ports : Clears(c, j)' <=> Clears(c, j)
      /\ \A c \in Procs, j \in Ports : Clears(c, j) /\ j # k => c # p
  BY <1>0, <1>1, <1>2, <1>3, <1>k DEF Clears
<1>10. /\ \A t \in Roles : Holds(k, t)' => new = "ALLOC" /\ Holds(k, t)
       /\ Settled(k, "send")' => Settled(k, "send")
       /\ \A t \in Roles : Settled(k, t)' => new = "ALLOC" /\ Holds(k, t)
       /\ \A j \in Ports, t \in Roles :
             j # k => (Holds(j, t)' <=> Holds(j, t)) /\ (Settled(j, t)' <=> Settled(j, t))
  <2>1. ASSUME NEW t \in Roles
        PROVE  /\ Holds(k, t)' => new = "ALLOC" /\ Holds(k, t)
               /\ Settled(k, t)' => new = "ALLOC" /\ Holds(k, t)
    <3>1. /\ porttab'[k].state # "ALLOC" /\ call'[p].at = "cleared" /\ call'[p].new = new
          /\ call[p].new = new /\ \A c \in Procs : Clears(c, k)' => c = p
      BY <1>1, <1>2, <1>3, <1>9, <1>s, <1>t, <1>0
    <3> QED
      BY <1>k, <1>t, <3>1 DEF Holds, Settled
  <2>2. Settled(k, "send")' => Settled(k, "send")
    <3>1. Settled(k, "send")' => new = "ALLOC"
      BY <1>g, <2>1
    <3> QED
      BY <1>0, <1>k, <1>g, <3>1 DEF Settled
  <2>3. ASSUME NEW j \in Ports, NEW t \in Roles, j # k
        PROVE  (Holds(j, t)' <=> Holds(j, t)) /\ (Settled(j, t)' <=> Settled(j, t))
    <3>1. /\ porttab'[j] = porttab[j]
          /\ \A c \in Procs : Clears(c, j)' <=> Clears(c, j)
          /\ \A c \in Procs : Clears(c, j) => call'[c] = call[c]
      BY <1>1, <1>3, <1>9, <2>3
    <3> QED
      BY <3>1 DEF Holds, Settled
  <2> QED
    BY <2>1, <2>2, <2>3
<1>w. \A s \in Sems, q \in Procs : Waits(q, s)' =>
          /\ Waits(q, s) /\ s # h /\ q # p /\ call'[q] = call[q]
          /\ call[q].port # k
  <2> SUFFICES ASSUME NEW s \in Sems, NEW q \in Procs, Waits(q, s)'
               PROVE  /\ Waits(q, s) /\ s # h /\ q # p /\ call'[q] = call[q]
                      /\ call[q].port # k
    OBVIOUS
  <2>1. Waits(q, s) /\ s # h /\ q # p /\ call'[q] = call[q]
    BY <1>3, <1>4, <1>8
  <2>2. ASSUME call[q].port = k PROVE FALSE
    <3>1. call[q].at = "recv" /\ Gate(k, call[q].at) = s
      BY <1>s, <2>1, <2>2 DEF WaitInv
    <3> QED
      BY <1>g, <2>1, <3>1
  <2> QED
    BY <2>1, <2>2
<1>11. WaitInv'
  <2> SUFFICES ASSUME NEW s \in Sems, NEW q \in Procs, Waits(q, s)'
               PROVE  LET pt == porttab'[call'[q].port] IN
                      /\ q \notin dead'
                      /\ call'[q].at \in Roles
                      /\ Gate(call[q].port, call[q].at)' = s
                      /\ \/ pt.state = "ALLOC" /\ pt.seq = call'[q].seq
                         \/ /\ pt.state = "LIMBO" /\ pt.seq = call'[q].seq + 1
                            /\ call'[q].at = "recv"
    BY DEF WaitInv
  <2>1. Waits(q, s) /\ call'[q] = call[q]
    BY <1>w
  <2>2. Gate(call[q].port, call[q].at)' = Gate(call[q].port, call[q].at)
    BY <1>1, <2>1 DEF Gate
  <2> QED
    BY <1>1, <2>1, <2>2, ZenonT(60) DEF WaitInv
<1>12. HoldInv'
  <2>1. \A j \in Ports, t \in Roles : Holds(j, t)' => Holds(j, t)
    BY <1>10
  <2>2. \A s \in Sems, q \in Procs : Waits(q, s)' =>
            Waits(q, s) /\ call'[q].port = call[q].port /\ call'[q].at = call[q].at
    BY <1>w
  <2>3. ASSUME NEW j \in Ports, NEW t \in Roles, Holds(j, t)', Gate(j, t) # SYSERR
        PROVE  semtab'[Gate(j, t)].used = semtab[Gate(j, t)].used
    <3>1. Gate(j, t) \in Sems /\ Holds(j, t)
      BY <1>7, <2>1, <2>3
    <3>2. CASE new = "ALLOC"
      BY <1>4, <3>1, <3>2
    <3>3. CASE new # "ALLOC"
      <4>1. j # k
        BY <1>10, <2>3, <3>3
      <4>2. Gate(j, t) # h
        BY <1>s, <1>t, <1>g, <2>3, <3>1, <4>1 DEF HoldInv
      <4> QED
        BY <1>4, <3>1, <4>2
    <3> QED
      BY <3>2, <3>3
  <2> QED
    BY <1>7, <2>1, <2>2, <2>3, NarrowHold
<1>13. ClearInv'
  <2> SUFFICES ASSUME NEW c \in Procs, NEW j \in Ports, Clears(c, j)'
               PROVE  /\ porttab'[j].state = "LIMBO"
                      /\ porttab'[j].seq = call'[c].seq + 1
                      /\ \A d \in Procs : Clears(d, j)' => d = c
                      /\ call'[c].at = "cleared" =>
                            \A s \in Sems, q \in Procs : Waits(q, s)' => call'[q].port # j
    BY DEF ClearInv
  <2>1. Clears(c, j) /\ call'[c].seq = call[c].seq
    BY <1>2, <1>3, <1>9
  <2>2. /\ porttab[j].state = "LIMBO" /\ porttab[j].seq = call[c].seq + 1
        /\ \A d \in Procs : Clears(d, j) => d = c
    BY <2>1 DEF ClearInv
  <2>3. ASSUME call'[c].at = "cleared", NEW s \in Sems, NEW q \in Procs, Waits(q, s)'
        PROVE  call'[q].port # j
    <3>1. CASE j = k
      BY <1>w, <2>3, <3>1
    <3>2. CASE j # k
      <4>1. call[c].at = "cleared"
        BY <1>3, <1>9, <2>1, <2>3, <3>2
      <4> QED
        BY <1>w, <2>1, <2>3, <4>1 DEF ClearInv
    <3> QED
      BY <3>1, <3>2
  <2> QED
    BY <1>1, <1>9, <2>1, <2>2, <2>3
<1>15. CallInv'
  <2> SUFFICES ASSUME NEW q \in Procs, call'[q].at \in Roles
               PROVE  LET pt == porttab'[call'[q].port] IN
                      /\ call'[q].seq <= pt.seq
                      /\ pt.state # "ALLOC" => call'[q].seq < pt.seq
                      /\ call'[q].seq = pt.seq => Gate(call[q].port, call[q].at)' # SYSERR
                      /\ call'[q].at = "send" => call'[q].msg \in Msgs
    BY DEF CallInv
  <2>1. call'[q] = call[q]
    BY <1>3
  <2>2. Gate(call[q].port, call[q].at)' = Gate(call[q].port, call[q].at)
    BY <1>1, <2>1 DEF Gate
  <2> QED
    BY <1>1, <2>1, <2>2 DEF CallInv
<1>16. SizeInv' /\ NodeInv'
  BY <1>1 DEF SizeInv, NodeInv
<1>17. CountInv'
  <2> SUFFICES ASSUME NEW j \in Ports, NEW t \in Roles,
                      Settled(j, t)', Gate(j, t) # SYSERR
               PROVE  LET s == Gate(j, t)
                          m == Room(j, t) - Cardinality(Inside(j, t))
                      IN  IF lost THEN semtab'[s].count <= m ELSE semtab'[s].count = m
    BY <1>1, <1>3, <1>7 DEF CountInv
  <2>1. CASE j = k /\ t = "recv"
    <3>1. new = "ALLOC" /\ Gate(j, t) = h /\ semtab[h].used
      BY <1>10, <1>s, <1>g, <2>1 DEF HoldInv
    <3>2. semtab'[h].count = 0
      BY <1>4, <1>g, <2>1, <3>1
    <3>3. Room(j, t) = 0
      BY <1>g, <1>s, <2>1 DEF Room, SizeInv
    <3>4. Inside(j, t) = {}
      <4> SUFFICES ASSUME NEW q \in Procs, call[q].at = t, call[q].port = k,
                          call[q].seq = porttab[k].seq
                   PROVE  FALSE
        BY <2>1 DEF Inside
      <4>2. call[q].seq \in Nat /\ porttab[k].seq \in Nat /\ call[q].seq < porttab[k].seq
        BY <1>s, CallOlder
      <4> QED
        BY <4>2
    <3>5. Cardinality(Inside(j, t)) = 0
      BY <3>4, FS_EmptySet
    <3> QED
      BY <3>1, <3>2, <3>3, <3>5
  <2>2. CASE ~(j = k /\ t = "recv")
    <3>1. Settled(j, t) /\ Holds(j, t)
      <4>1. Settled(j, t)
        BY <1>10, <2>2 DEF Roles
      <4> QED
        BY <4>1 DEF Settled, Holds
    <3>2. Gate(j, t) # h /\ Gate(j, t) \in Sems
      BY <1>7, <1>s, <1>g, <1>t, <2>2, <3>1 DEF HoldInv
    <3>3. semtab'[Gate(j, t)] = semtab[Gate(j, t)]
      BY <1>4, <3>2
    <3> QED
      BY <3>1, <3>3 DEF CountInv
  <2> QED
    BY <2>1, <2>2
<1> QED
  BY <1>4, <1>6, <1>11, <1>12, <1>13, <1>15, <1>16, <1>17

\* The port leaves limbo: it is what the clearing process has kept for it.
LEMMA EndKeeps ==
  ASSUME PInv, NEW p \in Procs, ptclearEnd(p)
  PROVE  PInv'
<1> USE DEF PInv
<1>0. PICK k \in Ports, new \in {"FREE", "ALLOC"} : k = call[p].port /\ new = call[p].new
  <2>1. call[p] \in CallType
    BY Typed
  <2> QED
    BY <2>1 DEF CallType
<1>1. /\ p \notin dead /\ call[p].at = "cleared"
      /\ porttab' = [porttab EXCEPT ![k].state = new]
      /\ ptnextid' = IF new = "FREE" THEN k ELSE ptnextid
      /\ call' = [call EXCEPT ![p] = User]
      /\ semtab' = semtab /\ ptfree' = ptfree
      /\ nextsem' = nextsem /\ dead' = dead /\ lost' = lost
  BY <1>0 DEF ptclearEnd, Runs, lifeVars
<1>2. /\ porttab' \in [Ports -> PortType]
      /\ \A j \in Ports : /\ porttab'[j].seq = porttab[j].seq
                          /\ porttab'[j].ssem = porttab[j].ssem
                          /\ porttab'[j].rsem = porttab[j].rsem
                          /\ porttab'[j].maxcnt = porttab[j].maxcnt
                          /\ porttab'[j].msgs = porttab[j].msgs
                          /\ j # k => porttab'[j] = porttab[j]
      /\ porttab'[k].state = new
  <2>1. porttab \in [Ports -> PortType] /\ porttab[k] \in PortType
    BY Typed
  <2> DEFINE y == [porttab[k] EXCEPT !.state = new]
  <2>2. porttab' = [porttab EXCEPT ![k] = y]
    BY <1>1, <2>1
  <2>3. /\ y \in PortType /\ y.state = new /\ y.seq = porttab[k].seq
        /\ y.ssem = porttab[k].ssem /\ y.rsem = porttab[k].rsem
        /\ y.maxcnt = porttab[k].maxcnt /\ y.msgs = porttab[k].msgs
    BY <2>1 DEF PortType
  <2> HIDE DEF y
  <2> QED
    BY <2>1, <2>2, <2>3
<1>3. /\ call' \in [Procs -> CallType] /\ call'[p] = User
      /\ \A q \in Procs : q # p => call'[q] = call[q]
      /\ \A q \in Procs : call'[q].at \in Roles => q # p /\ call'[q] = call[q]
      /\ \A j \in Ports, t \in Roles : Inside(j, t)' = Inside(j, t)
  <2>1. call[p].at \notin Roles /\ User.at \notin Roles
    BY <1>1 DEF Roles, User
  <2> QED
    BY <1>1, <1>2, <2>1, UserTyped, OthersKept
<1>k. Clears(p, k)
  BY <1>0, <1>1 DEF Clears
<1>s. /\ porttab[k].state = "LIMBO" /\ porttab[k].seq = call[p].seq + 1
      /\ \A d \in Procs : Clears(d, k) => d = p
      /\ \A s \in Sems, q \in Procs : Waits(q, s) => call[q].port # k
  BY <1>1, <1>k DEF ClearInv
<1>6. TypeInv'
  <2>1. ptnextid' \in Ports
    BY <1>1, Typed
  <2> QED
    BY <1>1, <1>2, <1>3, <2>1, Typed, TypedNext
<1>7. /\ \A j \in Ports, t \in Roles : Gate(j, t)' = Gate(j, t) /\ Room(j, t)' = Room(j, t)
      /\ \A j \in Ports, t \in Roles : Gate(j, t) \in Sems \cup {SYSERR}
  BY <1>2, PortTypes DEF Gate, Room
<1>8. \A s \in Sems : ~Waits(p, s)
  BY <1>1 DEF WaitInv, Roles
<1>w. \A s \in Sems, q \in Procs : Waits(q, s)' =>
          Waits(q, s) /\ q # p /\ call'[q] = call[q] /\ call[q].port # k
  <2>1. \A s \in Sems, q \in Procs : Waits(q, s)' <=> Waits(q, s)
    BY <1>1 DEF Waits
  <2> QED
    BY <1>3, <1>8, <1>s, <2>1
<1>9. /\ \A c \in Procs : ~Clears(c, k)'
      /\ \A c \in Procs, j \in Ports : j # k => (Clears(c, j)' <=> Clears(c, j))
      /\ \A c \in Procs, j \in Ports : Clears(c, j) /\ j # k => c # p
  <2>1. User.at = "user"
    BY DEF User
  <2> QED
    BY <1>0, <1>1, <1>3, <1>s, <2>1 DEF Clears
<1>10. /\ \A t \in Roles : (Holds(k, t)' <=> Holds(k, t)) /\ (Settled(k, t)' => Settled(k, t))
       /\ \A j \in Ports, t \in Roles :
             j # k => (Holds(j, t)' <=> Holds(j, t)) /\ (Settled(j, t)' <=> Settled(j, t))
  <2>1. ASSUME NEW t \in Roles
        PROVE  (Holds(k, t)' <=> Holds(k, t)) /\ (Settled(k, t)' => Settled(k, t))
    <3>1. /\ Holds(k, t)' <=> new = "ALLOC"
          /\ Settled(k, t)' <=> new = "ALLOC"
      BY <1>2, <1>9 DEF Holds, Settled
    <3>2. Holds(k, t) <=> new = "ALLOC"
      BY <1>0, <1>1, <1>k, <1>s DEF Holds
    <3>3. new = "ALLOC" => Settled(k, t)
      BY <1>0, <1>1, <1>k DEF Settled
    <3> QED
      BY <3>1, <3>2, <3>3
  <2>2. ASSUME NEW j \in Ports, NEW t \in Roles, j # k
        PROVE  (Holds(j, t)' <=> Holds(j, t)) /\ (Settled(j, t)' <=> Settled(j, t))
    <3>1. /\ porttab'[j] = porttab[j]
          /\ \A c \in Procs : Clears(c, j)' <=> Clears(c, j)
          /\ \A c \in Procs : Clears(c, j) => call'[c] = call[c]
      BY <1>2, <1>3, <1>9, <2>2
    <3> QED
      BY <3>1 DEF Holds, Settled
  <2> QED
    BY <2>1, <2>2
<1>11. WaitInv'
  <2> SUFFICES ASSUME NEW s \in Sems, NEW q \in Procs, Waits(q, s)'
               PROVE  LET pt == porttab'[call'[q].port] IN
                      /\ q \notin dead'
                      /\ call'[q].at \in Roles
                      /\ Gate(call[q].port, call[q].at)' = s
                      /\ \/ pt.state = "ALLOC" /\ pt.seq = call'[q].seq
                         \/ /\ pt.state = "LIMBO" /\ pt.seq = call'[q].seq + 1
                            /\ call'[q].at = "recv"
    BY DEF WaitInv
  <2>1. Waits(q, s) /\ call'[q] = call[q] /\ call[q].port # k /\ call[q].port \in Ports
    BY <1>w, Typed DEF CallType
  <2>2. Gate(call[q].port, call[q].at)' = Gate(call[q].port, call[q].at)
    BY <1>2, <2>1 DEF Gate
  <2> QED
    BY <1>1, <1>2, <2>1, <2>2 DEF WaitInv
<1>12. HoldInv'
  <2>1. \A j \in Ports, t \in Roles : Holds(j, t)' => Holds(j, t)
    BY <1>10
  <2>2. \A s \in Sems, q \in Procs : Waits(q, s)' =>
            Waits(q, s) /\ call'[q].port = call[q].port /\ call'[q].at = call[q].at
    BY <1>w
  <2>3. \A j \in Ports, t \in Roles : Holds(j, t)' /\ Gate(j, t) # SYSERR =>
            semtab'[Gate(j, t)].used = semtab[Gate(j, t)].used
    BY <1>1
  <2> QED
    BY <1>7, <2>1, <2>2, <2>3, NarrowHold
<1>13. ClearInv'
  <2> SUFFICES ASSUME NEW c \in Procs, NEW j \in Ports, Clears(c, j)'
               PROVE  /\ porttab'[j].state = "LIMBO"
                      /\ porttab'[j].seq = call'[c].seq + 1
                      /\ \A d \in Procs : Clears(d, j)' => d = c
                      /\ call'[c].at = "cleared" =>
                            \A s \in Sems, q \in Procs : Waits(q, s)' => call'[q].port # j
    BY DEF ClearInv
  <2>1. Clears(c, j) /\ j # k /\ call'[c] = call[c] /\ porttab'[j] = porttab[j]
    BY <1>2, <1>3, <1>9
  <2>2. /\ porttab[j].state = "LIMBO" /\ porttab[j].seq = call[c].seq + 1
        /\ \A d \in Procs : Clears(d, j)' => d = c
    BY <1>9, <2>1 DEF ClearInv
  <2>3. ASSUME call'[c].at = "cleared", NEW s \in Sems, NEW q \in Procs, Waits(q, s)'
        PROVE  call'[q].port # j
    <3>1. Waits(q, s) /\ call'[q] = call[q]
      BY <1>w, <2>3
    <3> QED
      BY <2>1, <2>3, <3>1 DEF ClearInv
  <2> QED
    BY <2>1, <2>2, <2>3
<1>15. CallInv'
  <2> SUFFICES ASSUME NEW q \in Procs, call'[q].at \in Roles
               PROVE  LET pt == porttab'[call'[q].port] IN
                      /\ call'[q].seq <= pt.seq
                      /\ pt.state # "ALLOC" => call'[q].seq < pt.seq
                      /\ call'[q].seq = pt.seq => Gate(call[q].port, call[q].at)' # SYSERR
                      /\ call'[q].at = "send" => call'[q].msg \in Msgs
    BY DEF CallInv
  <2>1. call'[q] = call[q] /\ call[q].port \in Ports /\ call[q].at \in Roles
    BY <1>3, Typed DEF CallType
  <2>2. Gate(call[q].port, call[q].at)' = Gate(call[q].port, call[q].at)
    BY <1>2, <2>1 DEF Gate
  <2>3. porttab'[call[q].port].seq = porttab[call[q].port].seq
    BY <1>2, <2>1
  <2>4. CASE call[q].port = k
    BY <1>s, <2>1, <2>2, <2>3, <2>4 DEF CallInv
  <2>5. CASE call[q].port # k
    <3>1. porttab'[call[q].port] = porttab[call[q].port]
      BY <1>2, <2>1, <2>5
    <3> QED
      BY <2>1, <2>2, <3>1 DEF CallInv
  <2> QED
    BY <2>4, <2>5
<1>16. SizeInv'
  <2> SUFFICES ASSUME NEW j \in Ports
               PROVE  /\ porttab'[j].state # "ALLOC" => porttab'[j].msgs = << >>
                      /\ porttab'[j].state # "FREE" => porttab'[j].maxcnt \in Counts
                      /\ Len(porttab'[j].msgs) <= porttab'[j].maxcnt
    BY DEF SizeInv
  <2>1. CASE j = k
    BY <1>2, <1>s, <2>1 DEF SizeInv
  <2>2. CASE j # k
    BY <1>2, <2>2 DEF SizeInv
  <2> QED
    BY <2>1, <2>2
<1>17. CountInv'
  <2> SUFFICES ASSUME NEW j \in Ports, NEW t \in Roles,
                      Settled(j, t)', Gate(j, t) # SYSERR
               PROVE  LET s == Gate(j, t)
                          m == Room(j, t) - Cardinality(Inside(j, t))
                      IN  IF lost THEN semtab[s].count <= m ELSE semtab[s].count = m
    BY <1>1, <1>3, <1>7 DEF CountInv
  <2>1. Settled(j, t)
    BY <1>10
  <2> QED
    BY <2>1 DEF CountInv
<1>18. NodeInv' /\ SemsInv'
  <2>1. Len(porttab'[k].msgs) = Len(porttab[k].msgs) /\ Len(porttab[k].msgs) \in Nat
    BY <1>2, PortTypes
  <2>2. ptfree' \in Nat /\ ptfree' - ptfree = Len(porttab[k].msgs) - Len(porttab'[k].msgs)
    BY <1>1, <2>1, Typed
  <2>3. \A j \in Ports : porttab'[j].msgs = porttab[j].msgs
    BY <1>2
  <2>4. NodeInv'
    BY <1>2, <2>2, <2>3, NodesMove
  <2> QED
    BY <1>1, <2>4 DEF SemsInv
<1> QED
  BY <1>6, <1>11, <1>12, <1>13, <1>15, <1>16, <1>17, <1>18

----------------------------------------------------------------------------
\* Making a port.

\* newsem finds a semaphore that is not in use, or none.
LEMMA FreshSem ==
  ASSUME NEW tab, NEW at \in Sems
  PROVE  LET s == newsem(tab, at) IN
         s = SYSERR \/ (s \in Sems /\ ~tab[s].used)
<1> DEFINE free == {k \in 0..(NSEM - 1) : ~tab[(at + k) % NSEM].used}
           n == Min(free)
           s == (at + n) % NSEM
<1>1. CASE free = {}
  <2>1. newsem(tab, at) = SYSERR
    BY <1>1 DEF newsem
  <2> QED
    BY <2>1
<1>2. CASE free # {}
  <2>1. newsem(tab, at) = s
    BY <1>2 DEF newsem
  <2>2. n \in free
    <3>1. free \subseteq Nat
      BY PortsAssumption
    <3> QED
      BY <1>2, <3>1, LeastNat
  <2>3. n \in Nat /\ ~tab[s].used
    <3> HIDE DEF n
    <3> QED
      BY <2>2, PortsAssumption
  <2>4. s \in Sems
    <3>1. at + n \in Int /\ NSEM \in Nat \ {0}
      BY <2>3, PortsAssumption DEF Sems
    <3> DEFINE m == at + n
    <3> HIDE DEF m, n
    <3>2. m % NSEM \in 0..(NSEM - 1)
      BY <3>1 DEF m
    <3> QED
      BY <3>2 DEF m, Sems
  <2> QED
    BY <2>1, <2>3, <2>4
<1> QED
  BY <1>1, <1>2

\* The cursor stays in the table.
LEMMA CursorMoves ==
  ASSUME NEW at \in Sems, NEW s \in Sems \cup {SYSERR}
  PROVE  After(s, at) \in Sems
<1>1. CASE s = SYSERR
  BY <1>1 DEF After
<1>2. CASE s # SYSERR
  <2> DEFINE m == s + 1
  <2>1. m \in Int /\ NSEM \in Nat \ {0}
    BY <1>2, PortsAssumption DEF Sems
  <2>2. After(s, at) = m % NSEM
    BY <1>2 DEF After
  <2> HIDE DEF m
  <2>3. m % NSEM \in 0..(NSEM - 1)
    BY <2>1
  <2> QED
    BY <2>2, <2>3 DEF Sems
<1> QED
  BY <1>1, <1>2

\* The semaphores with one made for a port.
LEMMA CreatedTab ==
  ASSUME NEW tab \in [Sems -> SemType(Procs)], \A s \in Sems : SemSound(tab[s]),
         NEW h \in Sems \cup {SYSERR}, NEW n \in Nat
  PROVE  LET t == Created(tab, h, n) IN
         /\ t \in [Sems -> SemType(Procs)] /\ \A s \in Sems : SemSound(t[s])
         /\ \A s \in Sems : s # h => t[s] = tab[s]
         /\ h # SYSERR => t[h].used /\ t[h].count = n /\ \A q : ~Has(t[h].queue, q)
<1> DEFINE t == Created(tab, h, n)
           y == semcreate(n)
<1>1. SYSERR \notin Sems
  BY DEF Sems, SYSERR
<1>2. /\ y \in SemType(Procs) /\ SemSound(y) /\ y.used /\ y.count = n
      /\ \A q : ~Has(y.queue, q)
  BY NewSem, SameSem
<1> HIDE DEF y
<1>3. CASE h = SYSERR
  <2>1. t = tab
    BY <1>3 DEF Created
  <2> QED
    BY <1>1, <1>3, <2>1
<1>4. CASE h # SYSERR
  <2>1. t = [tab EXCEPT ![h] = y]
    BY <1>4 DEF Created, y
  <2> HIDE DEF t
  <2>2. t \in [Sems -> SemType(Procs)] /\ t[h] = y /\ \A s \in Sems : s # h => t[s] = tab[s]
    BY <1>2, <1>4, <2>1
  <2>3. \A s \in Sems : SemSound(t[s])
    BY <1>2, <2>2
  <2> QED
    BY <1>2, <2>2, <2>3 DEF t
<1> QED
  BY <1>3, <1>4

\* ptcreate: the new port's semaphores are nobody else's, and the calls on what
\* the entry was before are older than it is.
LEMMA CreateKeeps ==
  ASSUME PInv, NEW p \in Procs, NEW n \in Counts, ptcreate(p, n)
  PROVE  PInv'
<1> USE DEF PInv
<1>0. PICK k \in Ports, g \in Sems \cup {SYSERR}, h \in Sems \cup {SYSERR} : \E tab :
          /\ porttab[k].state = "FREE" /\ porttab[k].seq < MaxSeq
          /\ g = newsem(semtab, nextsem)
          /\ tab = Created(semtab, g, n)
          /\ h = newsem(tab, After(g, nextsem))
          /\ porttab' = [porttab EXCEPT ![k] =
                              [state |-> "ALLOC", ssem |-> g, rsem |-> h,
                               maxcnt |-> n, seq |-> @.seq + 1, msgs |-> << >>]]
          /\ semtab' = Created(tab, h, 0)
          /\ nextsem' = After(h, After(g, nextsem))
          /\ ptnextid' = (k + 1) % NPORTS
  <2>1. PICK i \in 0..(NPORTS - 1) :
         LET k == (ptnextid + i) % NPORTS
             s == newsem(semtab, nextsem)
             tab1 == Created(semtab, s, n)
             r == newsem(tab1, After(s, nextsem))
         IN  /\ porttab[k].state = "FREE"
             /\ porttab[k].seq < MaxSeq
             /\ porttab' = [porttab EXCEPT ![k] =
                              [state |-> "ALLOC", ssem |-> s, rsem |-> r,
                               maxcnt |-> n, seq |-> @.seq + 1, msgs |-> << >>]]
             /\ semtab' = Created(tab1, r, 0)
             /\ nextsem' = After(r, After(s, nextsem))
             /\ ptnextid' = (k + 1) % NPORTS
    BY DEF ptcreate
  <2> DEFINE m == ptnextid + i
             g == newsem(semtab, nextsem)
             tab == Created(semtab, g, n)
             h == newsem(tab, After(g, nextsem))
  <2>2. m % NPORTS \in Ports
    <3>1. m \in Int /\ NPORTS \in Nat \ {0}
      BY <2>1, Typed, PortsAssumption DEF Ports
    <3> HIDE DEF m
    <3>2. m % NPORTS \in 0..(NPORTS - 1)
      BY <3>1
    <3> QED
      BY <3>2 DEF Ports
  <2>3. g \in Sems \cup {SYSERR}
    BY Typed, FreshSem
  <2>4. h \in Sems \cup {SYSERR}
    <3>1. After(g, nextsem) \in Sems
      BY <2>3, Typed, CursorMoves
    <3> HIDE DEF g, tab
    <3> QED
      BY <3>1, FreshSem
  <2> HIDE DEF g, tab, h
  <2>5. LET k == m % NPORTS IN
        /\ porttab[k].state = "FREE" /\ porttab[k].seq < MaxSeq
        /\ porttab' = [porttab EXCEPT ![k] =
                              [state |-> "ALLOC", ssem |-> g, rsem |-> h,
                               maxcnt |-> n, seq |-> @.seq + 1, msgs |-> << >>]]
        /\ semtab' = Created(tab, h, 0)
        /\ nextsem' = After(h, After(g, nextsem))
        /\ ptnextid' = (k + 1) % NPORTS
    BY <2>1 DEF g, tab, h
  <2> HIDE DEF m
  <2>6. g = newsem(semtab, nextsem) /\ tab = Created(semtab, g, n)
        /\ h = newsem(tab, After(g, nextsem))
    BY DEF g, tab, h
  <2> QED
    BY <2>2, <2>3, <2>4, <2>5, <2>6
<1>1. PICK tab :
          /\ porttab[k].state = "FREE" /\ porttab[k].seq < MaxSeq
          /\ g = newsem(semtab, nextsem)
          /\ tab = Created(semtab, g, n)
          /\ h = newsem(tab, After(g, nextsem))
          /\ porttab' = [porttab EXCEPT ![k] =
                              [state |-> "ALLOC", ssem |-> g, rsem |-> h,
                               maxcnt |-> n, seq |-> @.seq + 1, msgs |-> << >>]]
          /\ semtab' = Created(tab, h, 0)
          /\ nextsem' = After(h, After(g, nextsem))
          /\ ptnextid' = (k + 1) % NPORTS
  BY <1>0
<1>2. /\ ptfree' = ptfree /\ call' = call /\ dead' = dead /\ lost' = lost
  BY DEF ptcreate, lifeVars
<1>t. /\ porttab[k].seq \in Nat /\ porttab[k].seq + 1 \in 0..MaxSeq
      /\ porttab \in [Ports -> PortType] /\ n \in Nat /\ n \in Counts \cup {0}
      /\ SYSERR \notin Sems /\ semtab \in [Sems -> SemType(Procs)]
      /\ \A s \in Sems : SemSound(semtab[s])
  <2>1. porttab[k].seq \in Nat
    BY PortTypes
  <2>2. porttab[k].seq + 1 \in 0..MaxSeq
    BY <1>1, <2>1, PortsAssumption
  <2>3. n \in Nat
    BY PortsAssumption
  <2> QED
    BY <2>1, <2>2, <2>3, Typed DEF Sems, SYSERR, SemsInv
<1>3. /\ porttab' \in [Ports -> PortType]
      /\ \A j \in Ports : j # k => porttab'[j] = porttab[j]
      /\ porttab'[k].state = "ALLOC" /\ porttab'[k].ssem = g /\ porttab'[k].rsem = h
      /\ porttab'[k].maxcnt = n /\ porttab'[k].seq = porttab[k].seq + 1
      /\ porttab'[k].msgs = << >>
  <2> DEFINE u == porttab[k].seq + 1
             v == << >>
             y == [state |-> "ALLOC", ssem |-> g, rsem |-> h,
                   maxcnt |-> n, seq |-> u, msgs |-> v]
  <2>1. porttab' = [porttab EXCEPT ![k] = y]
    BY <1>1, <1>t
  <2>2. u \in 0..MaxSeq /\ v \in Seq(Msgs)
    BY <1>t
  <2> HIDE DEF u, v
  <2>3. /\ y \in PortType /\ y.state = "ALLOC" /\ y.ssem = g /\ y.rsem = h
        /\ y.maxcnt = n /\ y.seq = u /\ y.msgs = v
    BY <1>1, <1>t, <2>2 DEF PortType
  <2> HIDE DEF y
  <2> QED
    BY <1>t, <2>1, <2>3 DEF u, v
<1>c. /\ tab \in [Sems -> SemType(Procs)] /\ \A s \in Sems : SemSound(tab[s])
      /\ \A s \in Sems : s # g => tab[s] = semtab[s]
      /\ g # SYSERR => tab[g].used /\ tab[g].count = n /\ \A q : ~Has(tab[g].queue, q)
  <2>1. LET t == Created(semtab, g, n) IN
        /\ t \in [Sems -> SemType(Procs)] /\ \A s \in Sems : SemSound(t[s])
        /\ \A s \in Sems : s # g => t[s] = semtab[s]
        /\ g # SYSERR => t[g].used /\ t[g].count = n /\ \A q : ~Has(t[g].queue, q)
    <3>1. /\ semtab \in [Sems -> SemType(Procs)] /\ n \in Nat
          /\ \A s \in Sems : SemSound(semtab[s])
      BY <1>t
    <3> QED
      BY <3>1, CreatedTab
  <2> QED
    BY <1>1, <2>1
<1>4. /\ g # SYSERR => g \in Sems /\ ~semtab[g].used
      /\ h # SYSERR => h \in Sems /\ ~semtab[h].used /\ h # g
  <2>1. g # SYSERR => g \in Sems /\ ~semtab[g].used
    BY <1>1, Typed, FreshSem
  <2>2. h # SYSERR => h \in Sems /\ ~tab[h].used
    <3>1. After(g, nextsem) \in Sems
      BY Typed, CursorMoves
    <3> QED
      BY <1>1, <3>1, FreshSem
  <2> QED
    BY <1>1, <1>c, <2>1, <2>2
<1>5. /\ semtab' \in [Sems -> SemType(Procs)] /\ SemsInv'
      /\ \A s \in Sems : s # g /\ s # h => semtab'[s] = semtab[s]
      /\ g # SYSERR => semtab'[g].used /\ semtab'[g].count = n
                       /\ \A q : ~Has(semtab'[g].queue, q)
      /\ h # SYSERR => semtab'[h].used /\ semtab'[h].count = 0
                       /\ \A q : ~Has(semtab'[h].queue, q)
  <2>2. LET t == Created(tab, h, 0) IN
        /\ t \in [Sems -> SemType(Procs)] /\ \A s \in Sems : SemSound(t[s])
        /\ \A s \in Sems : s # h => t[s] = tab[s]
        /\ h # SYSERR => t[h].used /\ t[h].count = 0 /\ \A q : ~Has(t[h].queue, q)
    <3>1. 0 \in Nat
      OBVIOUS
    <3> QED
      BY <1>c, <3>1, CreatedTab, ZenonT(60)
  <2>3. /\ semtab' \in [Sems -> SemType(Procs)] /\ \A s \in Sems : SemSound(semtab'[s])
        /\ \A s \in Sems : s # h => semtab'[s] = tab[s]
        /\ h # SYSERR => semtab'[h].used /\ semtab'[h].count = 0
                         /\ \A q : ~Has(semtab'[h].queue, q)
    BY <1>1, <2>2
  <2>4. g # SYSERR => semtab'[g] = tab[g]
    BY <1>4, <2>3
  <2> QED
    BY <1>c, <2>3, <2>4 DEF SemsInv
<1>w. \A s \in Sems, q \in Procs : Waits(q, s)' =>
          Waits(q, s) /\ s # g /\ s # h /\ call[q].port # k
  <2> SUFFICES ASSUME NEW s \in Sems, NEW q \in Procs, Waits(q, s)'
               PROVE  Waits(q, s) /\ s # g /\ s # h /\ call[q].port # k
    OBVIOUS
  <2>1. Waits(q, s) /\ s # g /\ s # h
    BY <1>5, <1>t DEF Waits
  <2>2. call[q].port # k
    BY <1>1, <2>1 DEF WaitInv
  <2> QED
    BY <2>1, <2>2
<1>6. TypeInv'
  <2> DEFINE m == k + 1
  <2>1. ptnextid' \in Ports
    <3>1. m \in Int /\ NPORTS \in Nat \ {0} /\ ptnextid' = m % NPORTS
      BY <1>1, PortsAssumption DEF Ports
    <3> HIDE DEF m
    <3>2. m % NPORTS \in 0..(NPORTS - 1)
      BY <3>1
    <3> QED
      BY <3>1, <3>2 DEF Ports
  <2>2. nextsem' \in Sems
    BY <1>1, Typed, CursorMoves
  <2> QED
    BY <1>2, <1>3, <1>5, <2>1, <2>2, Typed, TypedNext
<1>r. /\ \A r \in Roles : r = "send" \/ r = "recv"
      /\ "send" \in Roles /\ "recv" \in Roles /\ "send" # "recv"
  BY DEF Roles
<1>7. /\ \A j \in Ports, t \in Roles : j # k => Gate(j, t)' = Gate(j, t)
                                              /\ Room(j, t)' = Room(j, t)
      /\ Gate(k, "send")' = g /\ Gate(k, "recv")' = h
      /\ Room(k, "send")' = n /\ Room(k, "recv")' = 0
      /\ \A j \in Ports, t \in Roles : Gate(j, t) \in Sems \cup {SYSERR}
  <2>1. n - Len(<< >>) = n /\ Len(<< >>) = 0
    BY <1>t
  <2> QED
    BY <1>3, <2>1, PortTypes DEF Gate, Room
<1>8. \A c \in Procs, j \in Ports : (Clears(c, j)' <=> Clears(c, j)) /\ (Clears(c, j) => j # k)
  BY <1>1, <1>2 DEF Clears, ClearInv
<1>9. \A j \in Ports, t \in Roles :
          j # k => (Holds(j, t)' <=> Holds(j, t)) /\ (Settled(j, t)' <=> Settled(j, t))
  <2> SUFFICES ASSUME NEW j \in Ports, NEW t \in Roles, j # k
               PROVE  (Holds(j, t)' <=> Holds(j, t)) /\ (Settled(j, t)' <=> Settled(j, t))
    OBVIOUS
  <2>1. porttab'[j] = porttab[j] /\ \A c \in Procs : Clears(c, j)' <=> Clears(c, j)
    BY <1>3, <1>8
  <2> QED
    BY <1>2, <2>1 DEF Holds, Settled
<1>10. \A j \in Ports, t \in Roles : Holds(j, t) /\ Gate(j, t) # SYSERR =>
          Gate(j, t) # g /\ Gate(j, t) # h /\ Gate(j, t) \in Sems
  <2> SUFFICES ASSUME NEW j \in Ports, NEW t \in Roles, Holds(j, t), Gate(j, t) # SYSERR
               PROVE  Gate(j, t) # g /\ Gate(j, t) # h /\ Gate(j, t) \in Sems
    OBVIOUS
  <2>1. semtab[Gate(j, t)].used
    BY DEF HoldInv
  <2> QED
    BY <1>4, <1>7, <2>1
<1>11. WaitInv'
  <2> SUFFICES ASSUME NEW s \in Sems, NEW q \in Procs, Waits(q, s)'
               PROVE  LET pt == porttab'[call'[q].port] IN
                      /\ q \notin dead'
                      /\ call'[q].at \in Roles
                      /\ Gate(call[q].port, call[q].at)' = s
                      /\ \/ pt.state = "ALLOC" /\ pt.seq = call'[q].seq
                         \/ /\ pt.state = "LIMBO" /\ pt.seq = call'[q].seq + 1
                            /\ call'[q].at = "recv"
    BY DEF WaitInv
  <2>1. Waits(q, s) /\ call[q].port # k /\ call[q].port \in Ports
    BY <1>w, Typed DEF CallType
  <2>2. porttab'[call[q].port] = porttab[call[q].port]
    BY <1>3, <2>1
  <2>3. Gate(call[q].port, call[q].at)' = Gate(call[q].port, call[q].at)
    BY <1>2, <2>2 DEF Gate
  <2> QED
    BY <1>2, <2>1, <2>2, <2>3 DEF WaitInv
<1>12. HoldInv'
  <2> SUFFICES ASSUME NEW j \in Ports, NEW r \in Roles, Holds(j, r)', Gate(j, r)' # SYSERR
               PROVE  /\ semtab'[Gate(j, r)'].used
                      /\ \A q \in Procs : Has(semtab'[Gate(j, r)'].queue, q) =>
                            call'[q].port = j /\ call'[q].at = r
                      /\ \A i \in Ports, t \in Roles :
                            Holds(i, t)' /\ Gate(i, t)' = Gate(j, r)' => i = j /\ t = r
    BY DEF HoldInv, Waits
  <2>1. CASE j = k
    <3> DEFINE s == Gate(j, r)'
    <3>1. s = g \/ s = h
      BY <1>7, <1>r, <2>1
    <3>2. semtab'[s].used /\ \A q : ~Has(semtab'[s].queue, q)
      BY <1>5, <3>1
    <3>3. ASSUME NEW i \in Ports, NEW t \in Roles, Holds(i, t)', Gate(i, t)' = s
          PROVE  i = j /\ t = r
      <4>1. i = k
        BY <1>7, <1>9, <1>10, <3>1, <3>3
      <4>2. t = r
        BY <1>4, <1>7, <1>r, <2>1, <3>3, <4>1
      <4> QED
        BY <2>1, <4>1, <4>2
    <3> QED
      BY <3>2, <3>3
  <2>2. CASE j # k
    <3> DEFINE s == Gate(j, r)
    <3>1. Holds(j, r) /\ Gate(j, r)' = s /\ s # SYSERR
      BY <1>7, <1>9, <2>2
    <3>2. s # g /\ s # h /\ s \in Sems /\ semtab'[s] = semtab[s]
      BY <1>5, <1>10, <3>1
    <3>3. /\ semtab[s].used
          /\ \A q \in Procs : Waits(q, s) => call[q].port = j /\ call[q].at = r
          /\ \A i \in Ports, t \in Roles : Holds(i, t) /\ Gate(i, t) = s => i = j /\ t = r
      BY <3>1 DEF HoldInv
    <3>4. ASSUME NEW i \in Ports, NEW t \in Roles, Holds(i, t)', Gate(i, t)' = s
          PROVE  i = j /\ t = r
      <4>1. i # k
        BY <1>7, <1>r, <3>2, <3>4
      <4> QED
        BY <1>7, <1>9, <3>3, <3>4, <4>1
    <3> HIDE DEF s
    <3> QED
      BY <1>2, <3>1, <3>2, <3>3, <3>4 DEF Waits
  <2> QED
    BY <2>1, <2>2
<1>13. ClearInv'
  <2> SUFFICES ASSUME NEW c \in Procs, NEW j \in Ports, Clears(c, j)'
               PROVE  /\ porttab'[j].state = "LIMBO"
                      /\ porttab'[j].seq = call'[c].seq + 1
                      /\ \A d \in Procs : Clears(d, j)' => d = c
                      /\ call'[c].at = "cleared" =>
                            \A s \in Sems, q \in Procs : Waits(q, s)' => call'[q].port # j
    BY DEF ClearInv
  <2>1. Clears(c, j) /\ j # k /\ porttab'[j] = porttab[j]
    BY <1>3, <1>8
  <2>2. /\ porttab[j].state = "LIMBO" /\ porttab[j].seq = call[c].seq + 1
        /\ \A d \in Procs : Clears(d, j)' => d = c
        /\ call[c].at = "cleared" =>
              \A s \in Sems, q \in Procs : Waits(q, s) => call[q].port # j
    BY <1>8, <2>1 DEF ClearInv
  <2>3. \A s \in Sems, q \in Procs : Waits(q, s)' => Waits(q, s)
    BY <1>w
  <2> QED
    BY <1>2, <2>1, <2>2, <2>3
<1>15. CallInv'
  <2> SUFFICES ASSUME NEW q \in Procs, call'[q].at \in Roles
               PROVE  LET pt == porttab'[call'[q].port] IN
                      /\ call'[q].seq <= pt.seq
                      /\ pt.state # "ALLOC" => call'[q].seq < pt.seq
                      /\ call'[q].seq = pt.seq => Gate(call[q].port, call[q].at)' # SYSERR
                      /\ call'[q].at = "send" => call'[q].msg \in Msgs
    BY DEF CallInv
  <2>1. call'[q] = call[q] /\ call[q].at \in Roles
    BY <1>2
  <2>2. /\ call[q].port \in Ports /\ call[q].seq \in Nat
        /\ porttab[call[q].port].seq \in Nat
        /\ call[q].seq <= porttab[call[q].port].seq
    BY <2>1, CallOlder
  <2>3. CASE call[q].port = k
    <3>1. porttab'[call'[q].port].seq = porttab[call[q].port].seq + 1
      BY <1>3, <2>1, <2>3
    <3>2. call'[q].seq < porttab'[call'[q].port].seq
      BY <2>1, <2>2, <3>1
    <3>3. call'[q].seq \in Nat /\ porttab'[call'[q].port].seq \in Nat
      BY <2>1, <2>2, <3>1
    <3> QED
      BY <2>1, <3>2, <3>3 DEF CallInv
  <2>4. CASE call[q].port # k
    <3>1. porttab'[call[q].port] = porttab[call[q].port]
      BY <1>3, <2>2, <2>4
    <3>2. Gate(call[q].port, call[q].at)' = Gate(call[q].port, call[q].at)
      BY <1>2, <3>1 DEF Gate
    <3> QED
      BY <2>1, <3>1, <3>2 DEF CallInv
  <2> QED
    BY <2>3, <2>4
<1>16. SizeInv'
  <2> SUFFICES ASSUME NEW j \in Ports
               PROVE  /\ porttab'[j].state # "ALLOC" => porttab'[j].msgs = << >>
                      /\ porttab'[j].state # "FREE" => porttab'[j].maxcnt \in Counts
                      /\ Len(porttab'[j].msgs) <= porttab'[j].maxcnt
    BY DEF SizeInv
  <2>1. CASE j = k
    <3>1. Len(<< >>) = 0 /\ 0 <= n
      BY <1>t
    <3> QED
      BY <1>3, <2>1, <3>1
  <2>2. CASE j # k
    BY <1>3, <2>2 DEF SizeInv
  <2> QED
    BY <2>1, <2>2
<1>17. CountInv'
  <2> SUFFICES ASSUME NEW j \in Ports, NEW t \in Roles,
                      Settled(j, t)', Gate(j, t)' # SYSERR
               PROVE  LET s == Gate(j, t)'
                          m == Room(j, t)' - Cardinality(Inside(j, t)')
                      IN  IF lost THEN semtab'[s].count <= m ELSE semtab'[s].count = m
    BY <1>2 DEF CountInv
  <2>1. CASE j = k
    <3>1. Inside(j, t)' = {}
      <4> SUFFICES ASSUME NEW q \in Procs, call[q].at = t, call[q].port = k,
                          call[q].seq = porttab'[k].seq
                   PROVE  FALSE
        BY <1>2, <2>1 DEF Inside
      <4>1. call[q].seq \in Nat /\ porttab[k].seq \in Nat /\ call[q].seq <= porttab[k].seq
        BY CallOlder
      <4> QED
        BY <1>3, <4>1
    <3>2. Cardinality(Inside(j, t)') = 0
      BY <3>1, FS_EmptySet
    <3>3. /\ semtab'[Gate(j, t)'].count = Room(j, t)'
          /\ Room(j, t)' \in Int
      BY <1>5, <1>7, <1>r, <1>t, <2>1
    <3> DEFINE u == Room(j, t)'
               v == semtab'[Gate(j, t)'].count
               m == Cardinality(Inside(j, t)')
    <3> HIDE DEF u, v, m
    <3>4. IF lost THEN v <= u - m ELSE v = u - m
      BY <3>2, <3>3 DEF u, v, m
    <3> QED
      BY <3>4 DEF u, v, m
  <2>2. CASE j # k
    <3>1. Settled(j, t) /\ Holds(j, t)
      <4>1. Settled(j, t)
        BY <1>9, <2>2
      <4> QED
        BY <4>1 DEF Settled, Holds
    <3>2. Gate(j, t)' = Gate(j, t) /\ Room(j, t)' = Room(j, t)
      BY <1>7, <2>2
    <3>3. semtab'[Gate(j, t)] = semtab[Gate(j, t)]
      BY <1>5, <1>10, <3>1, <3>2
    <3>4. Inside(j, t)' = Inside(j, t)
      BY <1>2, <1>3, <2>2 DEF Inside
    <3> QED
      BY <3>1, <3>2, <3>3, <3>4 DEF CountInv
  <2> QED
    BY <2>1, <2>2
<1>18. NodeInv'
  <2>1. Len(porttab[k].msgs) = 0 /\ Len(porttab'[k].msgs) = 0
    BY <1>1, <1>3 DEF SizeInv
  <2>2. ptfree' \in Nat /\ ptfree' - ptfree = Len(porttab[k].msgs) - Len(porttab'[k].msgs)
    BY <1>2, <2>1, Typed
  <2> QED
    BY <1>3, <2>2, NodesMove
<1> QED
  BY <1>5, <1>6, <1>11, <1>12, <1>13, <1>15, <1>16, <1>17, <1>18

----------------------------------------------------------------------------
\* kill.

\* A process that is killed leaves the queue it is in; when it was released
\* already, what it was released for is lost.
LEMMA KillKeeps ==
  ASSUME PInv, NEW p \in Procs, kill(p)
  PROVE  PInv'
<1> USE DEF PInv
<1>1. /\ p \notin dead /\ dead' = dead \cup {p}
      /\ lost' = (lost \/ (call[p].at # "user" /\ ~Blocked(p)))
      /\ semtab' = [s \in Sems |-> IF Queued(semtab[s], p) THEN Unwait(semtab[s], p)
                                   ELSE semtab[s]]
      /\ porttab' = porttab /\ ptfree' = ptfree /\ ptnextid' = ptnextid
      /\ nextsem' = nextsem /\ call' = call
  BY DEF kill
<1>2. semtab \in [Sems -> SemType(Procs)] /\ \A s \in Sems : SemSound(semtab[s])
  BY Typed DEF SemsInv
<1>3. ASSUME NEW s \in Sems
      PROVE  /\ semtab'[s] \in SemType(Procs) /\ SemSound(semtab'[s])
             /\ semtab'[s].used = semtab[s].used
             /\ semtab'[s].count = semtab[s].count + (IF Waits(p, s) THEN 1 ELSE 0)
             /\ \A q : Has(semtab'[s].queue, q) <=> Has(semtab[s].queue, q) /\ q # p
  <2>1. semtab[s] \in SemType(Procs) /\ SemSound(semtab[s]) /\ (Queued(semtab[s], p) <=> Waits(p, s))
    BY <1>2, BlockedWaits
  <2>2. CASE Waits(p, s)
    <3>1. semtab'[s] = Unwait(semtab[s], p)
      BY <1>1, <2>1, <2>2
    <3>2. LET y == Unwait(semtab[s], p) IN
          /\ y \in SemType(Procs) /\ SemSound(y) /\ y.used = semtab[s].used
          /\ y.count = semtab[s].count + 1
          /\ \A q : Has(y.queue, q) <=> Has(semtab[s].queue, q) /\ q # p
      BY <2>1, <2>2, UnwaitSem, SameSem DEF Waits
    <3> QED
      BY <2>2, <3>1, <3>2
  <2>3. CASE ~Waits(p, s)
    <3>1. semtab'[s] = semtab[s] /\ ~Has(semtab[s].queue, p)
      BY <1>1, <2>1, <2>3 DEF Waits
    <3>2. semtab[s].count + 0 = semtab[s].count
      BY <2>1 DEF SemType
    <3> QED
      BY <2>1, <2>3, <3>1, <3>2
  <2> QED
    BY <2>2, <2>3
<1>4. /\ semtab' \in [Sems -> SemType(Procs)] /\ SemsInv'
      /\ \A s \in Sems, q \in Procs : Waits(q, s)' <=> Waits(q, s) /\ q # p
  <2>1. \A s \in Sems, q \in Procs : Waits(q, s)' <=> Waits(q, s) /\ q # p
    BY <1>3 DEF Waits
  <2>2. SemsInv'
    BY <1>3 DEF SemsInv
  <2>3. semtab' \in [Sems -> SemType(Procs)]
    <3>1. DOMAIN semtab' = Sems /\ semtab' = [s \in Sems |-> semtab'[s]]
      BY <1>1
    <3> QED
      BY <1>3, <3>1
  <2> QED
    BY <2>1, <2>2, <2>3
<1>5. lost' \in BOOLEAN /\ (lost => lost') /\ dead' \in SUBSET Procs
  BY <1>1, Typed
<1>6. TypeInv'
  BY <1>1, <1>4, <1>5, Typed, TypedNext
<1>7. /\ \A j \in Ports, t \in Roles : Gate(j, t)' = Gate(j, t) /\ Room(j, t)' = Room(j, t)
      /\ \A j \in Ports, t \in Roles : Gate(j, t) \in Sems \cup {SYSERR}
      /\ \A j \in Ports, t \in Roles : Inside(j, t)' = Inside(j, t) \ {p}
  BY <1>1, PortTypes DEF Gate, Room, Inside
<1>8. \A c \in Procs, j \in Ports : Clears(c, j)' <=> Clears(c, j) /\ c # p
  BY <1>1 DEF Clears
<1>9. \A j \in Ports, t \in Roles :
         (Holds(j, t)' => Holds(j, t)) /\ (Settled(j, t)' => Settled(j, t))
  BY <1>1, <1>8 DEF Holds, Settled
<1>11. WaitInv'
  <2> SUFFICES ASSUME NEW s \in Sems, NEW q \in Procs, Waits(q, s)'
               PROVE  LET pt == porttab'[call'[q].port] IN
                      /\ q \notin dead'
                      /\ call'[q].at \in Roles
                      /\ Gate(call[q].port, call[q].at)' = s
                      /\ \/ pt.state = "ALLOC" /\ pt.seq = call'[q].seq
                         \/ /\ pt.state = "LIMBO" /\ pt.seq = call'[q].seq + 1
                            /\ call'[q].at = "recv"
    BY DEF WaitInv
  <2>1. Waits(q, s) /\ q # p
    BY <1>4
  <2>2. Gate(call[q].port, call[q].at)' = Gate(call[q].port, call[q].at)
    BY <1>1 DEF Gate
  <2> QED
    BY <1>1, <2>1, <2>2 DEF WaitInv
<1>12. HoldInv'
  <2>1. \A j \in Ports, t \in Roles : Holds(j, t)' => Holds(j, t)
    BY <1>9
  <2>2. \A s \in Sems, q \in Procs : Waits(q, s)' =>
            Waits(q, s) /\ call'[q].port = call[q].port /\ call'[q].at = call[q].at
    BY <1>1, <1>4
  <2>3. \A j \in Ports, t \in Roles : Holds(j, t)' /\ Gate(j, t) # SYSERR =>
            semtab'[Gate(j, t)].used = semtab[Gate(j, t)].used
    BY <1>3, <1>7
  <2> QED
    BY <1>7, <2>1, <2>2, <2>3, NarrowHold
<1>13. ClearInv'
  <2> SUFFICES ASSUME NEW c \in Procs, NEW j \in Ports, Clears(c, j)'
               PROVE  /\ porttab'[j].state = "LIMBO"
                      /\ porttab'[j].seq = call'[c].seq + 1
                      /\ \A d \in Procs : Clears(d, j)' => d = c
                      /\ call'[c].at = "cleared" =>
                            \A s \in Sems, q \in Procs : Waits(q, s)' => call'[q].port # j
    BY DEF ClearInv
  <2>1. Clears(c, j) /\ \A d \in Procs : Clears(d, j)' => Clears(d, j)
    BY <1>8
  <2>2. /\ porttab[j].state = "LIMBO" /\ porttab[j].seq = call[c].seq + 1
        /\ \A d \in Procs : Clears(d, j) => d = c
        /\ call[c].at = "cleared" =>
              \A s \in Sems, q \in Procs : Waits(q, s) => call[q].port # j
    BY <2>1 DEF ClearInv
  <2> QED
    BY <1>1, <1>4, <2>1, <2>2
<1>15. CallInv'
  <2> SUFFICES ASSUME NEW q \in Procs, call'[q].at \in Roles
               PROVE  LET pt == porttab'[call'[q].port] IN
                      /\ call'[q].seq <= pt.seq
                      /\ pt.state # "ALLOC" => call'[q].seq < pt.seq
                      /\ call'[q].seq = pt.seq => Gate(call[q].port, call[q].at)' # SYSERR
                      /\ call'[q].at = "send" => call'[q].msg \in Msgs
    BY DEF CallInv
  <2>1. Gate(call[q].port, call[q].at)' = Gate(call[q].port, call[q].at)
    BY <1>1 DEF Gate
  <2> QED
    BY <1>1, <2>1 DEF CallInv
<1>16. SizeInv' /\ NodeInv'
  BY <1>1 DEF SizeInv, NodeInv
<1>17. CountInv'
  <2> SUFFICES ASSUME NEW j \in Ports, NEW t \in Roles,
                      Settled(j, t)', Gate(j, t) # SYSERR
               PROVE  LET s == Gate(j, t)
                          m == Room(j, t) - Cardinality(Inside(j, t) \ {p})
                      IN  IF lost' THEN semtab'[s].count <= m ELSE semtab'[s].count = m
    BY <1>7 DEF CountInv
  <2> DEFINE s == Gate(j, t)
             S == Inside(j, t)
             a == Cardinality(S)
             b == Cardinality(S \ {p})
             u == Room(j, t)
             y == semtab[s].count
             z == semtab'[s].count
  <2>1. Settled(j, t) /\ Holds(j, t) /\ s \in Sems
    <3>1. Settled(j, t)
      BY <1>9
    <3> QED
      BY <1>7, <3>1 DEF Settled, Holds
  <2>2. IF lost THEN y <= u - a ELSE y = u - a
    BY <2>1 DEF CountInv
  <2>3. S \in SUBSET Procs /\ IsFiniteSet(S) /\ a \in Nat /\ b \in Nat
    <3>1. S \in SUBSET Procs /\ S \ {p} \in SUBSET Procs
      BY DEF Inside
    <3> QED
      BY <3>1, ProcsFinite
  <2>4. y \in Int /\ z \in Int /\ u \in Int /\ z = y + (IF Waits(p, s) THEN 1 ELSE 0)
    BY <1>2, <1>3, <2>1, PortTypes DEF SemType
  <2>5. /\ p \in S => b = a - 1
        /\ p \notin S => b = a
    <3> HIDE DEF S
    <3>1. Cardinality(S \ {p}) = IF p \in S THEN Cardinality(S) - 1 ELSE Cardinality(S)
      BY <2>3, FS_RemoveElement
    <3> QED
      BY <3>1
  <2>6. Waits(p, s) => p \in S
    <3> SUFFICES ASSUME Waits(p, s) PROVE p \in S
      OBVIOUS
    <3>1. call[p].port = j /\ call[p].at = t
      BY <2>1 DEF HoldInv
    <3>2. /\ p \notin dead
          /\ \/ porttab[j].state = "ALLOC" /\ porttab[j].seq = call[p].seq
             \/ porttab[j].state = "LIMBO" /\ t = "recv"
      BY <2>1, <3>1 DEF WaitInv
    <3>3. CASE porttab[j].state = "LIMBO" /\ t = "recv"
      <4>1. PICK c \in Procs : Clears(c, j) /\ call[c].at = "cleared"
        BY <2>1, <3>3 DEF Settled
      <4> QED
        BY <2>1, <3>1, <4>1 DEF ClearInv
    <3> QED
      BY <3>1, <3>2, <3>3 DEF Inside
  <2>7. p \in S /\ ~Waits(p, s) => lost'
    <3> SUFFICES ASSUME p \in S, ~Waits(p, s) PROVE lost'
      OBVIOUS
    <3>1. call[p].at = t /\ call[p].port = j /\ t # "user"
      BY DEF Inside, Roles
    <3>2. ~Blocked(p)
      <4> SUFFICES ASSUME NEW w \in Sems, Waits(p, w) PROVE FALSE
        BY BlockedWaits
      <4>1. Gate(call[p].port, call[p].at) = w
        BY DEF WaitInv
      <4> QED
        BY <3>1, <4>1
    <3> QED
      BY <1>1, <3>1, <3>2
  <2> HIDE DEF s, S, a, b, u, y, z
  <2>8. IF lost' THEN z <= u - b ELSE z = u - b
    <3>1. CASE Waits(p, s)
      <4>1. b = a - 1 /\ z = y + 1
        BY <2>4, <2>5, <2>6, <3>1
      <4> QED
        BY <1>5, <2>2, <2>3, <2>4, <4>1
    <3>2. CASE ~Waits(p, s) /\ p \in S
      <4>1. b = a - 1 /\ z = y /\ lost'
        BY <2>4, <2>5, <2>7, <3>2
      <4> QED
        BY <1>5, <2>2, <2>3, <2>4, <4>1
    <3>3. CASE ~Waits(p, s) /\ p \notin S
      <4>1. b = a /\ z = y
        BY <2>4, <2>5, <3>3
      <4> QED
        BY <1>5, <2>2, <2>3, <2>4, <4>1
    <3> QED
      BY <3>1, <3>2, <3>3
  <2> QED
    BY <2>8 DEF s, S, b, u, z
<1> QED
  BY <1>4, <1>6, <1>11, <1>12, <1>13, <1>15, <1>16, <1>17

----------------------------------------------------------------------------
\* At the start.
LEMMA InitSound ==
  Init => PInv /\ ~crashed
<1> SUFFICES ASSUME Init PROVE PInv /\ ~crashed
  OBVIOUS
<1>1. /\ \A k \in Ports : /\ porttab[k].state = "FREE" /\ porttab[k].msgs = << >>
                          /\ porttab[k].maxcnt = 0
      /\ \A s \in Sems : semtab[s] = NoSem
      /\ \A q \in Procs : call[q] = User
      /\ User.at = "user" /\ ptfree = PT_MSGS /\ ~crashed
  BY DEF Init, User
<1>2. NoSem \in SemType(Procs) /\ SemSound(NoSem) /\ \A q : ~Has(NoSem.queue, q)
  BY NewSem, SameSem
<1>3. 0 \in Ports /\ 0 \in Sems /\ 0 \in 0..MaxSeq /\ Len(<< >>) = 0 /\ << >> \in Seq(Msgs)
  BY PortsAssumption DEF Ports, Sems
<1>4. porttab \in [Ports -> PortType]
  <2> DEFINE y == [state |-> "FREE", ssem |-> SYSERR, rsem |-> SYSERR, maxcnt |-> 0,
                   seq |-> 0, msgs |-> << >>]
  <2>1. y \in PortType
    BY <1>3 DEF PortType
  <2> HIDE DEF y
  <2>2. porttab = [k \in Ports |-> y]
    BY DEF Init, y
  <2> QED
    BY <2>1, <2>2
<1>5. TypeInv
  <2>1. semtab \in [Sems -> SemType(Procs)] /\ call \in [Procs -> CallType]
    BY <1>2, UserTyped DEF Init
  <2> QED
    BY <1>3, <1>4, <2>1, Typed, PortsAssumption DEF Init
<1>6. \A s \in Sems, q \in Procs : ~Waits(q, s)
  BY <1>1, <1>2 DEF Waits
<1>7. \A c \in Procs, k \in Ports : ~Clears(c, k)
  BY <1>1 DEF Clears
<1>8. \A k \in Ports, r \in Roles : ~Holds(k, r) /\ ~Settled(k, r)
  BY <1>1, <1>7 DEF Holds, Settled
<1>9. SemsInv /\ WaitInv /\ HoldInv /\ ClearInv /\ CountInv
  BY <1>1, <1>2, <1>6, <1>7, <1>8 DEF SemsInv, WaitInv, HoldInv, ClearInv, CountInv
<1>10. CallInv
  BY <1>1 DEF CallInv, Roles
<1>11. SizeInv
  BY <1>1, <1>3 DEF SizeInv
<1>12. NodeInv
  <2> DEFINE A == {n \in Nat : Filled(porttab, n) = 0}
  <2>0. NPORTS \in Nat /\ 0 \in Nat
    BY PortsAssumption
  <2>1. 0 \in A
    BY FilledSteps
  <2>2. ASSUME NEW n \in 0..(NPORTS - 1), n \in A PROVE n + 1 \in A
    <3>1. n \in Nat /\ n + 1 \in Nat /\ n + 1 > 0 /\ (n + 1) - 1 = n
          /\ 0..((n + 1) - 1) \subseteq Ports /\ n \in Ports
      BY <2>0 DEF Ports
    <3>2. \A k \in 0..((n + 1) - 1) : Len(porttab[k].msgs) \in Int
      BY <1>1, <1>3, <3>1
    <3>3. Filled(porttab, n + 1) = Filled(porttab, (n + 1) - 1) + Len(porttab[(n + 1) - 1].msgs)
      BY <3>1, <3>2, FilledSteps
    <3>4. Filled(porttab, n) = 0 /\ Len(porttab[n].msgs) = 0
      BY <1>1, <1>3, <2>2, <3>1
    <3> QED
      BY <3>1, <3>3, <3>4
  <2> HIDE DEF A
  <2>3. \A n \in 0..NPORTS : n \in A
    BY <2>0, <2>1, <2>2, StepsReach
  <2>4. NPORTS \in A
    BY <2>0, <2>3
  <2>5. Filled(porttab, NPORTS) = 0
    BY <2>4 DEF A
  <2> QED
    BY <1>1, <2>5, PortsAssumption DEF NodeInv
<1> QED
  BY <1>1, <1>5, <1>9, <1>10, <1>11, <1>12 DEF PInv

----------------------------------------------------------------------------
\* The theorems.

\* One step: the invariant is kept, unless a sender that got through finds no
\* node; and nothing happens after that.
LEMMA StepKeeps ==
  ASSUME [Next]_vars
  PROVE  /\ crashed => crashed'
         /\ PInv /\ ~crashed => IF crashed' THEN Spent ELSE PInv'
<1>1. CASE UNCHANGED vars
  <2>1. /\ porttab' = porttab /\ ptfree' = ptfree /\ ptnextid' = ptnextid
        /\ semtab' = semtab /\ nextsem' = nextsem /\ call' = call
        /\ dead' = dead /\ lost' = lost /\ crashed' = crashed
    BY <1>1 DEF vars
  <2>2. /\ TypeInv' = TypeInv /\ SemsInv' = SemsInv /\ WaitInv' = WaitInv
        /\ HoldInv' = HoldInv /\ ClearInv' = ClearInv /\ CallInv' = CallInv
        /\ SizeInv' = SizeInv /\ CountInv' = CountInv /\ NodeInv' = NodeInv
    BY <2>1 DEF TypeInv, SemsInv, WaitInv, HoldInv, ClearInv, CallInv, SizeInv,
                CountInv, NodeInv, Waits, Gate, Room, Holds, Settled, Clears, Inside
  <2> QED
    BY <2>1, <2>2 DEF PInv
<1>2. ASSUME NEW p \in Procs,
             \/ \E n \in Counts : ptcreate(p, n)
             \/ \E k \in Ports :
                  \/ \E m \in Msgs : ptsend(p, k, m)
                  \/ ptrecv(p, k)
                  \/ \E new \in {"ALLOC", "FREE"} : ptclear(p, k, new)
             \/ Resumed(p)
             \/ kill(p)
      PROVE  /\ ~crashed
             /\ PInv => IF crashed' THEN Spent ELSE PInv'
  <2>1. CASE \E n \in Counts : ptcreate(p, n)
    <3>1. PICK n \in Counts : ptcreate(p, n)
      BY <2>1
    <3>2. ~crashed /\ crashed' = crashed
      BY <3>1 DEF ptcreate, Runs
    <3>3. PInv => PInv'
      BY <3>1, CreateKeeps
    <3> QED
      BY <3>2, <3>3
  <2>2. CASE \/ \E k \in Ports, m \in Msgs : ptsend(p, k, m)
             \/ ptsendResumed(p)
    BY <2>2, SendKeeps DEF ptsend, ptsendResumed, Runs
  <2>3. CASE (\E k \in Ports : ptrecv(p, k)) \/ ptrecvResumed(p)
    BY <2>3, RecvKeeps DEF ptrecv, ptrecvResumed, Runs
  <2>4. CASE \E k \in Ports, new \in {"ALLOC", "FREE"} : ptclear(p, k, new)
    <3>1. PICK k \in Ports, new \in {"ALLOC", "FREE"} : ptclear(p, k, new)
      BY <2>4
    <3>2. ~crashed /\ crashed' = crashed
      BY <3>1 DEF ptclear, Runs
    <3>3. PInv => PInv'
      BY <3>1, ClearKeeps
    <3> QED
      BY <3>2, <3>3
  <2>5. CASE ptclearReceivers(p)
    BY <2>5, ReceiversKeeps DEF ptclearReceivers, Runs, lifeVars
  <2>6. CASE ptclearEnd(p)
    BY <2>6, EndKeeps DEF ptclearEnd, Runs, lifeVars
  <2>7. CASE kill(p)
    BY <2>7, KillKeeps DEF kill
  <2> QED
    BY <1>2, <2>1, <2>2, <2>3, <2>4, <2>5, <2>6, <2>7 DEF Resumed
<1> QED
  BY <1>1, <1>2 DEF Next, other

\* crashed is a flag.
LEMMA CrashTyped ==
  ASSUME [Next]_vars, crashed \in BOOLEAN
  PROVE  crashed' \in BOOLEAN
<1>1. CASE UNCHANGED vars
  BY <1>1 DEF vars
<1>2. ASSUME NEW p \in Procs, NEW k \in Ports, NEW m \in Msgs, ptsend(p, k, m)
      PROVE  crashed' \in BOOLEAN
  BY <1>2 DEF ptsend, Enqueue
<1>3. ASSUME NEW p \in Procs, NEW k \in Ports, ptrecv(p, k)
      PROVE  crashed' \in BOOLEAN
  BY <1>3 DEF ptrecv, Dequeue
<1>4. ASSUME NEW p \in Procs, Resumed(p)
      PROVE  crashed' \in BOOLEAN
  BY <1>4 DEF Resumed, ptsendResumed, ptrecvResumed, ptclearReceivers, ptclearEnd,
              Enqueue, Dequeue
<1>5. ASSUME NEW p \in Procs, NEW k \in Ports,
             \/ \E n \in Counts : ptcreate(p, n)
             \/ \E new \in {"ALLOC", "FREE"} : ptclear(p, k, new)
             \/ kill(p)
      PROVE  crashed' \in BOOLEAN
  BY <1>5 DEF ptcreate, ptclear, kill
<1>6. 0 \in Ports
  BY PortsAssumption DEF Ports
<1> QED
  BY <1>1, <1>2, <1>3, <1>4, <1>5, <1>6 DEF Next, other

\* Whatever the processes do, the ports are sound until ptsend panics for want of
\* a node.
THEOREM PortsSoundOrSpent ==
  Spec => [](crashed \/ PInv)
<1>1. Init => crashed \/ PInv
  BY InitSound
<1>2. (crashed \/ PInv) /\ [Next]_vars => (crashed \/ PInv)'
  BY StepKeeps
<1> QED
  BY <1>1, <1>2, PTL DEF Spec

\* There are as many nodes as all ports together may hold messages.
EnoughNodes == \E m \in Nat : NPORTS * m <= PT_MSGS /\ \A n \in Counts : n <= m

\* Then a sender that got through finds one.
LEMMA NodeThere ==
  ASSUME EnoughNodes, PInv
  PROVE  ~Spent
<1> SUFFICES ASSUME NEW k \in Ports, Room(k, "send") >= 1, ptfree = 0
             PROVE  FALSE
  BY DEF Spent
<1>1. PICK m \in Nat : NPORTS * m <= PT_MSGS /\ \A n \in Counts : n <= m
  BY DEF EnoughNodes
<1>2. ASSUME NEW j \in Ports
      PROVE  /\ Len(porttab[j].msgs) \in Nat /\ Len(porttab[j].msgs) <= m
             /\ porttab[j].maxcnt \in Nat /\ porttab[j].maxcnt <= m
  <2>1. Len(porttab[j].msgs) \in Nat /\ porttab[j].maxcnt \in Nat
    BY PortTypes DEF PInv
  <2>2. porttab[j].maxcnt <= m
    BY <1>1 DEF PInv, TypeInv
  <2>3. Len(porttab[j].msgs) <= porttab[j].maxcnt
    BY DEF PInv, SizeInv
  <2> QED
    BY <2>1, <2>2, <2>3
<1>3. Len(porttab[k].msgs) < m
  <2>1. porttab[k].maxcnt - Len(porttab[k].msgs) >= 1
    BY DEF Room
  <2> QED
    BY <1>2, <2>1
<1>4. Filled(porttab, NPORTS) < NPORTS * m /\ Filled(porttab, NPORTS) \in Nat
  BY <1>2, <1>3, FilledBound
<1>5. 0 + Filled(porttab, NPORTS) = PT_MSGS
  BY DEF PInv, NodeInv
<1> DEFINE a == Filled(porttab, NPORTS)
           b == NPORTS * m
<1>6. b \in Nat /\ PT_MSGS \in Nat
  BY PortsAssumption
<1> HIDE DEF a, b
<1>7. a < b /\ a \in Nat /\ 0 + a = PT_MSGS /\ b <= PT_MSGS
  BY <1>1, <1>4, <1>5 DEF a, b
<1> QED
  BY <1>6, <1>7

\* PortInv follows.
LEMMA SoundPorts ==
  ASSUME PInv, ~crashed, crashed \in BOOLEAN
  PROVE  PortInv
<1> USE DEF PInv
<1>1. NodesConserved
  BY DEF NodeInv, NodesConserved
<1>2. TypeOK
  <2>1. ptfree \in 0..PT_MSGS
    <3>0. 0 \in Ports
      BY PortsAssumption DEF Ports
    <3>1. \A j \in Ports : Len(porttab[j].msgs) \in Nat
      BY PortTypes
    <3>2. Filled(porttab, NPORTS) \in Nat
      BY <3>0, <3>1, FilledBound
    <3>3. ptfree \in Nat /\ ptfree + Filled(porttab, NPORTS) = PT_MSGS
      BY DEF NodeInv, TypeInv
    <3> QED
      BY <3>2, <3>3, PortsAssumption
  <2> QED
    BY <2>1 DEF TypeInv, TypeOK
<1>3. SlotInv
  <2> SUFFICES ASSUME NEW k \in Ports, porttab[k].state = "ALLOC",
                      ~Bad(porttab[k].ssem), ~Bad(porttab[k].rsem)
               PROVE  LET pt == porttab[k]
                          slots == pt.maxcnt - Len(pt.msgs) - Cardinality(Inside(k, "send"))
                          msgs == Len(pt.msgs) - Cardinality(Inside(k, "recv"))
                      IN  IF lost
                          THEN semtab[pt.ssem].count <= slots /\ semtab[pt.rsem].count <= msgs
                          ELSE semtab[pt.ssem].count = slots /\ semtab[pt.rsem].count = msgs
    BY DEF SlotInv
  <2>1. "send" \in Roles /\ "recv" \in Roles /\ "recv" # "send"
    BY DEF Roles
  <2>2. Settled(k, "send") /\ Settled(k, "recv")
    BY DEF Settled
  <2>3. porttab[k].ssem # SYSERR /\ porttab[k].rsem # SYSERR
    BY DEF Bad
  <2>4. /\ Gate(k, "send") = porttab[k].ssem /\ Gate(k, "recv") = porttab[k].rsem
        /\ Room(k, "send") = porttab[k].maxcnt - Len(porttab[k].msgs)
        /\ Room(k, "recv") = Len(porttab[k].msgs)
    BY <2>1 DEF Gate, Room
  <2>5. LET n == Room(k, "send") - Cardinality(Inside(k, "send")) IN
        IF lost THEN semtab[porttab[k].ssem].count <= n ELSE semtab[porttab[k].ssem].count = n
    BY <2>1, <2>2, <2>3, <2>4 DEF CountInv
  <2>6. LET n == Room(k, "recv") - Cardinality(Inside(k, "recv")) IN
        IF lost THEN semtab[porttab[k].rsem].count <= n ELSE semtab[porttab[k].rsem].count = n
    BY <2>1, <2>2, <2>3, <2>4 DEF CountInv
  <2> QED
    BY <2>4, <2>5, <2>6
<1>4. NobodyStranded
  <2> SUFFICES ASSUME NEW p \in Procs, Blocked(p)
               PROVE  LET pt == porttab[call[p].port] IN
                      \/ pt.state = "ALLOC" /\ pt.seq = call[p].seq
                      \/ pt.state = "LIMBO" /\ pt.seq = call[p].seq + 1
    BY DEF NobodyStranded
  <2>1. PICK s \in Sems : Waits(p, s)
    BY BlockedWaits
  <2> QED
    BY <2>1 DEF WaitInv
<1> QED
  BY <1>1, <1>2, <1>3, <1>4 DEF PortInv

\* With enough nodes the ports are sound for ever: ptsend never panics, ptrecv
\* never finds its port empty, the semaphores count what is there, and nobody is
\* left behind in a port that was cleared.
THEOREM PortsSound ==
  EnoughNodes => (Spec => []PortInv)
<1> SUFFICES ASSUME EnoughNodes PROVE Spec => []PortInv
  OBVIOUS
<1> DEFINE Inv == PInv /\ crashed = FALSE
<1>1. Init => Inv
  BY InitSound DEF Init
<1>2. Inv /\ [Next]_vars => Inv'
  <2> SUFFICES ASSUME Inv, [Next]_vars PROVE Inv'
    OBVIOUS
  <2>1. IF crashed' THEN Spent ELSE PInv'
    BY StepKeeps
  <2>2. PInv' /\ ~crashed'
    BY <2>1, NodeThere
  <2>3. crashed' \in BOOLEAN
    BY CrashTyped
  <2> QED
    BY <2>2, <2>3
<1>3. Inv => PortInv
  BY SoundPorts
<1> QED
  BY <1>1, <1>2, <1>3, PTL DEF Spec

----------------------------------------------------------------------------
\* Ports implement channels.

\* What a user of a port sees of it, and the channels that the ports are.
View(pt) == IF pt.state = "ALLOC"
            THEN [open |-> TRUE, cap |-> pt.maxcnt, msgs |-> pt.msgs]
            ELSE [open |-> FALSE, cap |-> 0, msgs |-> << >>]
Seen == [k \in Ports |-> View(porttab[k])]

\* The steps of channels, in terms of what is seen.
LEMMA ChanSteps ==
  /\ Chan!Init <=> Seen = [k \in Ports |-> Chan!Closed]
  /\ \A k, n : Chan!Open(k, n) <=>
        /\ ~Seen[k].open
        /\ Seen' = [Seen EXCEPT ![k] = [open |-> TRUE, cap |-> n, msgs |-> << >>]]
  /\ \A k, m : Chan!Send(k, m) <=>
        /\ Seen[k].open /\ Len(Seen[k].msgs) < Seen[k].cap
        /\ Seen' = [Seen EXCEPT ![k].msgs = Append(@, m)]
  /\ \A k : Chan!Recv(k) <=>
        /\ Seen[k].open /\ Seen[k].msgs # << >>
        /\ Seen' = [Seen EXCEPT ![k].msgs = Tail(@)]
  /\ \A k : Chan!Close(k) <=>
        /\ Seen[k].open
        /\ Seen' = [Seen EXCEPT ![k] = [open |-> FALSE, cap |-> 0, msgs |-> << >>]]
BY DEF Chan!Init, Chan!Open, Chan!Send, Chan!Recv, Chan!Close, Chan!Closed, Seen, View

\* The messages of a channel changed.
LEMMA MsgsChange ==
  ASSUME NEW n, NEW d, NEW c
  PROVE  LET x == [open |-> TRUE, cap |-> n, msgs |-> d] IN
         [x EXCEPT !.msgs = c] = [open |-> TRUE, cap |-> n, msgs |-> c]
<1> DEFINE T == [open : BOOLEAN, cap : {n}, msgs : {c, d}]
           x == [open |-> TRUE, cap |-> n, msgs |-> d]
           y == [x EXCEPT !.msgs = c]
           z == [open |-> TRUE, cap |-> n, msgs |-> c]
<1>1. x \in T /\ x.open = TRUE /\ x.cap = n
  OBVIOUS
<1>2. z \in T /\ z.open = TRUE /\ z.cap = n /\ z.msgs = c
  OBVIOUS
<1> HIDE DEF x, z
<1>3. y \in T /\ y.open = x.open /\ y.cap = x.cap /\ y.msgs = c
  BY <1>1
<1> HIDE DEF y
<1>4. y = z
  BY <1>1, <1>2, <1>3
<1> QED
  BY <1>4 DEF x, y, z

\* When one port changes, so does its channel.
LEMMA SeenOne ==
  ASSUME NEW k \in Ports, \A j \in Ports : j # k => porttab'[j] = porttab[j]
  PROVE  /\ Seen' = [Seen EXCEPT ![k] = View(porttab'[k])]
         /\ Seen[k] = View(porttab[k])
BY DEF Seen, View

\* A step of the ports is a step of the channels, or changes none of them.
LEMMA ChannelStep ==
  ASSUME crashed \/ PInv, [Next]_vars
  PROVE  Chan!Next \/ Seen' = Seen
<1>1. CASE porttab' = porttab
  BY <1>1 DEF Seen, View
<1>2. ASSUME NEW p \in Procs, NEW k \in Ports, NEW tab, NEW m \in Msgs, PInv,
             Taken(tab, p, k, "send"), Enqueue(tab, k, m)
      PROVE  porttab' = porttab \/ Chan!Send(k, m)
  <2>1. CASE ptfree = 0
    BY <1>2, <2>1 DEF Enqueue
  <2>2. CASE ptfree # 0
    <3>1. porttab' = [porttab EXCEPT ![k].msgs = Append(@, m)]
      BY <1>2, <2>2 DEF Enqueue
    <3> DEFINE c == Append(porttab[k].msgs, m)
               d == porttab[k].msgs
    <3>2. porttab \in [Ports -> PortType] /\ d \in Seq(Msgs)
      BY <1>2, Typed, PortTypes DEF PInv
    <3>3. c \in Seq(Msgs) /\ porttab' = [porttab EXCEPT ![k].msgs = c]
      BY <3>1, <3>2
    <3> HIDE DEF c
    <3>4. /\ porttab'[k].state = porttab[k].state /\ porttab'[k].maxcnt = porttab[k].maxcnt
          /\ porttab'[k].msgs = c /\ \A j \in Ports : j # k => porttab'[j] = porttab[j]
      BY <1>2, <3>3, PortMsgs DEF PInv
    <3>5. porttab[k].state = "ALLOC" /\ Room(k, "send") >= 1
      BY <1>2, TakenFacts DEF PInv, Taken, Roles
    <3>6. Len(d) < porttab[k].maxcnt
      <4>1. porttab[k].maxcnt - Len(d) >= 1 /\ Len(d) \in Nat /\ porttab[k].maxcnt \in Nat
        BY <1>2, <3>5, PortTypes DEF Room, PInv
      <4> QED
        BY <4>1
    <3> DEFINE e == porttab[k].maxcnt
               x == [open |-> TRUE, cap |-> e, msgs |-> d]
               y == [open |-> TRUE, cap |-> e, msgs |-> c]
    <3>7. Seen[k] = x /\ Seen' = [Seen EXCEPT ![k] = y]
      BY <3>4, <3>5, SeenOne DEF View
    <3>8. y = [x EXCEPT !.msgs = Append(@, m)]
      <4>1. [x EXCEPT !.msgs = c] = y
        <5> HIDE DEF d, e
        <5> QED
          BY MsgsChange
      <4>2. x.msgs = d /\ c = Append(d, m)
        BY DEF c
      <4> HIDE DEF x, d
      <4> QED
        BY <4>1, <4>2
    <3>9. Seen' = [Seen EXCEPT ![k].msgs = Append(@, m)]
      BY <3>7, <3>8 DEF Seen
    <3>10. Seen[k].open /\ Len(Seen[k].msgs) < Seen[k].cap
      BY <3>6, <3>7
    <3> QED
      BY <3>9, <3>10, ChanSteps
  <2> QED
    BY <2>1, <2>2
<1>3. ASSUME NEW p \in Procs, NEW k \in Ports, NEW tab, PInv,
             Taken(tab, p, k, "recv"), Dequeue(tab, k)
      PROVE  porttab' = porttab \/ Chan!Recv(k)
  <2>1. CASE porttab[k].msgs = << >>
    BY <1>3, <2>1 DEF Dequeue
  <2>2. CASE porttab[k].msgs # << >>
    <3>1. porttab' = [porttab EXCEPT ![k].msgs = Tail(@)]
      BY <1>3, <2>2 DEF Dequeue
    <3> DEFINE c == Tail(porttab[k].msgs)
               d == porttab[k].msgs
    <3>2. porttab \in [Ports -> PortType] /\ d \in Seq(Msgs)
      BY <1>3, Typed, PortTypes DEF PInv
    <3>3. c \in Seq(Msgs) /\ porttab' = [porttab EXCEPT ![k].msgs = c]
      BY <2>2, <3>1, <3>2
    <3> HIDE DEF c
    <3>4. /\ porttab'[k].state = porttab[k].state /\ porttab'[k].maxcnt = porttab[k].maxcnt
          /\ porttab'[k].msgs = c /\ \A j \in Ports : j # k => porttab'[j] = porttab[j]
      BY <1>3, <3>3, PortMsgs DEF PInv
    <3>5. porttab[k].state = "ALLOC"
      BY <1>3 DEF Taken
    <3> DEFINE e == porttab[k].maxcnt
               x == [open |-> TRUE, cap |-> e, msgs |-> d]
               y == [open |-> TRUE, cap |-> e, msgs |-> c]
    <3>7. Seen[k] = x /\ Seen' = [Seen EXCEPT ![k] = y]
      BY <3>4, <3>5, SeenOne DEF View
    <3>8. y = [x EXCEPT !.msgs = Tail(@)]
      <4>1. [x EXCEPT !.msgs = c] = y
        <5> HIDE DEF d, e
        <5> QED
          BY MsgsChange
      <4>2. x.msgs = d /\ c = Tail(d)
        BY DEF c
      <4> HIDE DEF x, d
      <4> QED
        BY <4>1, <4>2
    <3>9. Seen' = [Seen EXCEPT ![k].msgs = Tail(@)]
      BY <3>7, <3>8 DEF Seen
    <3>10. Seen[k].open /\ Seen[k].msgs # << >>
      BY <2>2, <3>7
    <3> QED
      BY <3>9, <3>10, ChanSteps
  <2> QED
    BY <2>1, <2>2
<1>4. ASSUME NEW p \in Procs, NEW n \in Counts, ptcreate(p, n), PInv
      PROVE  \E k \in Ports : Chan!Open(k, n)
  <2>1. PICK i, g, h :
          LET k == (ptnextid + i) % NPORTS IN
          /\ i \in 0..(NPORTS - 1)
          /\ porttab[k].state = "FREE"
          /\ porttab' = [porttab EXCEPT ![k] =
                              [state |-> "ALLOC", ssem |-> g, rsem |-> h,
                               maxcnt |-> n, seq |-> @.seq + 1, msgs |-> << >>]]
    BY <1>4 DEF ptcreate
  <2> DEFINE m == ptnextid + i
             k == m % NPORTS
  <2>2. k \in Ports
    <3>1. m \in Int /\ NPORTS \in Nat \ {0}
      BY <1>4, <2>1, Typed, PortsAssumption DEF Ports, PInv
    <3> HIDE DEF m
    <3>2. m % NPORTS \in 0..(NPORTS - 1)
      BY <3>1
    <3> QED
      BY <3>2 DEF Ports
  <2> DEFINE y == [state |-> "ALLOC", ssem |-> g, rsem |-> h,
                   maxcnt |-> n, seq |-> porttab[k].seq + 1, msgs |-> << >>]
  <2>3. porttab \in [Ports -> PortType]
    BY <1>4, Typed DEF PInv
  <2>4. porttab[k].state = "FREE" /\ porttab' = [porttab EXCEPT ![k] = y]
    BY <2>1
  <2>5. y.state = "ALLOC" /\ y.maxcnt = n /\ y.msgs = << >>
    OBVIOUS
  <2> HIDE DEF k, y
  <2>6. porttab'[k] = y /\ \A j \in Ports : j # k => porttab'[j] = porttab[j]
    BY <2>2, <2>3, <2>4
  <2>7. /\ Seen[k] = [open |-> FALSE, cap |-> 0, msgs |-> << >>]
        /\ Seen' = [Seen EXCEPT ![k] = [open |-> TRUE, cap |-> n, msgs |-> << >>]]
    <3>1. /\ View(porttab[k]) = [open |-> FALSE, cap |-> 0, msgs |-> << >>]
          /\ View(porttab'[k]) = [open |-> TRUE, cap |-> n, msgs |-> << >>]
      BY <2>4, <2>5, <2>6 DEF View
    <3>2. Seen' = [Seen EXCEPT ![k] = View(porttab'[k])] /\ Seen[k] = View(porttab[k])
      BY <2>2, <2>6, SeenOne
    <3> QED
      BY <3>1, <3>2
  <2>8. ~Seen[k].open
    BY <2>7
  <2>9. Chan!Open(k, n)
    BY <2>7, <2>8, ChanSteps
  <2> QED
    BY <2>2, <2>9
<1>5. ASSUME NEW p \in Procs, NEW k \in Ports, NEW new, ptclear(p, k, new), PInv
      PROVE  Chan!Close(k)
  <2>1. /\ porttab[k].state = "ALLOC" /\ porttab \in [Ports -> PortType]
        /\ porttab' = [porttab EXCEPT ![k].state = "LIMBO",
                                      ![k].seq = @ + 1, ![k].msgs = << >>]
    BY <1>5, Typed DEF ptclear, PInv
  <2>2. porttab'[k].state = "LIMBO" /\ \A j \in Ports : j # k => porttab'[j] = porttab[j]
    BY <2>1 DEF PortType
  <2>3. /\ Seen[k] = [open |-> TRUE, cap |-> porttab[k].maxcnt, msgs |-> porttab[k].msgs]
        /\ Seen' = [Seen EXCEPT ![k] = [open |-> FALSE, cap |-> 0, msgs |-> << >>]]
    BY <2>1, <2>2, SeenOne DEF View
  <2>4. Seen[k].open
    BY <2>3
  <2> QED
    BY <2>3, <2>4, ChanSteps
<1>6. ASSUME NEW p \in Procs, ptclearEnd(p), PInv
      PROVE  Seen' = Seen \/ \E k \in Ports, n \in Counts : Chan!Open(k, n)
  <2>0. PICK k \in Ports, new \in {"FREE", "ALLOC"} : k = call[p].port /\ new = call[p].new
    <3>1. call[p] \in CallType
      BY <1>6, Typed DEF PInv
    <3> QED
      BY <3>1 DEF CallType
  <2>1. /\ porttab \in [Ports -> PortType]
        /\ p \notin dead /\ call[p].at = "cleared"
        /\ porttab' = [porttab EXCEPT ![k].state = new]
    BY <1>6, <2>0, Typed DEF ptclearEnd, Runs, PInv
  <2>2. /\ porttab[k].state = "LIMBO" /\ porttab[k].msgs = << >>
        /\ porttab[k].maxcnt \in Counts
    <3>1. Clears(p, k)
      BY <2>0, <2>1 DEF Clears
    <3>2. porttab[k].state = "LIMBO"
      BY <1>6, <2>1, <3>1 DEF PInv, ClearInv
    <3> QED
      BY <1>6, <2>1, <3>2 DEF PInv, SizeInv
  <2>n. PICK n \in Counts : n = porttab[k].maxcnt
    BY <2>2
  <2>3. /\ porttab'[k].state = new /\ porttab'[k].maxcnt = n
        /\ porttab'[k].msgs = porttab[k].msgs
        /\ \A j \in Ports : j # k => porttab'[j] = porttab[j]
    BY <2>1, <2>n DEF PortType
  <2>4. /\ Seen[k] = [open |-> FALSE, cap |-> 0, msgs |-> << >>]
        /\ Seen' = [Seen EXCEPT ![k] = View(porttab'[k])]
    BY <2>1, <2>2, <2>3, SeenOne DEF View
  <2>5. CASE new = "ALLOC"
    <3>1. View(porttab'[k]) = [open |-> TRUE, cap |-> n, msgs |-> << >>]
      BY <2>2, <2>3, <2>5 DEF View
    <3>2. ~Seen[k].open
      BY <2>4
    <3>3. Chan!Open(k, n)
      BY <2>4, <3>1, <3>2, ChanSteps
    <3> QED
      BY <2>1, <2>2, <3>3
  <2>6. CASE new # "ALLOC"
    <3>1. View(porttab'[k]) = Seen[k]
      BY <2>3, <2>4, <2>6 DEF View
    <3>2. Seen' = [Seen EXCEPT ![k] = Seen[k]]
      BY <2>4, <3>1
    <3> QED
      BY <3>2 DEF Seen
  <2> QED
    BY <2>5, <2>6
<1>s. ASSUME NEW p \in Procs, NEW k \in Ports, NEW m \in Msgs, ptsend(p, k, m), PInv
      PROVE  porttab' = porttab \/ Chan!Send(k, m)
  <2> DEFINE g == porttab[k].ssem
             tab == [semtab EXCEPT ![g] = wait(@, p)]
  <2>1. Gate(k, "send") = g
    BY DEF Gate
  <2>2. CASE Queued(tab[g], p)
    BY <1>s, <2>2 DEF ptsend
  <2>3. CASE ~Queued(tab[g], p)
    <3>1. Enqueue(tab, k, m)
      BY <1>s, <2>3 DEF ptsend
    <3>2. Taken(tab, p, k, "send")
      BY <1>s, <2>1, <2>3 DEF Taken, ptsend, Runs
    <3> QED
      BY <1>s, <1>2, <3>1, <3>2
  <2> QED
    BY <2>2, <2>3
<1>r. ASSUME NEW p \in Procs, NEW k \in Ports, ptrecv(p, k), PInv
      PROVE  porttab' = porttab \/ Chan!Recv(k)
  <2> DEFINE g == porttab[k].rsem
             tab == [semtab EXCEPT ![g] = wait(@, p)]
  <2>1. Gate(k, "recv") = g
    BY DEF Gate
  <2>2. CASE Queued(tab[g], p)
    BY <1>r, <2>2 DEF ptrecv
  <2>3. CASE ~Queued(tab[g], p)
    <3>1. Dequeue(tab, k)
      BY <1>r, <2>3 DEF ptrecv
    <3>2. Taken(tab, p, k, "recv")
      BY <1>r, <2>1, <2>3 DEF Taken, ptrecv, Runs
    <3> QED
      BY <1>r, <1>3, <3>1, <3>2
  <2> QED
    BY <2>2, <2>3
<1>t. ASSUME NEW p \in Procs, ptsendResumed(p), PInv
      PROVE  porttab' = porttab \/ \E k \in Ports, m \in Msgs : Chan!Send(k, m)
  <2>1. /\ p \notin dead /\ call[p].at = "send" /\ ~Blocked(p)
        /\ call' = [call EXCEPT ![p] = User]
    BY <1>t DEF ptsendResumed, Runs
  <2>2. CASE StillOpen(call[p])
    <3>1. Enqueue(semtab, call[p].port, call[p].msg)
      BY <1>t, <2>2 DEF ptsendResumed
    <3>2. Taken(semtab, p, call[p].port, "send")
      BY <2>1, <2>2 DEF Taken, StillOpen
    <3>3. call[p].port \in Ports /\ call[p].msg \in Msgs
      BY <1>t, <2>1 DEF PInv, CallInv, TypeInv, Roles
    <3> QED
      BY <1>t, <1>2, <3>1, <3>2, <3>3
  <2>3. CASE ~StillOpen(call[p])
    BY <1>t, <2>3 DEF ptsendResumed
  <2> QED
    BY <2>2, <2>3
<1>u. ASSUME NEW p \in Procs, ptrecvResumed(p), PInv
      PROVE  porttab' = porttab \/ \E k \in Ports : Chan!Recv(k)
  <2>1. /\ p \notin dead /\ call[p].at = "recv" /\ ~Blocked(p)
        /\ call' = [call EXCEPT ![p] = User]
    BY <1>u DEF ptrecvResumed, Runs
  <2>2. CASE StillOpen(call[p])
    <3>1. Dequeue(semtab, call[p].port)
      BY <1>u, <2>2 DEF ptrecvResumed
    <3>2. Taken(semtab, p, call[p].port, "recv")
      BY <2>1, <2>2 DEF Taken, StillOpen
    <3>3. call[p].port \in Ports
      BY <1>u DEF PInv, TypeInv
    <3> QED
      BY <1>u, <1>3, <3>1, <3>2, <3>3
  <2>3. CASE ~StillOpen(call[p])
    BY <1>u, <2>3 DEF ptrecvResumed
  <2> QED
    BY <2>2, <2>3
<1>7. CASE UNCHANGED vars
  BY <1>1, <1>7 DEF vars
<1>n. /\ \A k \in Ports, n \in Counts : Chan!Open(k, n) => Chan!Next
      /\ \A k \in Ports, m \in Msgs : Chan!Send(k, m) => Chan!Next
      /\ \A k \in Ports : Chan!Recv(k) \/ Chan!Close(k) => Chan!Next
  BY DEF Chan!Next
<1>8. ASSUME NEW p \in Procs,
             \/ \E n \in Counts : ptcreate(p, n)
             \/ \E k \in Ports :
                  \/ \E m \in Msgs : ptsend(p, k, m)
                  \/ ptrecv(p, k)
                  \/ \E new \in {"ALLOC", "FREE"} : ptclear(p, k, new)
             \/ Resumed(p)
             \/ kill(p)
      PROVE  Chan!Next \/ Seen' = Seen
  <2>0. PInv
    BY <1>8 DEF ptcreate, ptsend, ptrecv, ptclear, Resumed, ptsendResumed,
                ptrecvResumed, ptclearReceivers, ptclearEnd, kill, Runs
  <2>1. CASE \E n \in Counts : ptcreate(p, n)
    BY <1>4, <1>n, <2>0, <2>1
  <2>2. CASE \E k \in Ports, m \in Msgs : ptsend(p, k, m)
    BY <1>1, <1>s, <1>n, <2>0, <2>2
  <2>3. CASE \E k \in Ports : ptrecv(p, k)
    BY <1>1, <1>r, <1>n, <2>0, <2>3
  <2>4. CASE \E k \in Ports, new \in {"ALLOC", "FREE"} : ptclear(p, k, new)
    BY <1>5, <1>n, <2>0, <2>4
  <2>5. CASE ptsendResumed(p)
    BY <1>1, <1>t, <1>n, <2>0, <2>5
  <2>6. CASE ptrecvResumed(p)
    BY <1>1, <1>u, <1>n, <2>0, <2>6
  <2>7. CASE ptclearReceivers(p)
    BY <1>1, <2>7 DEF ptclearReceivers
  <2>8. CASE ptclearEnd(p)
    BY <1>6, <1>n, <2>0, <2>8
  <2>9. CASE kill(p)
    BY <1>1, <2>9 DEF kill
  <2> QED
    BY <1>8, <2>1, <2>2, <2>3, <2>4, <2>5, <2>6, <2>7, <2>8, <2>9 DEF Resumed
<1> QED
  BY <1>7, <1>8 DEF Next, other

\* A port is a first-in first-out channel that never holds more than the count it
\* was created with, through resets, deletions and kills, and also when the
\* nodes run out.
THEOREM PortsAreChannels ==
  Spec => IsChannel
<1>1. Init => Chan!Init
  <2>1. Init => Seen = [k \in Ports |-> Chan!Closed]
    BY DEF Init, Seen, View, Chan!Closed
  <2> QED
    BY <2>1, ChanSteps
<1>2. (crashed \/ PInv) /\ [Next]_vars => [Chan!Next]_Seen
  BY ChannelStep
<1>3. Spec => [](crashed \/ PInv)
  BY PortsSoundOrSpent
<1> QED
  BY <1>1, <1>2, <1>3, PTL DEF Spec, IsChannel, Chan!Spec, Seen, View
=============================================================================

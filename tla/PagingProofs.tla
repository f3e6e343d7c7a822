---------------------------- MODULE PagingProofs ----------------------------
(***************************************************************************)
(* Demand paging, for any number of processes, frames, stores and pages,   *)
(* and a disk of any length: the page-fault handler is exclusive, and no   *)
(* two pages of living processes share a place.  As long as no fault is    *)
(* served for a page that is there, or takes away the page table it is     *)
(* about to use, the inverted page table, the page directories and tables  *)
(* and the replacement list agree, every process finds in its pages what   *)
(* it wrote there, and the pager panics only because the disk ends before  *)
(* a heap, the hooks were not told of a kill, or the hand of GCA is lost.  *)
(***************************************************************************)
EXTENDS Paging, QueueProofs, FiniteSetTheorems

Inside == {p \in Procs : pc[p] \in {"handle", "release"}}

TypeInv ==
    /\ sys \in Systems
    /\ pc \in [Procs -> {"none", "user", "enter", "blocked", "handle", "release"}]
    /\ currpid \in Procs \cup {MAIN}
    /\ semqueue \in Seq(Procs)
    /\ semfree \in BOOLEAN

\* The semaphore of the handler, its queue and the processes in and before it.
GateInv ==
    /\ \A p, q \in Inside : p = q
    /\ semfree => Inside = {} /\ semqueue = << >>
    /\ Distinct(semqueue)
    /\ \A p \in Procs : Has(semqueue, p) <=> pc[p] = "blocked"
\* kill: a process that waits is taken off the queue, and the queue is all that
\* a process inside the handler leaves as it was.
LEMMA killGate ==
  ASSUME TypeInv, GateInv, NEW p \in Procs, kill(p)
  PROVE  TypeInv' /\ GateInv'
<1> DEFINE i == CHOOSE i \in 1..Len(semqueue) : semqueue[i] = p
           t == RemoveAt(semqueue, i)
<1>1. /\ pc' \in [Procs -> {"none", "user", "enter", "blocked", "handle", "release"}]
      /\ pc'[p] = "none" /\ \A q \in Procs : q # p => pc'[q] = pc[q]
  BY DEF kill, TypeInv
<1>2. /\ semqueue' \in Seq(Procs) /\ Distinct(semqueue')
      /\ \A q : Has(semqueue', q) <=> Has(semqueue, q) /\ q # p
  <2>1. CASE pc[p] = "blocked"
    <3>1. Has(semqueue, p)
      BY <2>1 DEF GateInv
    <3>2. i \in 1..Len(semqueue) /\ semqueue[i] = p
      BY <3>1 DEF Has
    <3>3. semqueue' = t
      BY <2>1 DEF kill, Unwait
    <3>4. semqueue \in Seq(Procs) /\ Distinct(semqueue)
      BY DEF TypeInv, GateInv
    <3> HIDE DEF i
    <3> QED
      BY <3>2, <3>3, <3>4, RemoveMembers
  <2>2. CASE pc[p] # "blocked"
    <3>1. semqueue' = semqueue
      BY <2>2 DEF kill
    <3> QED
      BY <2>2, <3>1 DEF TypeInv, GateInv
  <2> QED
    BY <2>1, <2>2
<1>3. semqueue = << >> => semqueue' = << >>
  <2>1. ASSUME semqueue = << >> PROVE ~Has(semqueue, p)
    BY <2>1 DEF Has
  <2>2. Has(semqueue, p) <=> pc[p] = "blocked"
    BY DEF GateInv
  <2> QED
    BY <2>1, <2>2 DEF kill
<1>4. currpid' \in Procs \cup {MAIN} /\ semfree' = semfree /\ sys' = sys
  BY DEF kill, Runnable, TypeInv
<1>5. \A q \in Inside' : q \in Inside
  BY <1>1 DEF Inside
<1>6. TypeInv'
  BY <1>1, <1>2, <1>4 DEF TypeInv
<1>7. semfree => Inside' = {} /\ semqueue' = << >>
  BY <1>3, <1>5 DEF GateInv
<1> HIDE DEF i
<1>8. \A q \in Procs : Has(semqueue', q) <=> pc'[q] = "blocked"
  BY <1>1, <1>2 DEF GateInv
<1> QED
  BY <1>2, <1>4, <1>5, <1>6, <1>7, <1>8 DEF GateInv

\* wait(pgf_frame_sem): the process enters, or joins the queue.
LEMMA enterGate ==
  ASSUME TypeInv, GateInv, enterHandler
  PROVE  TypeInv' /\ GateInv'
<1> USE DEF At
<1>1. currpid \in Procs /\ pc[currpid] = "enter" /\ sys' = sys
  BY DEF enterHandler
<1> DEFINE p == currpid
<1>2. CASE semfree
  <2>1. semfree' = FALSE /\ pc' = [pc EXCEPT ![p] = "handle"]
        /\ currpid' = currpid /\ semqueue' = semqueue
    BY <1>2 DEF enterHandler
  <2>2. /\ pc' \in [Procs -> {"none", "user", "enter", "blocked", "handle", "release"}]
        /\ pc'[p] = "handle" /\ \A q \in Procs : q # p => pc'[q] = pc[q]
    BY <1>1, <2>1 DEF TypeInv
  <2>3. TypeInv'
    BY <1>1, <2>1, <2>2 DEF TypeInv
  <2>4. \A q \in Inside' : q = p
    <3>1. Inside = {}
      BY <1>2 DEF GateInv
    <3> QED
      BY <2>2, <3>1 DEF Inside
  <2>5. \A q \in Procs : Has(semqueue', q) <=> pc'[q] = "blocked"
    BY <1>1, <2>1, <2>2 DEF GateInv
  <2> QED
    BY <2>1, <2>3, <2>4, <2>5 DEF GateInv
<1>3. CASE ~semfree
  <2>1. /\ semqueue' = Append(semqueue, p)
        /\ pc' = [pc EXCEPT ![p] = "blocked"]
        /\ currpid' \in Runnable(pc') /\ semfree' = semfree
    BY <1>3 DEF enterHandler
  <2>2. /\ pc' \in [Procs -> {"none", "user", "enter", "blocked", "handle", "release"}]
        /\ pc'[p] = "blocked" /\ \A q \in Procs : q # p => pc'[q] = pc[q]
    BY <1>1, <2>1 DEF TypeInv
  <2>3. semqueue \in Seq(Procs) /\ Distinct(semqueue) /\ ~Has(semqueue, p)
    BY <1>1 DEF TypeInv, GateInv
  <2>4. /\ semqueue' \in Seq(Procs) /\ Distinct(semqueue')
        /\ \A q : Has(semqueue', q) <=> Has(semqueue, q) \/ q = p
    BY <1>1, <2>1, <2>3, AppendMembers
  <2>5. TypeInv'
    BY <1>1, <2>1, <2>2, <2>4 DEF TypeInv, Runnable
  <2>6. \A q \in Inside' : q \in Inside
    BY <2>2 DEF Inside
  <2>7. \A q \in Procs : Has(semqueue', q) <=> pc'[q] = "blocked"
    BY <2>2, <2>4 DEF GateInv
  <2> QED
    BY <1>3, <2>1, <2>4, <2>5, <2>6, <2>7 DEF GateInv
<1>4. semfree \/ ~semfree
  BY DEF TypeInv
<1> QED
  BY <1>2, <1>3

\* signal(pgf_frame_sem): the handler is free, or handed to the first in the queue.
LEMMA leaveGate ==
  ASSUME TypeInv, GateInv, leaveHandler
  PROVE  TypeInv' /\ GateInv'
<1> DEFINE p == currpid
<1>1. p \in Procs /\ pc[p] = "release" /\ sys' = sys /\ Release
  BY DEF leaveHandler, At
<1>2. p \in Inside /\ \A q \in Inside : q = p
  BY <1>1 DEF Inside, GateInv
<1>3. CASE semqueue = << >>
  <2>1. semfree' = TRUE /\ pc' = [pc EXCEPT ![p] = "user"]
        /\ currpid' = currpid /\ semqueue' = semqueue
    BY <1>1, <1>3 DEF Release
  <2>2. /\ pc' \in [Procs -> {"none", "user", "enter", "blocked", "handle", "release"}]
        /\ pc'[p] = "user" /\ \A q \in Procs : q # p => pc'[q] = pc[q]
    BY <1>1, <2>1 DEF TypeInv
  <2>3. TypeInv'
    BY <1>1, <2>1, <2>2 DEF TypeInv
  <2>4. Inside' = {}
    BY <1>2, <2>2 DEF Inside
  <2>5. \A q \in Procs : Has(semqueue', q) <=> pc'[q] = "blocked"
    BY <1>1, <2>1, <2>2 DEF GateInv
  <2> QED
    BY <1>3, <2>1, <2>3, <2>4, <2>5 DEF GateInv
<1>4. CASE semqueue # << >>
  <2> DEFINE h == Head(semqueue)
  <2>1. /\ semqueue' = Tail(semqueue)
        /\ pc' = [pc EXCEPT ![p] = "user", ![h] = "handle"]
        /\ currpid' \in {p, h} /\ semfree' = semfree
    BY <1>1, <1>4 DEF Release
  <2>2. semqueue \in Seq(Procs) /\ Distinct(semqueue)
    BY DEF TypeInv, GateInv
  <2>3. /\ h \in Procs /\ Has(semqueue, h)
        /\ semqueue' \in Seq(Procs) /\ Distinct(semqueue')
        /\ \A q : Has(semqueue', q) <=> Has(semqueue, q) /\ q # h
    BY <1>4, <2>1, <2>2, TailMembers
  <2> HIDE DEF h
  <2>4. pc[h] = "blocked"
    BY <2>3 DEF GateInv
  <2>5. /\ pc' \in [Procs -> {"none", "user", "enter", "blocked", "handle", "release"}]
        /\ pc'[p] = "user" /\ pc'[h] = "handle"
        /\ \A q \in Procs : q # p /\ q # h => pc'[q] = pc[q]
    BY <1>1, <2>1, <2>3, <2>4 DEF TypeInv
  <2>6. TypeInv'
    BY <1>1, <2>1, <2>3, <2>5 DEF TypeInv
  <2>7. \A q \in Inside' : q = h
    BY <1>2, <2>5 DEF Inside
  <2>8. ~semfree
    BY <1>2 DEF GateInv
  <2>9. \A q \in Procs : Has(semqueue', q) <=> pc'[q] = "blocked"
    BY <1>1, <2>3, <2>4, <2>5 DEF GateInv
  <2> QED
    BY <2>1, <2>3, <2>6, <2>7, <2>8, <2>9 DEF GateInv
<1> QED
  BY <1>3, <1>4

\* The other steps move one process between places outside the handler, or from
\* one place inside to the other.
LEMMA plainGate ==
  ASSUME TypeInv, GateInv, sys' = sys, semqueue' = semqueue, semfree' = semfree,
         currpid' \in Procs \cup {MAIN},
         NEW p \in Procs, NEW x \in {"user", "enter", "release"},
         pc' = pc \/ pc' = [pc EXCEPT ![p] = x],
         pc[p] # "blocked", x = "release" => pc[p] = "handle"
  PROVE  TypeInv' /\ GateInv'
<1>1. CASE pc' = pc
  BY <1>1 DEF TypeInv, GateInv, Inside
<1>2. CASE pc' = [pc EXCEPT ![p] = x]
  <2>1. /\ pc' \in [Procs -> {"none", "user", "enter", "blocked", "handle", "release"}]
        /\ pc'[p] = x /\ \A q \in Procs : q # p => pc'[q] = pc[q]
    BY <1>2 DEF TypeInv
  <2>2. TypeInv'
    BY <2>1 DEF TypeInv
  <2>3. \A q \in Inside' : q \in Inside
    BY <2>1 DEF Inside
  <2>4. \A q \in Procs : Has(semqueue', q) <=> pc'[q] = "blocked"
    BY <2>1 DEF GateInv
  <2> QED
    BY <2>2, <2>3, <2>4 DEF GateInv
<1> QED
  BY <1>1, <1>2

\* Every step keeps the handler exclusive.
LEMMA GateStep ==
  ASSUME TypeInv, GateInv, [Next]_vars
  PROVE  TypeInv' /\ GateInv'
<1>1. ASSUME NEW p \in Procs, vcreate(p) PROVE TypeInv' /\ GateInv'
  <2>1. /\ pc[p] = "none" /\ pc' = [pc EXCEPT ![p] = "user"] /\ sys' = sys
        /\ currpid' = currpid /\ semqueue' = semqueue /\ semfree' = semfree
    BY <1>1 DEF vcreate
  <2>2. currpid' \in Procs \cup {MAIN} /\ pc[p] # "blocked"
    BY <2>1 DEF TypeInv
  <2> QED
    BY <2>1, <2>2, plainGate
<1>2. ASSUME NEW p \in Procs, kill(p) PROVE TypeInv' /\ GateInv'
  BY <1>2, killGate
<1>3. ASSUME NEW v \in Vpns, fault(v) PROVE TypeInv' /\ GateInv'
  <2>1. /\ currpid \in Procs /\ pc[currpid] = "user"
        /\ pc' = [pc EXCEPT ![currpid] = "enter"] /\ sys' = sys
        /\ currpid' = currpid /\ semqueue' = semqueue /\ semfree' = semfree
    BY <1>3 DEF fault, At
  <2>2. PICK p \in Procs : p = currpid
    BY <2>1
  <2>3. pc' = [pc EXCEPT ![p] = "enter"] /\ pc[p] # "blocked"
        /\ currpid' \in Procs \cup {MAIN}
    BY <2>1, <2>2
  <2> QED
    BY <2>1, <2>3, plainGate
<1>4. ASSUME myPageFault PROVE TypeInv' /\ GateInv'
  <2>1. /\ currpid \in Procs /\ pc[currpid] = "handle"
        /\ pc' = [pc EXCEPT ![currpid] = "release"] /\ sys' = sys
        /\ currpid' = currpid /\ semqueue' = semqueue /\ semfree' = semfree
    BY <1>4 DEF myPageFault, At
  <2>2. PICK p \in Procs : p = currpid
    BY <2>1
  <2>3. pc' = [pc EXCEPT ![p] = "release"] /\ pc[p] = "handle"
        /\ currpid' \in Procs \cup {MAIN}
    BY <2>1, <2>2
  <2> QED
    BY <2>1, <2>3, plainGate
<1>5. ASSUME currpid' \in Procs \cup {MAIN}, sys' = sys, pc' = pc,
             semqueue' = semqueue, semfree' = semfree
      PROVE  TypeInv' /\ GateInv'
  BY <1>5 DEF TypeInv, GateInv, Inside
<1>6. ASSUME NEW v \in Vpns, read(v) \/ \E d \in Vals \ {0} : write(v, d)
      PROVE  TypeInv' /\ GateInv'
  <2>1. /\ sys' = sys /\ pc' = pc /\ currpid' = currpid
        /\ semqueue' = semqueue /\ semfree' = semfree
    BY <1>6 DEF read, write
  <2> QED
    BY <1>5, <2>1 DEF TypeInv
<1>7. ASSUME NEW p \in Procs \cup {MAIN}, preempt(p) PROVE TypeInv' /\ GateInv'
  <2>1. /\ sys' = sys /\ pc' = pc /\ currpid' \in Procs \cup {MAIN}
        /\ semqueue' = semqueue /\ semfree' = semfree
    BY <1>7 DEF preempt
  <2> QED
    BY <1>5, <2>1
<1>8. ASSUME idle \/ UNCHANGED vars PROVE TypeInv' /\ GateInv'
  <2>1. /\ sys' = sys /\ pc' = pc /\ currpid' = currpid
        /\ semqueue' = semqueue /\ semfree' = semfree
    BY <1>8 DEF idle, vars
  <2> QED
    BY <1>5, <2>1 DEF TypeInv
<1> QED
  BY <1>1, <1>2, <1>3, <1>4, <1>6, <1>7, <1>8, enterGate, leaveGate DEF Next, Handler

\* At first nobody is in the handler or waits for it.
LEMMA GateInit ==
  ASSUME Init
  PROVE  TypeInv /\ GateInv
<1>1. pc = [p \in Procs |-> "none"] /\ semqueue = << >> /\ semfree = TRUE
      /\ currpid = MAIN /\ sys \in Systems
  BY DEF Init
<1>2. \A p : ~Has(semqueue, p)
  BY <1>1 DEF Has
<1>3. Distinct(semqueue) /\ semqueue \in Seq(Procs)
  BY <1>1 DEF Distinct
<1>4. Inside = {}
  BY <1>1 DEF Inside
<1> QED
  BY <1>1, <1>2, <1>3, <1>4 DEF TypeInv, GateInv

\* Whatever is created, killed, replaced and interrupted, at most one process is
\* inside the handler, those that wait are queued once each, and none waits
\* unless another is inside or was killed there.
THEOREM HandlerIsExclusive == Spec => []HandlerExclusive
<1>1. Init => TypeInv /\ GateInv
  BY GateInit
<1>2. TypeInv /\ GateInv /\ [Next]_vars => TypeInv' /\ GateInv'
  BY GateStep
<1>3. TypeInv /\ GateInv => HandlerExclusive
  <2> SUFFICES ASSUME TypeInv, GateInv PROVE HandlerExclusive
    OBVIOUS
  <2>1. Cardinality(Inside) <= 1
    <3>1. CASE Inside = {}
      BY <3>1, FS_EmptySet
    <3>2. CASE Inside # {}
      <4>1. PICK p \in Inside : Inside = {p}
        BY <3>2 DEF GateInv
      <4>2. Cardinality({p}) = 1
        BY FS_Singleton
      <4> QED
        BY <4>1, <4>2
    <3> QED
      BY <3>1, <3>2
  <2>2. semqueue # << >> => Inside # {} \/ Abandoned
    BY DEF GateInv, TypeInv, Abandoned, Inside
  <2>3. Range(semqueue) = {p \in Procs : pc[p] = "blocked"}
    <3>1. semqueue \in Seq(Procs)
      BY DEF TypeInv
    <3>2. \A p : p \in Range(semqueue) <=> Has(semqueue, p)
      BY <3>1 DEF Range, Has
    <3>3. \A p : Has(semqueue, p) => p \in Procs
      BY <3>1 DEF Has
    <3> QED
      BY <3>2, <3>3 DEF GateInv
  <2> QED
    BY <2>1, <2>2, <2>3 DEF HandlerExclusive, GateInv, Inside
<1> QED
  BY <1>1, <1>2, <1>3, PTL DEF Spec

----------------------------------------------------------------------------
\* The backing stores.  What the pager does to frames, tables and the disk leaves
\* bstab and bsmap as they are.

StoreFields == {"bstab", "bsmap"}

Kept(s, t) ==
    StoreFields \subseteq DOMAIN s =>
        StoreFields \subseteq DOMAIN t /\ t.bstab = s.bstab /\ t.bsmap = s.bsmap

\* Leaving them as they are, one step after the other.
LEMMA KeptOn ==
  ASSUME NEW s, NEW t, NEW u, Kept(s, t), Kept(t, u)
  PROVE  Kept(s, u)
BY DEF Kept

\* A field other than these two may be replaced.
LEMMA KeptBut ==
  ASSUME NEW s, NEW x
  PROVE  /\ Kept(s, [s EXCEPT !.iv = x])
         /\ Kept(s, [s EXCEPT !.fifo = x])
         /\ Kept(s, [s EXCEPT !.hand = x])
         /\ Kept(s, [s EXCEPT !.pd = x])
         /\ Kept(s, [s EXCEPT !.pt = x])
         /\ Kept(s, [s EXCEPT !.mem = x])
         /\ Kept(s, [s EXCEPT !.disk = x])
         /\ Kept(s, [s EXCEPT !.hooks = x])
         /\ Kept(s, [s EXCEPT !.panic = x])
BY DEF Kept, StoreFields

\* The steps by which the pager takes a frame and moves a page.
LEMMA KeptByMoves ==
  ASSUME NEW s, NEW f, NEW g, NEW pid, NEW vpn, NEW purpose
  PROVE  /\ Kept(s, Panic(s))
         /\ Kept(s, write_bs(s, pid, vpn, f))
         /\ Kept(s, read_bs(s, pid, vpn, f))
         /\ Kept(s, GcaScan(s))
         /\ Kept(s, Take(s, f, pid, vpn, purpose))
         /\ Kept(s, hook_pswap_out(s, pid, vpn))
         /\ Kept(s, SetUse(s, pid, vpn, f))
<1>1. Kept(s, Panic(s))
  BY DEF Kept, StoreFields, Panic
<1>2. Kept(s, write_bs(s, pid, vpn, f))
  BY <1>1 DEF Kept, StoreFields, write_bs
<1>3. Kept(s, read_bs(s, pid, vpn, f))
  BY <1>1 DEF Kept, StoreFields, read_bs
<1>4. Kept(s, GcaScan(s))
  BY DEF Kept, StoreFields, GcaScan
<1>5. Kept(s, Take(s, f, pid, vpn, purpose))
  BY DEF Kept, StoreFields, Take
<1>6. Kept(s, hook_pswap_out(s, pid, vpn))
  BY <1>1 DEF Kept, StoreFields, hook_pswap_out
<1>7. Kept(s, SetUse(s, pid, vpn, f))
  BY DEF Kept, StoreFields, SetUse
<1> QED
  BY <1>1, <1>2, <1>3, <1>4, <1>5, <1>6, <1>7

\* Replacing a page.
LEMMA KeptByEvict ==
  ASSUME NEW s0, NEW f
  PROVE  Kept(s0, Evict(s0, f))
<1> DEFINE pid == s0.iv[f].pid
           vpn == s0.iv[f].vpn
           tab == TabOf(s0, pid, vpn)
           s1 == write_bs(s0, pid, vpn, f)
           s2 == [s1 EXCEPT !.fifo = Unlink(@, {f}),
                            !.pt[tab][PtIdx(vpn)].pres = FALSE]
           s3 == IF s2.iv[tab].valid # "PAGE_TAB" THEN Panic(s2)
                 ELSE [s2 EXCEPT !.iv[tab].ref = @ - 1]
           s4 == IF s3.iv[tab].ref # 0 THEN s3
                 ELSE [s3 EXCEPT !.pd[pid][PdIdx(vpn)].pres = FALSE,
                                 !.iv[tab].valid = "NULL_PAGE"]
<1>1. Kept(s0, s1)
  BY KeptByMoves
<1>e. Evict(s0, f) = hook_pswap_out(s4, pid, vpn)
  BY DEF Evict
<1> HIDE DEF s1, pid, vpn, tab
<1>2. Kept(s1, s2)
  BY DEF Kept, StoreFields
<1> HIDE DEF s2
<1>3. Kept(s2, s3)
  BY KeptByMoves DEF Kept, StoreFields
<1> HIDE DEF s3
<1>4. Kept(s3, s4)
  BY DEF Kept, StoreFields
<1> HIDE DEF s4
<1>5. Kept(s4, Evict(s0, f))
  BY <1>e, KeptByMoves
<1> QED
  BY <1>1, <1>2, <1>3, <1>4, <1>5, KeptOn

\* Obtaining a frame.
LEMMA KeptByFrame ==
  ASSUME NEW s, NEW pid, NEW vpn, NEW purpose
  PROVE  Kept(s, get_free_frame(s, pid, vpn, purpose))
<1> DEFINE f == FrameFor(s)
           s1 == IF sys.policy = "GCA" THEN GcaScan(s) ELSE s
           s2 == Evict(s1, f)
<1>1. Kept(s, s1)
  BY KeptByMoves DEF Kept
<1>2. Kept(s1, s2)
  BY KeptByEvict
<1>3. Kept(s2, Take(s2, f, pid, vpn, purpose))
  BY KeptByMoves
<1>4. Kept(s, Take(s, f, pid, vpn, purpose)) /\ Kept(s, Panic(s))
  BY KeptByMoves
<1>5. get_free_frame(s, pid, vpn, purpose) \in
          {Panic(s), Take(s, f, pid, vpn, purpose), Take(s2, f, pid, vpn, purpose)}
  BY DEF get_free_frame
<1> HIDE DEF f, s1, s2
<1>6. Kept(s, Take(s2, f, pid, vpn, purpose))
  BY <1>1, <1>2, <1>3, KeptOn
<1> QED
  BY <1>4, <1>5, <1>6

\* Serving a fault.
LEMMA KeptByFault ==
  ASSUME NEW s0, NEW pid, NEW vpn
  PROVE  Kept(s0, ServeFault(s0, pid, vpn))
<1> DEFINE d == PdIdx(vpn)
           g == FrameFor(s0)
           r == get_free_frame(s0, pid, 0, "PAGE_TAB")
           s1 == IF s0.pd[pid][d].pres THEN s0 ELSE create_pagetable(s0, pid, d)
           tab == s1.pd[pid][d].base
           f == FrameFor(s1)
           s2 == get_free_frame(s1, pid, vpn, "PAGE")
           s3 == read_bs(s2, pid, vpn, f)
           s4 == [s3 EXCEPT
                !.pt[tab][PtIdx(vpn)] = [pres |-> TRUE, base |-> f, use |-> 0],
                !.iv[s3.pd[pid][d].base].ref = @ + 1,
                !.hooks = hook_pfault(@, pid, vpn)]
<1>1. Kept(s0, create_pagetable(s0, pid, d))
  <2>1. Kept(s0, r)
    BY KeptByFrame
  <2>2. create_pagetable(s0, pid, d) =
          IF r.panic THEN r
          ELSE [r EXCEPT !.pd[pid][d] = [pres |-> TRUE, base |-> g]]
    BY DEF create_pagetable
  <2> HIDE DEF r
  <2>3. Kept(r, create_pagetable(s0, pid, d))
    BY <2>2 DEF Kept, StoreFields
  <2> QED
    BY <2>1, <2>3, KeptOn
<1>2. Kept(s0, s1)
  BY <1>1 DEF Kept
<1>e. ServeFault(s0, pid, vpn) \in {s1, s2, s3, s4}
  BY DEF ServeFault
<1>3. Kept(s1, s2)
  BY KeptByFrame
<1>4. Kept(s2, s3)
  BY KeptByMoves
<1> HIDE DEF s1, s2, s3, d, tab, f
<1>5. Kept(s3, s4)
  BY DEF Kept, StoreFields
<1> HIDE DEF s4
<1>6. Kept(s0, s2)
  BY <1>2, <1>3, KeptOn
<1>7. Kept(s0, s3)
  BY <1>4, <1>6, KeptOn
<1>8. Kept(s0, s4)
  BY <1>5, <1>7, KeptOn
<1> QED
  BY <1>e, <1>2, <1>6, <1>7, <1>8

----------------------------------------------------------------------------
\* Which pages the stores hold.

BsRec == [isopen : BOOLEAN, isallocated : BOOLEAN, usecount : Int, npages : Nat]

Free(s) == {b \in Stores : ~s.bstab[b].isallocated}

\* A store is mapped while it is allocated, for as many pages as it is open for.
Mapped(s, b, A) ==
    /\ s.bstab[b].isopen = s.bstab[b].isallocated
    /\ s.bstab[b].usecount = 0
    /\ s.bstab[b].isallocated <=> s.bsmap[b].pid # 0
    /\ s.bstab[b].isallocated =>
          /\ s.bsmap[b].pid \in A
          /\ s.bsmap[b].num \in 1..PagesPerStore
          /\ s.bstab[b].npages = s.bsmap[b].num

\* The processes in A, and they alone, have stores, and the first n[p] pages of
\* each are in one.
StoreInv(s, A, n) ==
    /\ StoreFields \subseteq DOMAIN s
    /\ s.bstab \in [Stores -> BsRec]
    /\ s.bsmap \in [Stores -> BsEntry]
    /\ \A b \in Stores : Mapped(s, b, A)
    /\ \A p \in A : \A v \in 0..(n[p] - 1) : HasStore(s, p, v)

\* All that counts is in bstab and bsmap.
LEMMA StoreInvKept ==
  ASSUME NEW s, NEW t, Kept(s, t), NEW A, NEW n, StoreInv(s, A, n)
  PROVE  StoreInv(t, A, n)
BY DEF StoreInv, Kept, Mapped, HasStore, Maps

\* A new process has no store, and more processes may have some.
LEMMA StoreInvNone ==
  ASSUME NEW s, NEW A, NEW n, StoreInv(s, A, n), NEW p, NEW m, m[p] = 0,
         \A q \in A : m[q] = n[q]
  PROVE  StoreInv(s, A \cup {p}, m)
BY DEF StoreInv, Mapped

\* Two places are one only in the same store.
LEMMA PlaceUnique ==
  ASSUME NEW b \in Nat, NEW c \in Nat, NEW r \in Nat,
         NEW x \in 0..(r - 1), NEW y \in 0..(r - 1), b * r + x = c * r + y
  PROVE  b = c /\ x = y
<1>1. ASSUME NEW d \in Nat, NEW e \in Nat, d < e,
             NEW u \in 0..(r - 1), NEW w \in 0..(r - 1)
      PROVE  d * r + u < e * r + w
  <2>1. PICK k \in Nat : e = d + 1 + k
    <3>1. e - d - 1 \in Nat /\ e = d + 1 + (e - d - 1)
      BY <1>1
    <3> QED
      BY <3>1
  <2>2. e * r = d * r + r + k * r
    BY <2>1
  <2>3. k * r \in Nat /\ d * r \in Nat
    OBVIOUS
  <2> DEFINE kr == k * r
             dr == d * r
             er == e * r
  <2>4. er = dr + r + kr /\ kr \in Nat /\ dr \in Nat
    BY <2>2, <2>3
  <2> HIDE DEF kr, dr, er
  <2>5. dr + u < er + w
    BY <2>4
  <2> QED
    BY <2>5 DEF dr, er
<1>2. ~(b < c) /\ ~(c < b)
  <2> DEFINE br == b * r + x
             cr == c * r + y
  <2>1. br \in Int /\ cr \in Int /\ br = cr
    OBVIOUS
  <2>2. b < c => br < cr
    BY <1>1
  <2>3. c < b => cr < br
    BY <1>1
  <2> HIDE DEF br, cr
  <2> QED
    BY <2>1, <2>2, <2>3
<1>3. b = c
  BY <1>2
<1>4. x = y
  <2> DEFINE br == b * r
  <2>1. br \in Nat /\ br + x = br + y
    BY <1>3
  <2> HIDE DEF br
  <2> QED
    BY <2>1
<1> QED
  BY <1>3, <1>4

\* Each page of a process with stores has a place, which no other page has.
LEMMA PlacesApart ==
  ASSUME NEW s, NEW A, NEW n, A \subseteq Procs, n \in [Procs -> Nat], StoreInv(s, A, n)
  PROVE  /\ \A p \in A : \A v \in 0..(n[p] - 1) :
              /\ Store(s, p, v) \in Stores
              /\ Maps(s, Store(s, p, v), p, v)
              /\ InStore(s.bstab, Store(s, p, v), Offset(s, p, v))
              /\ Offset(s, p, v) \in 0..(PagesPerStore - 1)
         /\ \A p, q \in A : \A v \in 0..(n[p] - 1), w \in 0..(n[q] - 1) :
              Place(s, p, v) = Place(s, q, w) => p = q /\ v = w
<1>1. ASSUME NEW p \in A, NEW v \in 0..(n[p] - 1)
      PROVE  LET b == Store(s, p, v) IN
             /\ b \in Stores
             /\ Maps(s, b, p, v)
             /\ InStore(s.bstab, b, Offset(s, p, v))
             /\ Offset(s, p, v) \in 0..(PagesPerStore - 1)
             /\ Offset(s, p, v) = v - s.bsmap[b].start /\ s.bsmap[b].start \in Nat
  <2> DEFINE B == {c \in Stores : Maps(s, c, p, v)}
             b == Min(B)
             m == s.bsmap[b]
             e == s.bstab[b]
  <2>1. B # {} /\ B \subseteq Nat
    BY DEF StoreInv, HasStore, Stores
  <2>2. b = Store(s, p, v)
    BY DEF Store
  <2> HIDE DEF B
  <2>3. b \in B
    BY <2>1, LeastNat
  <2>4. b \in Stores /\ Maps(s, b, p, v)
    BY <2>3 DEF B
  <2>o. Offset(s, p, v) = v - m.start
    BY <2>2 DEF Offset
  <2> HIDE DEF b
  <2>5. m \in BsEntry /\ e \in BsRec /\ Mapped(s, b, A)
    BY <2>4 DEF StoreInv
  <2>6. p # 0 /\ p \in Procs
    BY PagingAssumption
  <2>7. m.pid = p /\ v >= m.start /\ v - m.start < m.num
    BY <2>4 DEF Maps
  <2>8. m.num \in 1..PagesPerStore /\ e.isopen /\ e.npages = m.num /\ m.start \in Nat
    BY <2>5, <2>6, <2>7 DEF Mapped, BsRec, BsEntry
  <2>9. v \in Nat /\ PagesPerStore \in Nat
    BY BackingStoreAssumption
  <2>10. v - m.start \in 0..(PagesPerStore - 1)
    BY <2>7, <2>8, <2>9
  <2>11. InStore(s.bstab, b, v - m.start)
    BY <2>7, <2>8 DEF InStore
  <2> HIDE DEF m, e
  <2> QED
    BY <2>2, <2>4, <2>o, <2>8, <2>10, <2>11 DEF m
<1>2. ASSUME NEW p \in A, NEW q \in A, NEW v \in 0..(n[p] - 1), NEW w \in 0..(n[q] - 1),
             Place(s, p, v) = Place(s, q, w)
      PROVE  p = q /\ v = w
  <2> DEFINE b == Store(s, p, v)
             c == Store(s, q, w)
             x == Offset(s, p, v)
             y == Offset(s, q, w)
  <2>1. /\ b \in Stores /\ Maps(s, b, p, v) /\ x \in 0..(PagesPerStore - 1)
        /\ x = v - s.bsmap[b].start /\ s.bsmap[b].start \in Nat
    BY <1>1
  <2>2. /\ c \in Stores /\ Maps(s, c, q, w) /\ y \in 0..(PagesPerStore - 1)
        /\ y = w - s.bsmap[c].start
    BY <1>1
  <2>3. b * RdPagesPerBs + x = c * RdPagesPerBs + y
    BY <1>2 DEF Place, PageAt
  <2> HIDE DEF b, c, x, y
  <2>4. RdPagesPerBs \in Nat /\ RdPagesPerBs >= PagesPerStore /\ PagesPerStore \in Nat
    BY BackingStoreAssumption
  <2>5. x \in 0..(RdPagesPerBs - 1) /\ y \in 0..(RdPagesPerBs - 1)
    BY <2>1, <2>2, <2>4
  <2>6. b \in Nat /\ c \in Nat
    BY <2>1, <2>2 DEF Stores
  <2>7. b = c /\ x = y
    BY <2>3, <2>4, <2>5, <2>6, PlaceUnique
  <2>8. p = q
    BY <2>1, <2>2, <2>7 DEF Maps
  <2>9. v \in Int /\ w \in Int
    BY <2>8
  <2> QED
    BY <2>1, <2>2, <2>7, <2>8, <2>9
<1> QED
  BY <1>1, <1>2

\* bs_mapping takes one free store for the next m pages of p.
LEMMA MappingStores ==
  ASSUME NEW s, NEW A \in SUBSET Procs, NEW n \in [Procs -> Nat], StoreInv(s, A, n),
         NEW p \in A, NEW m \in 1..PagesPerStore, Free(s) # {},
         NEW o, o = [n EXCEPT ![p] = @ + m], NEW u, u = bs_mapping(s, p, m, n[p])
  PROVE  /\ StoreInv(u, A, o)
         /\ \E b \in Free(s) : Free(u) = Free(s) \ {b}
<1> DEFINE F == Free(s)
           b == Min(F)
           t == bs_mapping(s, p, m, n[p])
           e == [isopen |-> TRUE, isallocated |-> TRUE, usecount |-> 0, npages |-> m]
           x == [pid |-> p, num |-> m, start |-> n[p]]
<1>1. F # {} /\ F \subseteq Nat
  BY DEF Free, Stores
<1>2. Allocatable(s.bstab, m) = F
  BY DEF Allocatable, Gettable, Free, StoreInv, Mapped
<1>3. StoreFor(s.bstab, m) = b
  BY <1>1, <1>2 DEF StoreFor
<1> HIDE DEF F
<1>4. b \in F
  BY <1>1, LeastNat
<1> HIDE DEF b
<1>5. b \in Stores /\ ~s.bstab[b].isallocated /\ s.bstab[b] \in BsRec
  BY <1>4 DEF F, Free, StoreInv
<1>6. s.bsmap[b].pid = 0
  BY <1>5 DEF StoreInv, Mapped
<1>7. b # NOSTORE
  BY <1>5 DEF Stores, NOSTORE
<1>8. m \in Nat /\ m # 0 /\ n[p] \in Nat
  BY BackingStoreAssumption
<1>9. allocate_bs(s.bstab, m) = [s.bstab EXCEPT ![b] = e]
  <2>1. [get_bs(s.bstab[b], m) EXCEPT !.isallocated = TRUE, !.usecount = 0] = e
    <3> DEFINE y == s.bstab[b]
               y1 == [y EXCEPT !.isopen = TRUE, !.npages = m]
               y2 == [y1 EXCEPT !.isallocated = TRUE]
               y3 == [y2 EXCEPT !.usecount = 0]
    <3>1. y \in BsRec /\ m \in Nat
      BY <1>5, <1>8
    <3> HIDE DEF y
    <3>2. /\ y1 \in BsRec
          /\ y1.isopen = TRUE /\ y1.npages = m
      BY <3>1 DEF BsRec
    <3> HIDE DEF y1
    <3>3. /\ y2 \in BsRec
          /\ y2.isopen = TRUE /\ y2.npages = m /\ y2.isallocated = TRUE
      BY <3>2 DEF BsRec
    <3> HIDE DEF y2
    <3>4. /\ y3 \in BsRec
          /\ y3.isopen = TRUE /\ y3.npages = m /\ y3.isallocated = TRUE /\ y3.usecount = 0
      BY <3>3 DEF BsRec
    <3> HIDE DEF y3
    <3>5. y3 = e
      BY <3>1, <3>4 DEF BsRec
    <3> QED
      BY <3>5 DEF get_bs, y, y1, y2, y3
  <2> HIDE DEF e
  <2> QED
    BY <1>3, <1>7, <2>1 DEF allocate_bs
<1>10. /\ StoreFields \subseteq DOMAIN t
       /\ t.bstab = [s.bstab EXCEPT ![b] = e]
       /\ t.bsmap = [s.bsmap EXCEPT ![b] = x]
  <2>1. /\ m # 0 /\ StoreFor(s.bstab, m) = b /\ s.bsmap[b].pid = 0
        /\ StoreFields \subseteq DOMAIN s
    BY <1>3, <1>6, <1>8 DEF StoreInv
  <2>2. t = [s EXCEPT !.bstab = allocate_bs(@, m),
                      !.bsmap[b] = IF @.pid # 0 THEN @ ELSE x]
    BY <2>1 DEF bs_mapping
  <2> HIDE DEF x, t, e
  <2>3. /\ StoreFields \subseteq DOMAIN t
        /\ t.bstab = allocate_bs(s.bstab, m)
        /\ t.bsmap = [s.bsmap EXCEPT ![b] = IF s.bsmap[b].pid # 0 THEN s.bsmap[b] ELSE x]
    BY <2>1, <2>2 DEF StoreFields
  <2> QED
    BY <2>1, <2>3, <1>9
<1>11. e \in BsRec /\ x \in BsEntry
  BY <1>8, PagingAssumption DEF BsRec, BsEntry
<1>12. s.bstab \in [Stores -> BsRec] /\ s.bsmap \in [Stores -> BsEntry]
  BY DEF StoreInv
<1> HIDE DEF t
<1>13. /\ t.bstab \in [Stores -> BsRec] /\ t.bsmap \in [Stores -> BsEntry]
       /\ t.bstab[b] = e /\ t.bsmap[b] = x
       /\ \A c \in Stores : c # b => t.bstab[c] = s.bstab[c] /\ t.bsmap[c] = s.bsmap[c]
  <2> HIDE DEF e, x
  <2> QED
    BY <1>5, <1>10, <1>11, <1>12
<1>14. Mapped(t, b, A)
  BY <1>8, <1>13, PagingAssumption DEF Mapped
<1>15. \A c \in Stores : Mapped(t, c, A)
  <2> HIDE DEF e, x
  <2>1. \A c \in Stores : c # b => Mapped(t, c, A)
    BY <1>13 DEF StoreInv, Mapped
  <2> QED
    BY <1>14, <2>1
<1>16. \A c \in Stores : \A q, v : Maps(s, c, q, v) /\ q # 0 => Maps(t, c, q, v)
  <2> HIDE DEF e, x
  <2>1. \A c \in Stores : c # b => \A q, v : Maps(s, c, q, v) => Maps(t, c, q, v)
    BY <1>13 DEF Maps
  <2>2. \A q, v : Maps(s, b, q, v) => q = 0
    BY <1>6 DEF Maps
  <2> QED
    BY <2>1, <2>2
<1>17. ASSUME NEW q \in A, NEW v \in 0..([n EXCEPT ![p] = @ + m][q] - 1)
       PROVE  HasStore(t, q, v)
  <2>1. CASE v \in 0..(n[q] - 1)
    <3>1. PICK c \in Stores : Maps(s, c, q, v)
      BY <2>1 DEF StoreInv, HasStore
    <3>2. q # 0
      BY PagingAssumption
    <3> QED
      BY <1>16, <3>1, <3>2 DEF HasStore
  <2>2. CASE v \notin 0..(n[q] - 1)
    <3>1. q = p
      BY <2>2
    <3>2. v \in Nat /\ v >= n[p] /\ v < n[p] + m
      BY <2>2, <3>1, <1>8
    <3>3. Maps(t, b, p, v)
      <4>1. t.bsmap[b].pid = p /\ t.bsmap[b].num = m /\ t.bsmap[b].start = n[p]
        BY <1>13
      <4>2. v - n[p] < m
        BY <3>2, <1>8
      <4> QED
        BY <4>1, <4>2, <3>2 DEF Maps
    <3> QED
      BY <1>5, <3>1, <3>3 DEF HasStore
  <2> QED
    BY <2>1, <2>2
<1>18. StoreInv(t, A, [n EXCEPT ![p] = @ + m])
  BY <1>10, <1>13, <1>15, <1>17 DEF StoreInv
<1>19. Free(t) = Free(s) \ {b}
  <2>1. t.bstab[b].isallocated
    BY <1>13
  <2> HIDE DEF e, x
  <2> QED
    BY <1>13, <2>1 DEF Free
<1> QED
  BY <1>4, <1>18, <1>19 DEF F, t

----------------------------------------------------------------------------
\* vcreate's loop over the pieces of a heap.

\* Pages in the first k pieces of a heap of h pages.
Upto(h, k) == IF k * PagesPerStore <= h THEN k * PagesPerStore ELSE h

\* The pieces have one to PagesPerStore pages, follow each other and make up the
\* heap.
LEMMA PiecesOfHeap ==
  ASSUME NEW p, NEW h \in Nat, h = sys.hsize[p]
  PROVE  /\ Pieces(p) \in Nat
         /\ Upto(h, 0) = 0
         /\ Upto(h, Pieces(p)) = h
         /\ \A k \in 1..Pieces(p) :
              LET m == Min({PagesPerStore, h - (k - 1) * PagesPerStore}) IN
              /\ Upto(h, k - 1) = (k - 1) * PagesPerStore
              /\ m \in 1..PagesPerStore
              /\ Upto(h, k) = Upto(h, k - 1) + m
<1> DEFINE r == PagesPerStore
           N == Pieces(p)
           a == h + r - 1
<1>1. r \in Nat /\ r > 0 /\ a \in Nat
  BY BackingStoreAssumption
<1>2. N = a \div r
  BY DEF Pieces
<1> HIDE DEF r, N
<1>3. N \in Nat /\ N * r <= a /\ a < N * r + r
  <2> HIDE DEF a
  <2>1. a \div r \in Nat /\ r * (a \div r) <= a /\ a < r * (a \div r) + r
    BY <1>1
  <2>2. r * N = N * r
    BY <1>1, <1>2, <2>1
  <2> QED
    BY <1>1, <1>2, <2>1, <2>2
<1> DEFINE Nr == N * r
<1>4. Nr \in Nat /\ Nr <= a /\ a < Nr + r
  BY <1>1, <1>3
<1> HIDE DEF Nr
<1>5. h <= Nr /\ Nr < h + r
  BY <1>1, <1>4
<1>6. Upto(h, 0) = 0
  <2>1. 0 * r = 0
    BY <1>1
  <2> QED
    BY <2>1 DEF Upto, r
<1>7. Upto(h, N) = h
  BY <1>4, <1>5 DEF Upto, Nr, r
<1>8. ASSUME NEW k \in 1..N
      PROVE  LET m == Min({r, h - (k - 1) * r}) IN
             /\ Upto(h, k - 1) = (k - 1) * r
             /\ m \in 1..r
             /\ Upto(h, k) = Upto(h, k - 1) + m
  <2> DEFINE c == (k - 1) * r
             d == k * r
             T == {r, h - c}
             m == Min(T)
  <2>1. c \in Nat /\ d = c + r /\ d \in Nat
    BY <1>1, <1>3
  <2>2. d <= Nr
    <3>1. PICK j \in Nat : N = k + j
      <4>1. N - k \in Nat /\ N = k + (N - k)
        BY <1>3
      <4> QED
        BY <4>1
    <3>2. N * r = k * r + j * r /\ j * r \in Nat
      BY <1>1, <3>1
    <3> DEFINE jr == j * r
    <3>3. Nr = d + jr /\ jr \in Nat
      BY <3>2 DEF Nr
    <3> HIDE DEF jr, d
    <3> QED
      BY <2>1, <3>3
  <2>3. Upto(h, k) = IF d <= h THEN d ELSE h
    BY DEF Upto, r
  <2>4. Upto(h, k - 1) = IF c <= h THEN c ELSE h
    BY DEF Upto, r
  <2> HIDE DEF c, d
  <2>5. c < h
    BY <1>1, <1>5, <2>1, <2>2, <1>4
  <2>6. T \subseteq Nat /\ T # {}
    BY <1>1, <2>1, <2>5
  <2>7. m \in T /\ \A y \in T : m <= y
    <3> HIDE DEF T
    <3> QED
      BY <2>6, LeastNat
  <2> HIDE DEF m
  <2>8. m \in 1..r /\ m = IF d <= h THEN r ELSE h - c
    BY <1>1, <2>1, <2>5, <2>7
  <2>9. Upto(h, k - 1) = c /\ Upto(h, k) = c + m
    BY <1>1, <2>1, <2>3, <2>4, <2>5, <2>8
  <2> QED
    BY <2>8, <2>9 DEF m, T, c
<1> QED
  BY <1>3, <1>6, <1>7, <1>8 DEF N, r

\* f[k] is the state after k pieces.
IsMapped(f, s, p, n) ==
    f = [k \in 0..n |-> IF k = 0 THEN s ELSE MapPiece(f[k - 1], p, k)]

\* There is such a function.  What would be an induction on n is a step from the
\* least number without one.
LEMMA MappedExists ==
  ASSUME NEW s, NEW p, NEW n \in Nat
  PROVE  \E f : IsMapped(f, s, p, n)
<1> DEFINE T == {m \in Nat : ~\E f : IsMapped(f, s, p, m)}
<1>1. CASE n \notin T
  BY <1>1
<1>2. CASE n \in T
  <2> DEFINE m == Min(T)
  <2>1. m \in T /\ \A y \in T : m <= y
    <3>1. T \subseteq Nat /\ T # {}
      BY <1>2
    <3> HIDE DEF T
    <3> QED
      BY <3>1, LeastNat
  <2> HIDE DEF m
  <2>2. m # 0
    <3>1. IsMapped([k \in 0..0 |-> s], s, p, 0)
      BY DEF IsMapped
    <3> QED
      BY <2>1, <3>1
  <2>3. m \in Nat /\ m - 1 \in Nat /\ m - 1 \notin T
    BY <2>1, <2>2
  <2>4. PICK f : IsMapped(f, s, p, m - 1)
    BY <2>3
  <2> DEFINE g == [k \in 0..m |-> IF k = m THEN MapPiece(f[m - 1], p, m) ELSE f[k]]
  <2>5. ASSUME NEW k \in 0..m
        PROVE  g[k] = IF k = 0 THEN s ELSE MapPiece(g[k - 1], p, k)
    <3>1. CASE k = m
      <4>1. g[k] = MapPiece(f[m - 1], p, m) /\ g[m - 1] = f[m - 1]
        BY <2>3, <3>1
      <4> QED
        BY <2>2, <3>1, <4>1
    <3>2. CASE k # m
      <4>1. k \in 0..(m - 1) /\ g[k] = f[k]
        BY <2>3, <3>2
      <4>2. f[k] = IF k = 0 THEN s ELSE MapPiece(f[k - 1], p, k)
        BY <2>4, <4>1 DEF IsMapped
      <4>3. k # 0 => g[k - 1] = f[k - 1]
        BY <2>3, <3>2
      <4> QED
        BY <4>1, <4>2, <4>3
    <3> QED
      BY <3>1, <3>2
  <2>6. IsMapped(g, s, p, m)
    <3>1. g = [k \in 0..m |-> g[k]]
      OBVIOUS
    <3> HIDE DEF g
    <3> QED
      BY <2>5, <3>1 DEF IsMapped
  <2> HIDE DEF g
  <2> QED
    BY <2>1, <2>6
<1> QED
  BY <1>1, <1>2

\* The loop over the pieces gives the new process p a store for each of its pages,
\* provided there are as many free ones as pieces.
LEMMA MapHeapStores ==
  ASSUME NEW s, NEW A, NEW n, A \subseteq Procs, n \in [Procs -> Nat], StoreInv(s, A, n),
         NEW p \in Procs, p \notin A, NEW h \in Nat, h = sys.hsize[p], n[p] = h,
         Cardinality(Free(s)) >= Pieces(p)
  PROVE  StoreInv(MapHeap(s, p), A \cup {p}, n)
<1> DEFINE N == Pieces(p)
           f == CHOOSE g : IsMapped(g, s, p, N)
           len(k) == [n EXCEPT ![p] = Upto(h, k)]
           J(k) == /\ StoreInv(f[k], A \cup {p}, len(k))
                   /\ IsFiniteSet(Free(f[k]))
                   /\ Cardinality(Free(f[k])) >= N - k
           T == {k \in 0..N : ~J(k)}
<1>1. /\ N \in Nat /\ Upto(h, 0) = 0 /\ Upto(h, N) = h
      /\ \A k \in 1..N :
              LET m == Min({PagesPerStore, h - (k - 1) * PagesPerStore}) IN
              /\ Upto(h, k - 1) = (k - 1) * PagesPerStore
              /\ m \in 1..PagesPerStore
              /\ Upto(h, k) = Upto(h, k - 1) + m
  BY PiecesOfHeap
<1>2. MapHeap(s, p) = f[N]
  BY DEF MapHeap, IsMapped
<1>3. IsMapped(f, s, p, N)
  <2>1. \E g : IsMapped(g, s, p, N)
    <3> HIDE DEF N, f
    <3> QED
      BY <1>1, MappedExists
  <2> QED
    BY <2>1
<1> HIDE DEF f, N
<1>4. f[0] = s /\ \A k \in 1..N : f[k] = MapPiece(f[k - 1], p, k)
  BY <1>1, <1>3 DEF IsMapped
<1>5. \A k : p \in A \cup {p} /\ \A q \in A : len(k)[q] = n[q]
  OBVIOUS
<1>6. \A k \in 0..N : Upto(h, k) \in Nat
  BY BackingStoreAssumption DEF Upto
<1>7. \A k \in 0..N : len(k) \in [Procs -> Nat] /\ len(k)[p] = Upto(h, k)
  BY <1>6
<1>8. J(0)
  <2>1. StoreInv(f[0], A \cup {p}, len(0))
    <3>1. len(0)[p] = 0
      BY <1>1, <1>7
    <3> HIDE DEF len
    <3> QED
      BY <1>4, <1>5, <3>1, StoreInvNone
  <2>2. IsFiniteSet(Free(f[0])) /\ Cardinality(Free(f[0])) >= N - 0
    <3>1. IsFiniteSet(Stores) /\ Free(f[0]) \subseteq Stores
      <4>1. 0 \in Int /\ NStores - 1 \in Int
        BY BackingStoreAssumption
      <4>2. IsFiniteSet(0..(NStores - 1))
        BY <4>1, FS_Interval
      <4> QED
        BY <4>2 DEF Stores, Free
    <3>2. IsFiniteSet(Free(f[0]))
      BY <3>1, FS_Subset
    <3> QED
      BY <1>1, <1>4, <3>2 DEF N
  <2> QED
    BY <2>1, <2>2
<1>9. ASSUME NEW k \in 1..N, J(k - 1)
      PROVE  J(k)
  <2> DEFINE t == f[k - 1]
             B == A \cup {p}
             l == len(k - 1)
             m == Min({PagesPerStore, h - (k - 1) * PagesPerStore})
             u == bs_mapping(t, p, m, l[p])
  <2>1. k - 1 \in 0..N /\ k \in 0..N
    BY <1>1
  <2>2. StoreInv(t, B, l) /\ IsFiniteSet(Free(t)) /\ Cardinality(Free(t)) >= N - (k - 1)
    BY <1>9
  <2>3. /\ Upto(h, k - 1) = (k - 1) * PagesPerStore /\ m \in 1..PagesPerStore
        /\ Upto(h, k) = Upto(h, k - 1) + m
    BY <1>1
  <2>4. l \in [Procs -> Nat] /\ l[p] = Upto(h, k - 1) /\ p \in B /\ B \subseteq Procs
    BY <1>7, <2>1
  <2>5. Free(t) # {}
    <3>1. ASSUME Free(t) = {} PROVE FALSE
      <4>1. Cardinality(Free(t)) = 0
        BY <3>1, FS_EmptySet
      <4> QED
        BY <1>1, <2>2, <4>1
    <3> QED
      BY <3>1
  <2>6. f[k] = u
    <3>1. f[k] = bs_mapping(t, p, m, (k - 1) * PagesPerStore)
      BY <1>4 DEF MapPiece
    <3> QED
      BY <2>3, <2>4, <3>1
  <2>7. len(k) = [l EXCEPT ![p] = @ + m]
    BY <2>3, <2>4
  <2> HIDE DEF t, B, l, m, len, u
  <2>8. /\ StoreInv(u, B, [l EXCEPT ![p] = @ + m])
        /\ \E b \in Free(t) : Free(u) = Free(t) \ {b}
    <3>1. /\ m \in 1..PagesPerStore /\ p \in B /\ B \in SUBSET Procs
          /\ l \in [Procs -> Nat] /\ StoreInv(t, B, l) /\ Free(t) # {}
      BY <2>2, <2>3, <2>4, <2>5
    <3>2. u = bs_mapping(t, p, m, l[p])
      BY DEF u
    <3> DEFINE o == [l EXCEPT ![p] = @ + m]
    <3>3. o = [l EXCEPT ![p] = @ + m]
      OBVIOUS
    <3> HIDE DEF o
    <3>4. StoreInv(u, B, o)
      BY <3>1, <3>2, <3>3, MappingStores
    <3>5. \E b \in Free(t) : Free(u) = Free(t) \ {b}
      BY <3>1, <3>2, <3>3, MappingStores
    <3> QED
      BY <3>4, <3>5 DEF o
  <2>9. PICK b \in Free(t) : Free(u) = Free(t) \ {b}
    BY <2>8
  <2>10. IsFiniteSet(Free(u)) /\ Cardinality(Free(u)) = Cardinality(Free(t)) - 1
    BY <2>2, <2>9, FS_RemoveElement
  <2>11. Cardinality(Free(t)) \in Nat
    BY <2>2, FS_CardinalityType
  <2>12. Cardinality(Free(u)) >= N - k
    BY <1>1, <2>2, <2>10, <2>11
  <2> QED
    BY <2>6, <2>7, <2>8, <2>10, <2>12 DEF B
<1>10. J(N)
  <2> HIDE DEF J
  <2>1. CASE T = {}
    BY <1>1, <2>1
  <2>2. CASE T # {}
    <3> DEFINE k == Min(T)
    <3>1. k \in T /\ \A y \in T : k <= y
      <4>1. T \subseteq Nat
        OBVIOUS
      <4> HIDE DEF T
      <4> QED
        BY <2>2, <4>1, LeastNat
    <3> HIDE DEF k
    <3>2. k \in 0..N /\ ~J(k)
      BY <3>1
    <3>3. k # 0
      BY <1>8, <3>2
    <3>4. k \in 1..N /\ k - 1 \in 0..N /\ ~(k <= k - 1)
      BY <1>1, <3>2, <3>3
    <3>6. k - 1 \notin T
      <4> HIDE DEF T
      <4> QED
        BY <3>1, <3>4
    <3>5. J(k - 1)
      BY <3>4, <3>6
    <3> QED
      BY <1>9, <3>2, <3>4, <3>5
  <2> QED
    BY <2>1, <2>2
<1>11. len(N) = n
  BY <1>1
<1> QED
  BY <1>2, <1>10, <1>11

----------------------------------------------------------------------------
\* kill gives the stores of p back, and takes no other's.
LEMMA KillStores ==
  ASSUME NEW s, NEW A, NEW n, StoreInv(s, A, n), NEW p \in Procs
  PROVE  StoreInv(FreeFramesOf(s, p), A \ {p}, n)
<1> DEFINE t == FreeFramesOf(s, p)
<1>1. /\ StoreFields \subseteq DOMAIN t
      /\ t.bstab = [b \in Stores |-> IF s.bsmap[b].pid = p THEN deallocate_bs(s.bstab[b])
                                     ELSE s.bstab[b]]
      /\ t.bsmap = [b \in Stores |-> IF s.bsmap[b].pid = p THEN NoBs ELSE s.bsmap[b]]
  BY DEF FreeFramesOf, StoreInv, StoreFields
<1> HIDE DEF t
<1>2. \A b \in Stores : s.bstab[b] \in BsRec /\ s.bsmap[b] \in BsEntry /\ Mapped(s, b, A)
  BY DEF StoreInv
<1>3. ASSUME NEW b \in Stores, s.bsmap[b].pid = p
      PROVE  /\ t.bstab[b] \in BsRec /\ t.bsmap[b] = NoBs
             /\ t.bstab[b].isopen = FALSE /\ t.bstab[b].isallocated = FALSE
             /\ t.bstab[b].usecount = 0
  <2> DEFINE e == s.bstab[b]
             y == [e EXCEPT !.isopen = FALSE, !.npages = 0]
             z == [y EXCEPT !.isallocated = FALSE]
             w == [z EXCEPT !.usecount = 0]
  <2>1. e.isallocated /\ e.isopen /\ e.usecount = 0 /\ e \in BsRec
    <3>1. s.bsmap[b].pid # 0
      BY <1>3, PagingAssumption
    <3> QED
      BY <1>2, <3>1 DEF Mapped, BsRec
  <2>2. t.bstab[b] = w /\ t.bsmap[b] = NoBs
    <3>1. t.bstab[b] = deallocate_bs(e) /\ t.bsmap[b] = NoBs
      BY <1>1, <1>3
    <3>2. e.isallocated /\ ~(e.usecount > 0) /\ e.isopen
      BY <2>1
    <3> HIDE DEF e
    <3>3. deallocate_bs(e) = w
      BY <3>2 DEF deallocate_bs, release_bs
    <3> QED
      BY <3>1, <3>3
  <2> HIDE DEF e
  <2>3. y \in BsRec /\ y.isopen = FALSE
    BY <2>1 DEF BsRec
  <2> HIDE DEF y
  <2>4. z \in BsRec /\ z.isopen = FALSE /\ z.isallocated = FALSE
    BY <2>3 DEF BsRec
  <2> HIDE DEF z
  <2>5. w \in BsRec /\ w.isopen = FALSE /\ w.isallocated = FALSE /\ w.usecount = 0
    BY <2>4 DEF BsRec
  <2> QED
    BY <2>2, <2>5
<1>4. \A b \in Stores : s.bsmap[b].pid # p =>
          t.bstab[b] = s.bstab[b] /\ t.bsmap[b] = s.bsmap[b]
  BY <1>1
<1>5. NoBs \in BsEntry /\ NoBs.pid = 0
  BY DEF NoBs, BsEntry
<1>6. t.bstab \in [Stores -> BsRec] /\ t.bsmap \in [Stores -> BsEntry]
  <2>1. \A b \in Stores : t.bstab[b] \in BsRec /\ t.bsmap[b] \in BsEntry
    BY <1>2, <1>3, <1>4, <1>5
  <2>2. t.bstab = [b \in Stores |-> t.bstab[b]] /\ t.bsmap = [b \in Stores |-> t.bsmap[b]]
    BY <1>1
  <2> QED
    BY <2>1, <2>2
<1>7. ASSUME NEW b \in Stores
      PROVE  Mapped(t, b, A \ {p})
  <2>1. CASE s.bsmap[b].pid = p
    BY <1>3, <1>5, <2>1 DEF Mapped
  <2>2. CASE s.bsmap[b].pid # p
    BY <1>2, <1>4, <2>2 DEF Mapped
  <2> QED
    BY <2>1, <2>2
<1>8. ASSUME NEW q \in A \ {p}, NEW v \in 0..(n[q] - 1)
      PROVE  HasStore(t, q, v)
  <2>1. PICK c \in Stores : Maps(s, c, q, v)
    BY DEF StoreInv, HasStore
  <2>2. s.bsmap[c].pid = q
    BY <2>1 DEF Maps
  <2> QED
    BY <1>4, <2>1, <2>2 DEF HasStore, Maps
<1> QED
  BY <1>1, <1>6, <1>7, <1>8 DEF StoreInv, t

----------------------------------------------------------------------------
\* Exactly the living processes have stores, and all their pages are in one.
DiskInv == StoreInv(vm, Alive, sys.hsize)

\* The sizes of the heaps are numbers.
LEMMA HeapSizes ==
  ASSUME TypeInv
  PROVE  sys.hsize \in [Procs -> Nat] /\ Alive \subseteq Procs
<1>1. sys.hsize \in [Procs -> 0..MaxHeapSize] /\ MaxHeapSize \in Nat
  BY PagingAssumption DEF TypeInv
<1>2. \A h \in 0..MaxHeapSize : h \in Nat
  OBVIOUS
<1> QED
  BY <1>1, <1>2 DEF Alive

\* vcreate: there are as many free stores as the heap has pieces.
LEMMA vcreateDisk ==
  ASSUME TypeInv, DiskInv, NEW p \in Procs, vcreate(p)
  PROVE  DiskInv'
<1> DEFINE A == Alive
           n == sys.hsize
           s == get_free_frame(vm, p, 0, "PAGE_DIR")
           t == MapHeap(s, p)
<1>1. n \in [Procs -> Nat] /\ A \in SUBSET Procs /\ n[p] \in Nat
  BY HeapSizes
<1>2. /\ pc[p] = "none" /\ pc' = [pc EXCEPT ![p] = "user"] /\ sys' = sys
      /\ Cardinality(Allocatable(vm.bstab, 1)) >= Pieces(p)
      /\ vm' = [t EXCEPT !.pd[p] = [d \in PdIdxs |-> NoPde]]
  BY DEF vcreate
<1>3. p \notin A /\ Alive' = A \cup {p}
  BY <1>2 DEF Alive, TypeInv
<1>4. Kept(vm, s)
  BY KeptByFrame
<1> HIDE DEF s
<1>5. StoreInv(s, A, n)
  BY <1>4, StoreInvKept DEF DiskInv
<1>6. Cardinality(Free(s)) >= Pieces(p)
  <2>1. Allocatable(s.bstab, 1) = Free(s)
    <3>1. 1 \in 1..PagesPerStore
      BY BackingStoreAssumption
    <3> QED
      BY <1>5, <3>1 DEF Allocatable, Gettable, Free, StoreInv, Mapped
  <2>2. s.bstab = vm.bstab
    BY <1>4 DEF Kept, DiskInv, StoreInv
  <2> QED
    BY <1>2, <2>1, <2>2
<1>7. StoreInv(t, A \cup {p}, n)
  <2> PICK h \in Nat : h = n[p]
    BY <1>1
  <2> HIDE DEF A
  <2> QED
    BY <1>1, <1>3, <1>5, <1>6, MapHeapStores
<1> HIDE DEF t
<1>8. Kept(t, vm')
  BY <1>2 DEF Kept, StoreFields
<1>9. StoreInv(vm', A \cup {p}, n)
  BY <1>7, <1>8, StoreInvKept
<1> QED
  BY <1>2, <1>3, <1>9 DEF DiskInv

\* The handler creates and ends no process.
LEMMA AliveKept ==
  ASSUME TypeInv, GateInv,
         (\E v \in Vpns : fault(v)) \/ enterHandler \/ myPageFault \/ leaveHandler
  PROVE  Alive' = Alive /\ sys' = sys
<1>1. ASSUME NEW point \in {"user", "enter", "handle", "release"},
             NEW x \in {"user", "enter", "blocked", "handle", "release"},
             currpid \in Procs, pc[currpid] = point, pc' = [pc EXCEPT ![currpid] = x]
      PROVE  Alive' = Alive
  BY <1>1 DEF Alive, TypeInv
<1>2. CASE \E v \in Vpns : fault(v)
  BY <1>1, <1>2 DEF fault, At
<1>3. CASE enterHandler
  <2>1. currpid \in Procs /\ pc[currpid] = "enter" /\ sys' = sys
    BY <1>3 DEF enterHandler, At
  <2>2. PICK x \in {"handle", "blocked"} : pc' = [pc EXCEPT ![currpid] = x]
    BY <1>3 DEF enterHandler
  <2> QED
    BY <1>1, <2>1, <2>2
<1>4. CASE myPageFault
  BY <1>1, <1>4 DEF myPageFault, At
<1>5. CASE leaveHandler
  <2>1. currpid \in Procs /\ pc[currpid] = "release" /\ sys' = sys /\ Release
    BY <1>5 DEF leaveHandler, At
  <2>2. CASE semqueue = << >>
    BY <1>1, <2>1, <2>2 DEF Release
  <2>3. CASE semqueue # << >>
    <3> DEFINE h == Head(semqueue)
    <3>1. pc' = [pc EXCEPT ![currpid] = "user", ![h] = "handle"]
      BY <2>1, <2>3 DEF Release
    <3>2. h \in Procs /\ Has(semqueue, h)
      BY <2>3, TailMembers DEF TypeInv, GateInv
    <3> HIDE DEF h
    <3>3. pc[h] = "blocked"
      BY <3>2 DEF GateInv
    <3> QED
      BY <2>1, <3>1, <3>2, <3>3 DEF Alive, TypeInv
  <2> QED
    BY <2>2, <2>3
<1> QED
  BY <1>2, <1>3, <1>4, <1>5

\* Every step keeps the heaps in the stores.
LEMMA DiskStep ==
  ASSUME TypeInv, GateInv, DiskInv, [Next]_vars
  PROVE  DiskInv'
<1>1. ASSUME NEW p \in Procs, kill(p) PROVE DiskInv'
  <2>1. vm' = FreeFramesOf(vm, p) /\ pc' = [pc EXCEPT ![p] = "none"] /\ sys' = sys
    BY <1>1 DEF kill
  <2>2. Alive' = Alive \ {p}
    BY <2>1 DEF Alive, TypeInv
  <2>3. StoreInv(vm', Alive \ {p}, sys.hsize)
    BY <2>1, KillStores DEF DiskInv
  <2> QED
    BY <2>1, <2>2, <2>3 DEF DiskInv
<1>2. ASSUME Kept(vm, vm'), sys' = sys, Alive' = Alive PROVE DiskInv'
  <2>1. StoreInv(vm', Alive, sys.hsize)
    BY <1>2, StoreInvKept DEF DiskInv
  <2> QED
    BY <1>2, <2>1 DEF DiskInv
<1>3. Kept(vm, vm)
  BY DEF Kept
<1>4. ASSUME NEW v \in Vpns, read(v) PROVE DiskInv'
  <2>1. Kept(vm, SetUse(vm, currpid, v, 1))
    BY KeptByMoves
  <2>2. Kept(vm, vm') /\ sys' = sys /\ pc' = pc
    BY <1>3, <1>4, <2>1 DEF read
  <2> QED
    BY <1>2, <2>2 DEF Alive
<1>5. ASSUME NEW v \in Vpns, NEW d, write(v, d) PROVE DiskInv'
  <2> DEFINE s == [vm EXCEPT !.mem[Pte(vm, currpid, v).base] = d]
  <2>1. vm' \in {s, SetUse(s, currpid, v, 2)} /\ sys' = sys /\ pc' = pc
    BY <1>5 DEF write
  <2>2. Kept(vm, s)
    BY DEF Kept, StoreFields
  <2> HIDE DEF s
  <2>3. Kept(s, SetUse(s, currpid, v, 2))
    BY KeptByMoves
  <2>4. Kept(vm, SetUse(s, currpid, v, 2))
    BY <2>2, <2>3, KeptOn
  <2>5. Kept(vm, vm')
    BY <2>1, <2>2, <2>4
  <2> QED
    BY <1>2, <2>1, <2>5 DEF Alive
<1>6. ASSUME myPageFault PROVE DiskInv'
  <2>1. Kept(vm, vm')
    BY <1>3, <1>6, KeptByFault DEF myPageFault
  <2> QED
    BY <1>2, <1>6, <2>1, AliveKept
<1>7. ASSUME (\E v \in Vpns : fault(v)) \/ enterHandler \/ leaveHandler PROVE DiskInv'
  <2>1. vm' = vm
    BY <1>7 DEF fault, enterHandler, leaveHandler
  <2> QED
    BY <1>2, <1>3, <1>7, <2>1, AliveKept
<1>8. ASSUME vm' = vm, sys' = sys, pc' = pc PROVE DiskInv'
  BY <1>2, <1>3, <1>8 DEF Alive
<1> QED
  <2>1. \A p \in Procs : vcreate(p) => DiskInv'
    BY vcreateDisk
  <2>2. \A p \in Procs \cup {MAIN} : preempt(p) => DiskInv'
    BY <1>8 DEF preempt
  <2>3. idle \/ UNCHANGED vars => DiskInv'
    BY <1>8 DEF idle, vars
  <2> QED
    BY <1>1, <1>4, <1>5, <1>6, <1>7, <2>1, <2>2, <2>3 DEF Next, Handler

\* Spec => []DiskInv, with the types it needs.
LEMMA DiskInvariance == Spec => [](TypeInv /\ DiskInv)
<1>1. Init => TypeInv /\ GateInv /\ DiskInv
  <2> SUFFICES ASSUME Init PROVE TypeInv /\ GateInv /\ DiskInv
    OBVIOUS
  <2>1. TypeInv /\ GateInv
    BY GateInit
  <2>2. Alive = {} /\ vm.bsmap = [b \in Stores |-> NoBs] /\ vm.bstab = psinit
        /\ StoreFields \subseteq DOMAIN vm
    BY DEF Init, Alive, StoreFields
  <2>3. NoBs \in BsEntry /\ NoBs.pid = 0
    BY DEF NoBs, BsEntry
  <2>4. vm.bstab \in [Stores -> BsRec] /\ vm.bsmap \in [Stores -> BsEntry]
    BY <2>2, <2>3 DEF psinit, BsRec
  <2>5. \A b \in Stores : Mapped(vm, b, Alive)
    <3>1. \A b \in Stores : /\ vm.bstab[b].isopen = FALSE /\ vm.bstab[b].isallocated = FALSE
                            /\ vm.bstab[b].usecount = 0 /\ vm.bsmap[b].pid = 0
      BY <2>2, <2>3 DEF psinit
    <3> QED
      BY <3>1 DEF Mapped
  <2>6. DiskInv
    BY <2>2, <2>4, <2>5 DEF DiskInv, StoreInv
  <2> QED
    BY <2>1, <2>6
<1>2. TypeInv /\ GateInv /\ DiskInv /\ [Next]_vars => TypeInv' /\ GateInv' /\ DiskInv'
  BY GateStep, DiskStep
<1> QED
  BY <1>1, <1>2, PTL DEF Spec

\* StoresDisjoint: however often processes are created and killed, with whatever heaps,
\* a living process has a place of its own in an open store for each of its pages, and
\* no store is lost or taken twice.
THEOREM StoresAreDisjoint == Spec => []StoresDisjoint
<1>1. TypeInv /\ DiskInv => StoresDisjoint
  <2> SUFFICES ASSUME TypeInv, DiskInv PROVE StoresDisjoint
    OBVIOUS
  <2> DEFINE n == sys.hsize
  <2>1. n \in [Procs -> Nat] /\ Alive \subseteq Procs /\ StoreInv(vm, Alive, n)
    BY HeapSizes DEF DiskInv
  <2>2. \A p \in Alive : Heap(p) = 0..(n[p] - 1)
    BY DEF Heap
  <2> HIDE DEF n
  <2>3. /\ \A p \in Alive : \A v \in 0..(n[p] - 1) :
              InStore(vm.bstab, Store(vm, p, v), Offset(vm, p, v))
        /\ \A p, q \in Alive : \A v \in 0..(n[p] - 1), w \in 0..(n[q] - 1) :
              Place(vm, p, v) = Place(vm, q, w) => p = q /\ v = w
    BY <2>1, PlacesApart
  <2>4. \A p \in Alive : \A v \in 0..(n[p] - 1) : HasStore(vm, p, v)
    BY <2>1 DEF StoreInv
  <2>5. \A b \in Stores : vm.bstab[b].isallocated <=> vm.bsmap[b].pid # 0
    BY <2>1 DEF StoreInv, Mapped
  <2>6. \A p \in Alive : \A v \in Heap(p) :
            HasStore(vm, p, v) /\ InStore(vm.bstab, Store(vm, p, v), Offset(vm, p, v))
    BY <2>2, <2>3, <2>4
  <2>7. ASSUME NEW p \in Alive, NEW q \in Alive, NEW v \in Heap(p), NEW w \in Heap(q),
               Place(vm, p, v) = Place(vm, q, w)
        PROVE  p = q /\ v = w
    <3>1. v \in 0..(n[p] - 1) /\ w \in 0..(n[q] - 1)
      BY <2>2
    <3> QED
      BY <2>3, <2>7, <3>1
  <2> QED
    BY <2>5, <2>6, <2>7 DEF StoresDisjoint
<1> QED
  BY <1>1, DiskInvariance, PTL

----------------------------------------------------------------------------
\* The frames, the maps and the data.

PtIdxs == 0..(PageTabSize - 1)

Base(s, p, v) == Pte(s, p, v).base
HasTab(s, p, d) == s.pd[p][d].pres
Tab(s, p, d) == s.pd[p][d].base
Pages(s, p, d) == {v \in Vpns : Present(s, p, v) /\ PdIdx(v) = d}

\* The replacement list holds the frames with a page, other than those in X, once each.
ListInv(s, X) ==
    /\ Distinct(s.fifo)
    /\ \A f \in Frames : Has(s.fifo, f) <=> f \notin X /\ s.iv[f].valid = "PAGE"

\* A frame in use belongs to a process in B, and only a page table counts pages.
OwnInv(s, B) ==
    \A f \in Frames :
        /\ s.iv[f].valid # "NULL_PAGE" => s.iv[f].pid \in B
        /\ s.iv[f].valid # "PAGE_TAB" => s.iv[f].ref = 0

\* A frame with a page, other than those in X, is where its page is mapped.
PageInv(s, X) ==
    \A f \in Frames \ X : s.iv[f].valid = "PAGE" =>
        /\ Present(s, s.iv[f].pid, s.iv[f].vpn)
        /\ Base(s, s.iv[f].pid, s.iv[f].vpn) = f

\* A page that is mapped is one of the first n[p] and in a frame of its own.
MapInv(s, A, n, X) ==
    \A p \in A : \A v \in Vpns : Present(s, p, v) =>
        /\ v < n[p]
        /\ Base(s, p, v) \in Frames \ X
        /\ s.iv[Base(s, p, v)].valid = "PAGE"
        /\ s.iv[Base(s, p, v)].pid = p
        /\ s.iv[Base(s, p, v)].vpn = v

\* A page table has its frame, counts its pages and, unless it is the one of c, has
\* some.
TabInv(s, A, X, c) ==
    \A p \in A : \A d \in PdIdxs : HasTab(s, p, d) =>
        /\ Tab(s, p, d) \in Frames \ X
        /\ s.iv[Tab(s, p, d)].valid = "PAGE_TAB"
        /\ s.iv[Tab(s, p, d)].pid = p
        /\ s.iv[Tab(s, p, d)].ref = Cardinality(Pages(s, p, d))
        /\ <<p, d>> = c \/ Pages(s, p, d) # {}
        /\ \A e \in PdIdxs : HasTab(s, p, e) /\ Tab(s, p, e) = Tab(s, p, d) => e = d

\* The processes in A own the frames outside X, and theirs are these maps.
MapsInv(s, A, n, X, c) ==
    /\ OwnInv(s, A)
    /\ PageInv(s, X)
    /\ MapInv(s, A, n, X)
    /\ TabInv(s, A, X, c)

\* The page in frame f is the last one of the page table of p for directory entry d.
LastOf(s, f, p, d) ==
    s.iv[f].pid = p /\ PdIdx(s.iv[f].vpn) = d /\ Pages(s, p, d) \subseteq {s.iv[f].vpn}

\* The page in CR2 is one the process has to wait for, not another's that is there.
OwnPage == At("handle") /\ cr2 \in Heap(currpid) => ~Present(vm, currpid, cr2)

\* The frame that is taken for a page does not hold the last page of the page table
\* the new entry goes to.
TableSpared ==
    At("handle") /\ cr2 \in Heap(currpid) =>
        LET d == PdIdx(cr2) IN
        HasTab(vm, currpid, d) /\ FreeFrames(vm) = {} /\ ~NoVictim(vm) =>
            ~LastOf(vm, Victim(vm), currpid, d)

\* The two defects do not strike.
FaultsApart == (sys.windows => OwnPage) /\ TableSpared

\* What the processes in A have written, w, is in memory or on the disk.
HeldInv(s, A, n, w) ==
    \A p \in A : \A v \in 0..(n[p] - 1) : w[p][v] # NONE =>
        IF Present(s, p, v) THEN s.mem[Base(s, p, v)] = w[p][v]
        ELSE OnDisk(Place(s, p, v)) /\ s.disk[Place(s, p, v)] = w[p][v]

\* Between two steps all frames are accounted for, and all that was written.
SoundInv(s, A, n, w) ==
    /\ ListInv(s, {})
    /\ MapsInv(s, A, n, {}, << >>)
    /\ HeldInv(s, A, n, w)

AgreeInv == Up => SoundInv(vm, Alive, sys.hsize, written)

----------------------------------------------------------------------------
\* Taking frames off the replacement list.

IsLeft(g, q, F, n) ==
    g = [i \in 0..n |-> IF i = 0 THEN << >>
                        ELSE IF q[i] \in F THEN g[i - 1] ELSE Append(g[i - 1], q[i])]

\* There is such a function: otherwise there is a least n for which there is none.
LEMMA LeftExists ==
  ASSUME NEW q, NEW F, NEW n \in Nat
  PROVE  \E g : IsLeft(g, q, F, n)
<1> DEFINE T == {m \in Nat : ~\E g : IsLeft(g, q, F, m)}
<1>1. CASE n \notin T
  BY <1>1
<1>2. CASE n \in T
  <2> DEFINE m == Min(T)
  <2>1. m \in T /\ \A y \in T : m <= y
    <3>1. T \subseteq Nat /\ T # {}
      BY <1>2
    <3> HIDE DEF T
    <3> QED
      BY <3>1, LeastNat
  <2> HIDE DEF m
  <2>2. m # 0
    <3>1. IsLeft([k \in 0..0 |-> << >>], q, F, 0)
      BY DEF IsLeft
    <3> QED
      BY <2>1, <3>1
  <2>3. m \in Nat /\ m - 1 \in Nat /\ m - 1 \notin T
    BY <2>1, <2>2
  <2>4. PICK f : IsLeft(f, q, F, m - 1)
    BY <2>3
  <2> DEFINE next(h, k) == IF q[k] \in F THEN h[k - 1] ELSE Append(h[k - 1], q[k])
             g == [k \in 0..m |-> IF k = m THEN next(f, m) ELSE f[k]]
  <2>5. ASSUME NEW k \in 0..m
        PROVE  g[k] = IF k = 0 THEN << >> ELSE next(g, k)
    <3>1. CASE k = m
      <4>1. g[k] = next(f, m) /\ g[m - 1] = f[m - 1]
        BY <2>3, <3>1
      <4> QED
        BY <2>2, <3>1, <4>1
    <3>2. CASE k # m
      <4>1. k \in 0..(m - 1) /\ g[k] = f[k]
        BY <2>3, <3>2
      <4>2. f[k] = IF k = 0 THEN << >> ELSE next(f, k)
        BY <2>4, <4>1 DEF IsLeft
      <4>3. k # 0 => g[k - 1] = f[k - 1]
        BY <2>3, <3>2
      <4> QED
        BY <4>1, <4>2, <4>3
    <3> QED
      BY <3>1, <3>2
  <2>6. IsLeft(g, q, F, m)
    <3>1. g = [k \in 0..m |-> g[k]]
      OBVIOUS
    <3> HIDE DEF g
    <3> QED
      BY <2>5, <3>1 DEF IsLeft
  <2> HIDE DEF g
  <2> QED
    BY <2>1, <2>6
<1> QED
  BY <1>1, <1>2

\* What is left are the elements that are not in F.
LEMMA UnlinkMembers ==
  ASSUME NEW S, NEW q \in Seq(S), Distinct(q), NEW F
  PROVE  /\ Unlink(q, F) \in Seq(S)
         /\ Distinct(Unlink(q, F))
         /\ \A x : Has(Unlink(q, F), x) <=> Has(q, x) /\ x \notin F
<1> DEFINE N == Len(q)
           g == CHOOSE h : IsLeft(h, q, F, N)
           J(i) == /\ g[i] \in Seq(S)
                   /\ Distinct(g[i])
                   /\ \A x : Has(g[i], x) <=> x \notin F /\ \E j \in 1..i : q[j] = x
           T == {i \in 0..N : ~J(i)}
<1>1. N \in Nat /\ \A i \in 1..N : q[i] \in S
  BY LenProperties
<1>2. Unlink(q, F) = g[N]
  BY DEF Unlink, IsLeft
<1>3. IsLeft(g, q, F, N)
  <2>1. \E h : IsLeft(h, q, F, N)
    <3> HIDE DEF N
    <3> QED
      BY <1>1, LeftExists
  <2> QED
    BY <2>1
<1> HIDE DEF g
<1>4. /\ g[0] = << >>
      /\ \A i \in 1..N : g[i] = IF q[i] \in F THEN g[i - 1] ELSE Append(g[i - 1], q[i])
  <2> HIDE DEF N
  <2>1. 0 \in 0..N /\ \A i \in 1..N : i \in 0..N /\ i # 0
    BY <1>1
  <2> QED
    BY <1>3, <2>1 DEF IsLeft
<1>5. J(0)
  BY <1>4 DEF Has, Distinct
<1>6. ASSUME NEW i \in 1..N, J(i - 1)
      PROVE  J(i)
  <2>1. \A j : j \in 1..i <=> j \in 1..(i - 1) \/ j = i
    BY <1>1
  <2>2. q[i] \in S /\ i - 1 \in Nat
    BY <1>1
  <2>3. ~Has(g[i - 1], q[i])
    <3>1. \A j \in 1..(i - 1) : q[j] # q[i]
      BY <1>1 DEF Distinct, N
    <3> QED
      BY <1>6, <3>1
  <2>4. CASE q[i] \in F
    <3>1. g[i] = g[i - 1]
      BY <1>4, <2>4
    <3> QED
      BY <1>6, <2>1, <2>4, <3>1
  <2>5. CASE q[i] \notin F
    <3> DEFINE h == g[i - 1]
               e == q[i]
    <3>1. g[i] = Append(h, e)
      BY <1>4, <2>5
    <3>2. h \in Seq(S) /\ Distinct(h) /\ e \in S /\ ~Has(h, e)
      BY <1>6, <2>2, <2>3
    <3> HIDE DEF h, e
    <3>3. /\ Append(h, e) \in Seq(S) /\ Distinct(Append(h, e))
          /\ \A x : Has(Append(h, e), x) <=> Has(h, x) \/ x = e
      BY <3>2, AppendMembers
    <3>4. \A x : Has(h, x) <=> x \notin F /\ \E j \in 1..(i - 1) : q[j] = x
      BY <1>6 DEF h
    <3>5. \A x : Has(g[i], x) <=> x \notin F /\ \E j \in 1..i : q[j] = x
      BY <2>1, <2>5, <3>1, <3>3, <3>4 DEF e
    <3> QED
      BY <3>1, <3>3, <3>5
  <2> QED
    BY <2>4, <2>5
<1>7. J(N)
  <2> HIDE DEF J
  <2>1. CASE T = {}
    BY <1>1, <2>1
  <2>2. CASE T # {}
    <3> DEFINE k == Min(T)
    <3>1. k \in T /\ \A y \in T : k <= y
      <4>1. T \subseteq Nat
        OBVIOUS
      <4> HIDE DEF T
      <4> QED
        BY <2>2, <4>1, LeastNat
    <3> HIDE DEF k
    <3>2. k \in 0..N /\ ~J(k)
      BY <3>1
    <3>3. k # 0
      BY <1>5, <3>2
    <3>4. k \in 1..N /\ k - 1 \in 0..N /\ ~(k <= k - 1)
      BY <1>1, <3>2, <3>3
    <3>6. k - 1 \notin T
      <4> HIDE DEF T
      <4> QED
        BY <3>1, <3>4
    <3>5. J(k - 1)
      BY <3>4, <3>6
    <3> QED
      BY <1>6, <3>2, <3>4, <3>5
  <2> QED
    BY <2>1, <2>2
<1> QED
  BY <1>2, <1>7 DEF Has

----------------------------------------------------------------------------
\* A page number is its directory entry and its place in the page table.
LEMMA PageNumbers ==
  ASSUME NEW v \in Vpns
  PROVE  /\ v \in Nat
         /\ PdIdx(v) \in PdIdxs
         /\ PtIdx(v) \in PtIdxs
         /\ \A w \in Vpns : PdIdx(v) = PdIdx(w) /\ PtIdx(v) = PtIdx(w) => v = w
<1>1. PageTabSize \in Nat /\ PageTabSize > 0
  BY PagingAssumption
<1>2. \A w \in Vpns : w \in Nat
  BY PagingAssumption DEF Vpns
<1>3. \A w \in Vpns : /\ PtIdx(w) \in PtIdxs
                      /\ w = PageTabSize * PdIdx(w) + PtIdx(w)
  <2> SUFFICES ASSUME NEW w \in Vpns
               PROVE  /\ PtIdx(w) \in PtIdxs
                      /\ w = PageTabSize * PdIdx(w) + PtIdx(w)
    OBVIOUS
  <2> DEFINE m == PageTabSize
  <2>1. m \in Nat /\ m > 0 /\ w \in Nat
    BY <1>1, <1>2
  <2> HIDE DEF m
  <2>2. w % m \in 0..(m - 1) /\ w = m * (w \div m) + (w % m)
    BY <2>1
  <2> QED
    BY <2>2 DEF m, PtIdx, PdIdx, PtIdxs
<1>4. PdIdx(v) \in PdIdxs
  BY DEF PdIdxs
<1> QED
  BY <1>2, <1>3, <1>4

----------------------------------------------------------------------------
\* The fields of the paging state.
LEMMA VmTyped ==
  ASSUME NEW s \in VmType
  PROVE  /\ s.iv \in [Frames -> IvEntry]
         /\ s.fifo \in Seq(Frames)
         /\ s.hand \in Frames \cup {HEAD, TAIL}
         /\ s.pd \in [Procs -> [PdIdxs -> PdEntry]]
         /\ s.pt \in [Frames -> [PtIdxs -> PtEntry]]
         /\ s.mem \in [Frames -> Vals]
         /\ s.bsmap \in [Stores -> BsEntry]
         /\ s.bstab \in [Stores -> BsRec]
         /\ s.disk \in [0..(DiskPages - 1) -> Vals]
         /\ s.hooks \in Seq(Procs \X Vpns)
         /\ s.panic \in BOOLEAN
BY DEF VmType, PtIdxs, BsRec

\* The entries of ivptab, of the page tables and of the page directories.
LEMMA EntriesTyped ==
  ASSUME NEW s \in VmType
  PROVE  /\ \A f \in Frames : s.iv[f] \in IvEntry /\ s.mem[f] \in Vals
         /\ \A f \in Frames : \A k \in PtIdxs : s.pt[f][k] \in PtEntry
         /\ \A p \in Procs : \A d \in PdIdxs : s.pd[p][d] \in PdEntry
<1>1. /\ s.iv \in [Frames -> IvEntry] /\ s.mem \in [Frames -> Vals]
      /\ s.pt \in [Frames -> [PtIdxs -> PtEntry]]
      /\ s.pd \in [Procs -> [PdIdxs -> PdEntry]]
  BY VmTyped
<1> QED
  BY <1>1

\* The state t is s but for the fields in F.
Fields == {"iv", "fifo", "hand", "pd", "pt", "mem", "bsmap", "bstab", "disk", "hooks", "panic"}
But(s, t, F) == \A x \in Fields \ F : t[x] = s[x]

\* panic leaves everything else as it is.
LEMMA PanicTyped ==
  ASSUME NEW s \in VmType
  PROVE  Panic(s) \in VmType /\ Panic(s).panic /\ But(s, Panic(s), {"panic"})
BY DEF VmType, Panic, But, Fields

\* A page that has a place has one on the disk.
LEMMA PlaceTyped ==
  ASSUME NEW s \in VmType, NEW p, NEW v \in Vpns, HasPlace(s, p, v)
  PROVE  Place(s, p, v) \in 0..(DiskPages - 1)
<1> DEFINE b == Store(s, p, v)
           x == Offset(s, p, v)
<1>1. b \in Stores /\ v >= s.bsmap[b].start
  <2> DEFINE S == {c \in Stores : Maps(s, c, p, v)}
  <2>1. S \subseteq Nat /\ S # {}
    BY BackingStoreAssumption DEF HasPlace, HasStore, Stores
  <2>2. Min(S) \in S
    <3> HIDE DEF S
    <3> QED
      BY <2>1, LeastNat
  <2> QED
    BY <2>2 DEF Store, Maps
<1>2. b \in Nat /\ x \in Nat
  <2>1. s.bsmap[b] \in BsEntry
    BY <1>1, VmTyped
  <2>2. s.bsmap[b].start \in Nat /\ v \in Nat /\ b \in Nat
    BY <1>1, <2>1, BackingStoreAssumption, PageNumbers DEF BsEntry, Stores
  <2> HIDE DEF b
  <2> QED
    BY <1>1, <2>2 DEF Offset, b
<1>3. b * RdPagesPerBs \in Nat
  BY <1>2, BackingStoreAssumption
<1>4. PageAt(b, x) < DiskPages
  BY DEF HasPlace, Transferable, OnDisk
<1> DEFINE a == b * RdPagesPerBs
<1>5. a \in Nat /\ a + x < DiskPages /\ DiskPages \in Nat
  BY <1>3, <1>4, BackingStoreAssumption DEF PageAt
<1> HIDE DEF a
<1>6. a + x \in 0..(DiskPages - 1)
  BY <1>2, <1>5
<1> QED
  BY <1>6 DEF Place, PageAt, a

\* write_bs and read_bs.
LEMMA WriteTyped ==
  ASSUME NEW s \in VmType, NEW p, NEW v \in Vpns, NEW f \in Frames
  PROVE  LET t == write_bs(s, p, v, f) IN
         /\ t \in VmType
         /\ But(s, t, {"disk", "panic"})
         /\ ~t.panic => /\ ~s.panic /\ HasPlace(s, p, v)
                        /\ t.disk = [s.disk EXCEPT ![Place(s, p, v)] = s.mem[f]]
<1> DEFINE i == Place(s, p, v)
           m == s.mem[f]
           x == [s.disk EXCEPT ![i] = m]
           t == [s EXCEPT !.disk = x]
<1>1. CASE ~HasPlace(s, p, v)
  BY <1>1, PanicTyped DEF write_bs, But, Fields
<1>2. CASE HasPlace(s, p, v)
  <2>1. write_bs(s, p, v, f) = t
    BY <1>2 DEF write_bs, qrds_write
  <2>2. s.disk \in [0..(DiskPages - 1) -> Vals] /\ m \in Vals
    BY VmTyped
  <2>3. x \in [0..(DiskPages - 1) -> Vals]
    <3> HIDE DEF i, m
    <3> QED
      BY <2>2
  <2> HIDE DEF x
  <2>4. t \in VmType /\ t.disk = x /\ But(s, t, {"disk", "panic"}) /\ t.panic = s.panic
    BY <2>3 DEF VmType, But, Fields
  <2> QED
    BY <1>2, <2>1, <2>4 DEF x
<1> QED
  BY <1>1, <1>2

\* The page is in frame f of t.
Fetched(s, t, p, v, f) ==
    /\ But(s, t, {"mem", "panic"})
    /\ ~t.panic => /\ ~s.panic /\ HasPlace(s, p, v)
                   /\ t.mem = [s.mem EXCEPT ![f] = s.disk[Place(s, p, v)]]

\* read_bs fills the frame and leaves the rest.
LEMMA ReadTyped ==
  ASSUME NEW s \in VmType, NEW p, NEW v \in Vpns, NEW f \in Frames
  PROVE  read_bs(s, p, v, f) \in VmType /\ Fetched(s, read_bs(s, p, v, f), p, v, f)
<1> DEFINE i == Place(s, p, v)
           m == s.disk[i]
           x == [s.mem EXCEPT ![f] = m]
           t == [s EXCEPT !.mem = x]
<1>1. CASE ~HasPlace(s, p, v)
  BY <1>1, PanicTyped DEF read_bs, But, Fields, Fetched
<1>2. CASE HasPlace(s, p, v)
  <2>1. read_bs(s, p, v, f) = t
    BY <1>2 DEF read_bs, qrds_read
  <2>2. s.disk \in [0..(DiskPages - 1) -> Vals] /\ i \in 0..(DiskPages - 1)
        /\ s.mem \in [Frames -> Vals]
    BY <1>2, VmTyped, PlaceTyped
  <2>3. x \in [Frames -> Vals]
    <3> HIDE DEF i
    <3> QED
      BY <2>2
  <2> HIDE DEF x
  <2>4. t \in VmType /\ t.mem = x /\ But(s, t, {"mem", "panic"}) /\ t.panic = s.panic
    BY <2>3 DEF VmType, But, Fields
  <2> QED
    BY <1>2, <2>1, <2>4 DEF x, Fetched
<1> QED
  BY <1>1, <1>2

\* The hooks note and check, and may panic.
LEMMA HookTyped ==
  ASSUME NEW s \in VmType, NEW p, NEW v
  PROVE  LET t == hook_pswap_out(s, p, v) IN
         /\ t \in VmType
         /\ But(s, t, {"hooks", "panic"})
         /\ ~t.panic => ~s.panic
<1>1. s.hooks \in Seq(Procs \X Vpns)
  BY VmTyped
<1> DEFINE x == Tail(s.hooks)
           t == [s EXCEPT !.hooks = x]
<1>2. CASE s.hooks # << >>
  <2>1. x \in Seq(Procs \X Vpns)
    BY <1>1, <1>2, HeadTailProperties
  <2>2. hook_pswap_out(s, p, v) \in {s, Panic(s), t}
    BY DEF hook_pswap_out
  <2> HIDE DEF x
  <2>3. t \in VmType /\ But(s, t, {"hooks", "panic"}) /\ t.panic = s.panic
    BY <2>1 DEF VmType, But, Fields
  <2> HIDE DEF t
  <2>4. But(s, s, {"hooks", "panic"}) /\ But(s, Panic(s), {"hooks", "panic"})
    BY PanicTyped DEF But
  <2> QED
    BY <2>2, <2>3, <2>4, PanicTyped
<1>3. CASE s.hooks = << >>
  <2>1. hook_pswap_out(s, p, v) \in {s, Panic(s)}
    BY <1>3 DEF hook_pswap_out
  <2>2. But(s, s, {"hooks", "panic"}) /\ But(s, Panic(s), {"hooks", "panic"})
    BY PanicTyped DEF But
  <2> QED
    BY <2>1, <2>2, PanicTyped
<1> QED
  BY <1>2, <1>3

----------------------------------------------------------------------------
\* What Evict does to each field: the frame f is taken from the list and entry k of the
\* table t, ...
Unmaps(q, pt, q2, pt2, f, t, k) ==
    /\ q2 = Unlink(q, {f})
    /\ \A g \in Frames : \A j \in PtIdxs : <<g, j>> # <<t, k>> => pt2[g][j] = pt[g][j]
    /\ ~pt2[t][k].pres

\* ... which counts a page less, and goes from the directory entry d of p when it has none.
Uncounts(iv, pd, iv2, pd2, p, d, t) ==
    /\ \A g \in Frames : g # t => iv2[g] = iv[g]
    /\ iv2[t].pid = iv[t].pid /\ iv2[t].ref = iv[t].ref - 1
    /\ iv2[t].valid = IF iv[t].ref = 1 THEN "NULL_PAGE" ELSE iv[t].valid
    /\ \A q \in Procs : \A e \in PdIdxs :
          /\ pd2[q][e].base = pd[q][e].base
          /\ <<q, e>> # <<p, d>> => pd2[q][e] = pd[q][e]
    /\ pd2[p][d].pres <=> pd[p][d].pres /\ iv[t].ref # 1

Evicted(s, u, f, p, v, t) ==
    /\ Unmaps(s.fifo, s.pt, u.fifo, u.pt, f, t, PtIdx(v))
    /\ Uncounts(s.iv, s.pd, u.iv, u.pd, p, PdIdx(v), t)
    /\ u.mem = s.mem /\ u.bsmap = s.bsmap /\ u.bstab = s.bstab
    /\ ~u.panic => /\ HasPlace(s, p, v)
                   /\ u.disk = [s.disk EXCEPT ![Place(s, p, v)] = s.mem[f]]

Unmapped(s, f, t, k) == [s EXCEPT !.fifo = Unlink(@, {f}), !.pt[t][k].pres = FALSE]
Fewer(s, t) == [s EXCEPT !.iv[t].ref = @ - 1]
Dropped(s, p, d, t) == [s EXCEPT !.pd[p][d].pres = FALSE, !.iv[t].valid = "NULL_PAGE"]

\* Evict of frame f, when it is told which page that holds and in which table that is.
EvictPage(s, f, p, v, t) ==
    LET s2 == Unmapped(write_bs(s, p, v, f), f, t, PtIdx(v))
        s3 == IF s2.iv[t].valid # "PAGE_TAB" THEN Panic(s2)
              ELSE [s2 EXCEPT !.iv[t].ref = @ - 1]
        s4 == IF s3.iv[t].ref # 0 THEN s3
              ELSE [s3 EXCEPT !.pd[p][PdIdx(v)].pres = FALSE,
                              !.iv[t].valid = "NULL_PAGE"]
    IN  hook_pswap_out(s4, p, v)

\* Evict takes the frame off the list and clears the entry of its page.
LEMMA UnmapEffect ==
  ASSUME NEW s \in VmType, NEW f \in Frames, Distinct(s.fifo), NEW t \in Frames,
         NEW k \in PtIdxs
  PROVE  LET u == Unmapped(s, f, t, k) IN
         /\ u \in VmType /\ But(s, u, {"fifo", "pt"})
         /\ Unmaps(s.fifo, s.pt, u.fifo, u.pt, f, t, k)
<1> DEFINE e == [s.pt[t][k] EXCEPT !.pres = FALSE]
           r == [s.pt[t] EXCEPT ![k] = e]
           y == [s.pt EXCEPT ![t] = r]
           x == Unlink(s.fifo, {f})
           u == Unmapped(s, f, t, k)
<1>1. u = [s EXCEPT !.fifo = x, !.pt = y]
  BY DEF Unmapped
<1>2. s.pt \in [Frames -> [PtIdxs -> PtEntry]] /\ s.fifo \in Seq(Frames)
  BY VmTyped
<1>3. e \in PtEntry /\ ~e.pres
  <2>1. s.pt[t][k] \in PtEntry
    BY EntriesTyped
  <2> QED
    BY <2>1 DEF PtEntry
<1> HIDE DEF e, u
<1>4. /\ y \in [Frames -> [PtIdxs -> PtEntry]]
      /\ \A g \in Frames : \A j \in PtIdxs : <<g, j>> # <<t, k>> => y[g][j] = s.pt[g][j]
      /\ y[t][k] = e
  BY <1>2, <1>3
<1>5. x \in Seq(Frames)
  BY <1>2, UnlinkMembers
<1> HIDE DEF x, y
<1>6. u \in VmType /\ u.fifo = x /\ u.pt = y /\ But(s, u, {"fifo", "pt"})
  BY <1>1, <1>4, <1>5 DEF VmType, PtIdxs, But, Fields
<1>7. Unmaps(s.fifo, s.pt, x, y, f, t, k)
  BY <1>3, <1>4 DEF x, Unmaps
<1> QED
  BY <1>6, <1>7 DEF u

\* ... and takes one from the count of the page table, which goes at zero.
LEMMA UncountEffect ==
  ASSUME NEW s \in VmType, NEW p \in Procs, NEW d \in PdIdxs, NEW t \in Frames
  PROVE  LET r == Fewer(s, t)
             u == IF r.iv[t].ref # 0 THEN r ELSE Dropped(r, p, d, t)
         IN  /\ u \in VmType /\ But(s, u, {"iv", "pd"})
             /\ Uncounts(s.iv, s.pd, u.iv, u.pd, p, d, t)
<1> DEFINE n == s.iv[t].ref - 1
           i == [s.iv[t] EXCEPT !.ref = n]
           x == [s.iv EXCEPT ![t] = i]
           r == Fewer(s, t)
           w == Dropped(r, p, d, t)
<1>1. s.iv \in [Frames -> IvEntry] /\ s.pd \in [Procs -> [PdIdxs -> PdEntry]]
      /\ s.iv[t] \in IvEntry /\ s.pd[p][d] \in PdEntry
  BY VmTyped, EntriesTyped
<1>2. s.iv[t].ref \in Int /\ n \in Int
  <2>1. s.iv[t].ref \in Int
    BY <1>1 DEF IvEntry
  <2> QED
    BY <2>1
<1>3. n = 0 <=> s.iv[t].ref = 1
  BY <1>2
<1>4. r = [s EXCEPT !.iv = x]
  BY DEF Fewer
<1>5. i \in IvEntry /\ i.ref = n /\ i.pid = s.iv[t].pid /\ i.valid = s.iv[t].valid
  <2> HIDE DEF n
  <2> QED
    BY <1>1, <1>2 DEF IvEntry
<1> HIDE DEF i, r
<1>6. x \in [Frames -> IvEntry] /\ x[t] = i /\ \A g \in Frames : g # t => x[g] = s.iv[g]
  BY <1>1, <1>5
<1> HIDE DEF x
<1>7. r \in VmType /\ r.iv = x /\ But(s, r, {"iv"}) /\ r.pd = s.pd
  BY <1>4, <1>6 DEF VmType, But, Fields
<1>8. r.iv[t].ref = n
  BY <1>5, <1>6, <1>7
<1>9. CASE n # 0
  <2>1. But(s, r, {"iv", "pd"})
    BY <1>7 DEF But
  <2>2. Uncounts(s.iv, s.pd, x, s.pd, p, d, t)
    BY <1>3, <1>5, <1>6, <1>9 DEF Uncounts
  <2> HIDE DEF n
  <2> QED
    BY <1>7, <1>8, <1>9, <2>1, <2>2 DEF r
<1>10. CASE n = 0
  <2> DEFINE j == [x[t] EXCEPT !.valid = "NULL_PAGE"]
             y == [x EXCEPT ![t] = j]
             b == [s.pd[p][d] EXCEPT !.pres = FALSE]
             c == [s.pd[p] EXCEPT ![d] = b]
             z == [s.pd EXCEPT ![p] = c]
  <2>1. w = [r EXCEPT !.pd = z, !.iv = y]
    BY <1>7 DEF Dropped
  <2>2. j \in IvEntry /\ j.ref = n /\ j.pid = s.iv[t].pid /\ j.valid = "NULL_PAGE"
    <3> HIDE DEF n
    <3> QED
      BY <1>5, <1>6 DEF IvEntry
  <2>3. b \in PdEntry /\ b.pres = FALSE /\ b.base = s.pd[p][d].base
    BY <1>1 DEF PdEntry
  <2> HIDE DEF j, b, w
  <2>4. y \in [Frames -> IvEntry] /\ y[t] = j /\ \A g \in Frames : g # t => y[g] = s.iv[g]
    BY <1>6, <2>2
  <2>5. /\ z \in [Procs -> [PdIdxs -> PdEntry]] /\ z[p][d] = b
        /\ \A q \in Procs : \A e \in PdIdxs : <<q, e>> # <<p, d>> => z[q][e] = s.pd[q][e]
    BY <1>1, <2>3
  <2> HIDE DEF y, z
  <2>6. w \in VmType /\ w.iv = y /\ w.pd = z /\ But(s, w, {"iv", "pd"})
    BY <1>7, <2>1, <2>4, <2>5 DEF VmType, But, Fields
  <2>7. \A q \in Procs : \A e \in PdIdxs : z[q][e].base = s.pd[q][e].base
    BY <2>3, <2>5
  <2>8. Uncounts(s.iv, s.pd, y, z, p, d, t)
    <3>1. s.iv[t].ref = 1
      BY <1>3, <1>10
    <3>2. ~z[p][d].pres /\ y[t].valid = "NULL_PAGE"
      BY <2>2, <2>3, <2>4, <2>5
    <3>3. y[t].pid = s.iv[t].pid /\ y[t].ref = s.iv[t].ref - 1
      BY <2>2, <2>4
    <3> QED
      BY <2>4, <2>5, <2>7, <3>1, <3>2, <3>3 DEF Uncounts
  <2> HIDE DEF n
  <2> QED
    BY <1>8, <1>10, <2>6, <2>8 DEF r, w
<1> QED
  BY <1>9, <1>10

\* Evict does both, after it has written the page to its place.
LEMMA EvictEffect ==
  ASSUME NEW s \in VmType, NEW f \in Frames, Distinct(s.fifo),
         NEW p \in Procs, p = s.iv[f].pid, NEW v \in Vpns, v = s.iv[f].vpn,
         NEW t \in Frames, t = TabOf(s, p, v), s.iv[t].valid = "PAGE_TAB"
  PROVE  /\ Evict(s, f) \in VmType /\ Evicted(s, Evict(s, f), f, p, v, t)
         /\ \E r \in VmType : /\ Evict(s, f) = hook_pswap_out(r, p, v)
                             /\ r.hooks = s.hooks
                             /\ r.panic = write_bs(s, p, v, f).panic
<1> DEFINE k == PtIdx(v)
           d == PdIdx(v)
           s1 == write_bs(s, p, v, f)
           s2 == Unmapped(s1, f, t, k)
           r == Fewer(s2, t)
           s4 == IF r.iv[t].ref # 0 THEN r ELSE Dropped(r, p, d, t)
           w == hook_pswap_out(s4, p, v)
<1>1. k \in PtIdxs /\ d \in PdIdxs
  BY PageNumbers
<1>2. /\ s1 \in VmType /\ But(s, s1, {"disk", "panic"})
      /\ ~s1.panic => /\ HasPlace(s, p, v)
                      /\ s1.disk = [s.disk EXCEPT ![Place(s, p, v)] = s.mem[f]]
  BY WriteTyped
<1>3. Distinct(s1.fifo) /\ s1.pt = s.pt /\ s1.iv = s.iv /\ s1.pd = s.pd /\ s1.fifo = s.fifo
  <2> HIDE DEF s1
  <2> QED
    BY <1>2 DEF But, Fields
<1>4. /\ s2 \in VmType /\ But(s1, s2, {"fifo", "pt"})
      /\ Unmaps(s1.fifo, s1.pt, s2.fifo, s2.pt, f, t, k)
  <2> HIDE DEF s1, k
  <2> QED
    BY <1>1, <1>2, <1>3, UnmapEffect
<1>5. s2.iv = s.iv /\ s2.pd = s.pd
  <2> HIDE DEF s1, s2
  <2> QED
    BY <1>3, <1>4 DEF But, Fields
<1>6. s4 \in VmType /\ But(s2, s4, {"iv", "pd"})
      /\ Uncounts(s2.iv, s2.pd, s4.iv, s4.pd, p, d, t)
  <2> HIDE DEF s2, d
  <2> QED
    BY <1>1, <1>4, UncountEffect, ZenonT(60)
<1>7. Evict(s, f) = w
  <2>1. s2.iv[t].valid = "PAGE_TAB"
    BY <1>5
  <2>2. s2 = [s1 EXCEPT !.fifo = Unlink(@, {f}), !.pt[t][PtIdx(v)].pres = FALSE]
    BY DEF Unmapped
  <2> DEFINE s3 == IF s2.iv[t].valid # "PAGE_TAB" THEN Panic(s2)
                   ELSE [s2 EXCEPT !.iv[t].ref = @ - 1]
             y == IF s3.iv[t].ref # 0 THEN s3
                  ELSE [s3 EXCEPT !.pd[p][PdIdx(v)].pres = FALSE,
                                  !.iv[t].valid = "NULL_PAGE"]
  <2>3. Evict(s, f) = hook_pswap_out(y, p, v)
    <3>1. Evict(s, f) = EvictPage(s, f, s.iv[f].pid, s.iv[f].vpn,
                                  TabOf(s, s.iv[f].pid, s.iv[f].vpn))
      BY ONLY Zenon DEF Evict, EvictPage, Unmapped
    <3>2. s.iv[f].pid = p /\ s.iv[f].vpn = v
      OBVIOUS
    <3>3. Evict(s, f) = EvictPage(s, f, p, v, t)
      BY ONLY <3>1, <3>2, t = TabOf(s, p, v)
    <3>4. EvictPage(s, f, p, v, t) = hook_pswap_out(y, p, v)
      BY ONLY Zenon DEF EvictPage
    <3> QED
      BY ONLY <3>3, <3>4
  <2> HIDE DEF s2
  <2>4. s3 = r
    BY <2>1 DEF Fewer
  <2> HIDE DEF s3, r
  <2>5. y = s4
    BY <2>4 DEF Dropped
  <2> QED
    BY <2>3, <2>5
<1> HIDE DEF s1, s2, s4, k, d
<1>8. /\ w \in VmType /\ But(s4, w, {"hooks", "panic"}) /\ (~w.panic => ~s4.panic)
  BY <1>6, HookTyped
<1> HIDE DEF w
<1>9. /\ w.fifo = s2.fifo /\ w.pt = s2.pt /\ w.iv = s4.iv /\ w.pd = s4.pd
      /\ w.mem = s.mem /\ w.bsmap = s.bsmap /\ w.bstab = s.bstab /\ w.disk = s1.disk
      /\ s4.panic = s1.panic /\ s4.hooks = s.hooks
  BY <1>2, <1>4, <1>6, <1>8 DEF But, Fields
<1>10. Evicted(s, w, f, p, v, t)
  BY <1>2, <1>3, <1>4, <1>5, <1>6, <1>8, <1>9 DEF Evicted, k, d
<1>11. \E x \in VmType : /\ Evict(s, f) = hook_pswap_out(x, p, v)
                        /\ x.hooks = s.hooks /\ x.panic = write_bs(s, p, v, f).panic
  BY <1>6, <1>7, <1>9 DEF w, s1
<1> QED
  BY <1>7, <1>8, <1>10, <1>11

----------------------------------------------------------------------------
\* The page in a frame: it is mapped there by a page table that counts it.
LEMMA PageOfFrame ==
  ASSUME NEW s \in VmType, NEW A \in SUBSET Procs, NEW n, NEW c, MapsInv(s, A, n, {}, c),
         NEW f \in Frames, s.iv[f].valid = "PAGE",
         NEW p, p = s.iv[f].pid, NEW v, v = s.iv[f].vpn, NEW t, t = TabOf(s, p, v)
  PROVE  /\ p \in A /\ v \in Vpns /\ v < n[p] /\ Present(s, p, v) /\ Base(s, p, v) = f
         /\ t \in Frames /\ t # f /\ s.iv[t].valid = "PAGE_TAB" /\ s.iv[t].pid = p
         /\ PdIdx(v) \in PdIdxs /\ HasTab(s, p, PdIdx(v)) /\ t = Tab(s, p, PdIdx(v))
         /\ v \in Pages(s, p, PdIdx(v))
<1>1. p \in A
  BY DEF MapsInv, OwnInv
<1>2. v \in Vpns
  <2>1. s.iv[f] \in IvEntry
    BY EntriesTyped
  <2>2. 0 \in Vpns
    BY PagingAssumption DEF Vpns
  <2> QED
    BY <2>1, <2>2 DEF IvEntry
<1>3. PdIdx(v) \in PdIdxs
  BY <1>2, PageNumbers
<1>4. Present(s, p, v) /\ Base(s, p, v) = f
  BY DEF MapsInv, PageInv
<1>5. v < n[p]
  BY <1>1, <1>2, <1>4 DEF MapsInv, MapInv
<1>6. HasTab(s, p, PdIdx(v)) /\ t = Tab(s, p, PdIdx(v))
  BY <1>4 DEF Present, HasTab, Tab, TabOf
<1>7. t \in Frames /\ s.iv[t].valid = "PAGE_TAB" /\ s.iv[t].pid = p
  BY <1>1, <1>3, <1>6 DEF MapsInv, TabInv
<1>8. v \in Pages(s, p, PdIdx(v))
  BY <1>2, <1>4 DEF Pages
<1> QED
  BY <1>1, <1>2, <1>3, <1>4, <1>5, <1>6, <1>7, <1>8

\* The pages of a table can be counted.
LEMMA PagesFinite ==
  ASSUME NEW s, NEW p, NEW d
  PROVE  IsFiniteSet(Pages(s, p, d)) /\ Cardinality(Pages(s, p, d)) \in Nat
<1>1. IsFiniteSet(Vpns)
  <2>1. 0 \in Int /\ MaxHeapSize - 1 \in Int
    BY PagingAssumption
  <2> QED
    BY <2>1, FS_Interval DEF Vpns
<1>2. Pages(s, p, d) \subseteq Vpns
  BY DEF Pages
<1>3. IsFiniteSet(Pages(s, p, d))
  BY <1>1, <1>2, FS_Subset
<1> QED
  BY <1>3, FS_CardinalityType

\* Only that page is no longer present, and the others are where they were.
ButPage(s, u, A, p, v) ==
    /\ ~Present(u, p, v)
    /\ \A q \in A : \A x \in Vpns : <<q, x>> # <<p, v>> =>
          /\ Present(u, q, x) <=> Present(s, q, x)
          /\ Present(s, q, x) => Base(u, q, x) = Base(s, q, x)

\* Evict unmaps the page in the frame and no other.
LEMMA EvictPages ==
  ASSUME NEW s \in VmType, NEW A \in SUBSET Procs, NEW n, NEW c, MapsInv(s, A, n, {}, c),
         NEW f \in Frames, s.iv[f].valid = "PAGE",
         NEW p, p = s.iv[f].pid, NEW v, v = s.iv[f].vpn, NEW t, t = TabOf(s, p, v),
         NEW u, Evicted(s, u, f, p, v, t)
  PROVE  ButPage(s, u, A, p, v)
<1> DEFINE d == PdIdx(v)
           k == PtIdx(v)
<1>1. /\ p \in A /\ v \in Vpns /\ t \in Frames /\ d \in PdIdxs /\ HasTab(s, p, d)
      /\ t = Tab(s, p, d) /\ s.iv[t].pid = p /\ v \in Pages(s, p, d)
  BY PageOfFrame
<1>2. k \in PtIdxs /\ A \subseteq Procs
  BY <1>1, PageNumbers
<1>3. /\ \A g \in Frames : \A j \in PtIdxs : <<g, j>> # <<t, k>> => u.pt[g][j] = s.pt[g][j]
      /\ ~u.pt[t][k].pres
  BY DEF Evicted, Unmaps
<1>4. /\ \A q \in Procs : \A e \in PdIdxs :
            /\ u.pd[q][e].base = s.pd[q][e].base
            /\ <<q, e>> # <<p, d>> => u.pd[q][e] = s.pd[q][e]
      /\ u.pd[p][d].pres <=> s.pd[p][d].pres /\ s.iv[t].ref # 1
  BY DEF Evicted, Uncounts
<1>5. ~Present(u, p, v)
  <2>1. TabOf(u, p, v) = t
    BY <1>1, <1>2, <1>4 DEF TabOf
  <2> QED
    BY <1>3, <2>1 DEF Present, Pte
<1>6. ASSUME NEW q \in A, NEW x \in Vpns, <<q, x>> # <<p, v>>
      PROVE  /\ Present(u, q, x) <=> Present(s, q, x)
             /\ Present(s, q, x) => Base(u, q, x) = Base(s, q, x)
  <2> DEFINE e == PdIdx(x)
             j == PtIdx(x)
             b == TabOf(s, q, x)
  <2>1. e \in PdIdxs /\ j \in PtIdxs /\ TabOf(u, q, x) = b
    BY <1>2, <1>4, PageNumbers DEF TabOf
  <2>2. HasTab(u, q, e) => HasTab(s, q, e)
    BY <1>2, <1>4, <2>1 DEF HasTab
  <2>3. ASSUME HasTab(s, q, e)
        PROVE  b \in Frames /\ <<b, j>> # <<t, k>> /\ Pte(u, q, x) = Pte(s, q, x)
    <3>1. b = Tab(s, q, e) /\ b \in Frames /\ s.iv[b].pid = q
      BY <2>1, <2>3 DEF TabOf, Tab, MapsInv, TabInv
    <3>2. <<b, j>> # <<t, k>>
      <4>1. ASSUME b = t, j = k PROVE FALSE
        <5>1. q = p
          BY <1>1, <3>1, <4>1
        <5>2. e = d
          <6>1. \A a, y \in PdIdxs :
                   HasTab(s, p, a) /\ HasTab(s, p, y) /\ Tab(s, p, y) = Tab(s, p, a) => y = a
            BY <1>1 DEF MapsInv, TabInv
          <6>2. HasTab(s, p, e) /\ Tab(s, p, e) = Tab(s, p, d)
            BY <1>1, <2>3, <3>1, <4>1, <5>1
          <6> QED
            BY <1>1, <2>1, <6>1, <6>2
        <5>3. x = v
          BY <1>1, <4>1, <5>2, PageNumbers
        <5> QED
          BY <1>6, <5>1, <5>3
      <4> QED
        BY <4>1
    <3>3. u.pt[b][j] = s.pt[b][j]
      BY <1>3, <2>1, <3>1, <3>2
    <3> QED
      BY <2>1, <3>1, <3>2, <3>3 DEF Pte
  <2>4. ASSUME Present(s, q, x) PROVE HasTab(u, q, e)
    <3>1. HasTab(s, q, e)
      BY <2>4 DEF Present, HasTab
    <3>2. CASE <<q, e>> # <<p, d>>
      BY <1>2, <1>4, <2>1, <3>1, <3>2 DEF HasTab
    <3>3. CASE <<q, e>> = <<p, d>>
      <4>1. q = p /\ e = d /\ x # v
        BY <1>6, <3>3
      <4>2. x \in Pages(s, p, d)
        BY <2>4, <4>1 DEF Pages
      <4>3. s.iv[t].ref = Cardinality(Pages(s, p, d))
        BY <1>1 DEF MapsInv, TabInv
      <4>4. Cardinality(Pages(s, p, d)) # 1
        <5> DEFINE S == Pages(s, p, d)
        <5>1. IsFiniteSet(S)
          BY PagesFinite
        <5>2. v \in S /\ x \in S /\ x # v
          BY <1>1, <4>1, <4>2
        <5> HIDE DEF S
        <5>3. ASSUME Cardinality(S) = 1 PROVE FALSE
          <6>1. PICK y : S = {y}
            BY <5>1, <5>3, FS_Singleton
          <6> QED
            BY <5>2, <6>1
        <5> QED
          BY <5>3 DEF S
      <4> QED
        BY <1>4, <3>1, <4>1, <4>3, <4>4 DEF HasTab
    <3> QED
      BY <3>2, <3>3
  <2>5. Present(u, q, x) => Present(s, q, x)
    BY <2>2, <2>3 DEF Present, HasTab
  <2>6. ASSUME Present(s, q, x) PROVE Present(u, q, x) /\ Base(u, q, x) = Base(s, q, x)
    <3>1. HasTab(s, q, e) /\ HasTab(u, q, e)
      BY <2>4, <2>6 DEF Present, HasTab
    <3>2. Pte(u, q, x) = Pte(s, q, x)
      BY <2>3, <3>1
    <3> QED
      BY <2>6, <3>1, <3>2 DEF Present, HasTab, Base
  <2> QED
    BY <2>5, <2>6
<1> QED
  BY <1>5, <1>6 DEF ButPage

\* The frame is free of its page, and everything else is as it should be.
LEMMA EvictMaps ==
  ASSUME NEW s \in VmType, NEW A \in SUBSET Procs, NEW n, NEW c, MapsInv(s, A, n, {}, c),
         NEW f \in Frames, s.iv[f].valid = "PAGE",
         NEW p, p = s.iv[f].pid, NEW v, v = s.iv[f].vpn, NEW t, t = TabOf(s, p, v),
         NEW u, Evicted(s, u, f, p, v, t),
         <<p, PdIdx(v)>> = c => ~LastOf(s, f, p, PdIdx(v))
  PROVE  MapsInv(u, A, n, {f}, c)
<1> DEFINE d == PdIdx(v)
<1>1. /\ p \in A /\ v \in Vpns /\ t \in Frames /\ t # f /\ d \in PdIdxs /\ HasTab(s, p, d)
      /\ t = Tab(s, p, d) /\ s.iv[t].pid = p /\ s.iv[t].valid = "PAGE_TAB"
      /\ v \in Pages(s, p, d) /\ Present(s, p, v) /\ Base(s, p, v) = f
  BY PageOfFrame
<1>2. A \subseteq Procs
  OBVIOUS
<1>3. /\ \A g \in Frames : g # t => u.iv[g] = s.iv[g]
      /\ u.iv[t].pid = s.iv[t].pid /\ u.iv[t].ref = s.iv[t].ref - 1
      /\ u.iv[t].valid = IF s.iv[t].ref = 1 THEN "NULL_PAGE" ELSE "PAGE_TAB"
  BY <1>1 DEF Evicted, Uncounts
<1>4. /\ \A q \in Procs : \A e \in PdIdxs :
            /\ u.pd[q][e].base = s.pd[q][e].base
            /\ <<q, e>> # <<p, d>> => u.pd[q][e] = s.pd[q][e]
      /\ u.pd[p][d].pres <=> s.pd[p][d].pres /\ s.iv[t].ref # 1
  BY DEF Evicted, Uncounts
<1>5. /\ ~Present(u, p, v)
      /\ \A q \in A : \A x \in Vpns : <<q, x>> # <<p, v>> =>
            /\ Present(u, q, x) <=> Present(s, q, x)
            /\ Present(s, q, x) => Base(u, q, x) = Base(s, q, x)
  <2>1. ButPage(s, u, A, p, v)
    BY EvictPages
  <2> QED
    BY <2>1 DEF ButPage
<1>6. s.iv[t].ref = Cardinality(Pages(s, p, d))
  <2>1. TabInv(s, A, {}, c)
    BY DEF MapsInv
  <2>2. p \in A /\ d \in PdIdxs /\ HasTab(s, p, d) /\ t = Tab(s, p, d)
    BY <1>1
  <2> HIDE DEF d
  <2> QED
    BY ONLY <2>1, <2>2 DEF TabInv
<1> HIDE DEF d
<1>7. OwnInv(u, A)
  <2>1. OwnInv(s, A)
    BY DEF MapsInv
  <2>2. u.iv[t].valid # "PAGE_TAB" => u.iv[t].ref = 0
    BY ONLY <1>3
  <2> QED
    BY <1>1, <1>3, <2>1, <2>2 DEF OwnInv
<1>8. MapInv(u, A, n, {f})
  <2> SUFFICES ASSUME NEW q \in A, NEW x \in Vpns, Present(u, q, x)
               PROVE  /\ x < n[q]
                      /\ Base(u, q, x) \in Frames \ {f}
                      /\ u.iv[Base(u, q, x)].valid = "PAGE"
                      /\ u.iv[Base(u, q, x)].pid = q
                      /\ u.iv[Base(u, q, x)].vpn = x
    BY DEF MapInv
  <2>1. <<q, x>> # <<p, v>> /\ Present(s, q, x) /\ Base(u, q, x) = Base(s, q, x)
    BY <1>5
  <2> DEFINE b == Base(s, q, x)
  <2>2. x < n[q] /\ b \in Frames /\ s.iv[b].valid = "PAGE" /\ s.iv[b].pid = q /\ s.iv[b].vpn = x
    BY <2>1 DEF MapsInv, MapInv
  <2> HIDE DEF b
  <2>3. b # f /\ b # t
    BY <1>1, <2>1, <2>2
  <2> QED
    BY <1>3, <2>1, <2>2, <2>3 DEF b
<1>9. PageInv(u, {f})
  <2> SUFFICES ASSUME NEW g \in Frames \ {f}, u.iv[g].valid = "PAGE"
               PROVE  /\ Present(u, u.iv[g].pid, u.iv[g].vpn)
                      /\ Base(u, u.iv[g].pid, u.iv[g].vpn) = g
    BY DEF PageInv
  <2>1. g # t /\ u.iv[g] = s.iv[g] /\ s.iv[g].valid = "PAGE"
    BY <1>3
  <2> DEFINE q == s.iv[g].pid
             x == s.iv[g].vpn
  <2>2. q \in A /\ x \in Vpns /\ Present(s, q, x) /\ Base(s, q, x) = g
    BY <2>1, PageOfFrame
  <2> HIDE DEF q, x
  <2>3. <<q, x>> # <<p, v>>
    BY <1>1, <2>2
  <2> QED
    BY <1>5, <2>1, <2>2, <2>3 DEF q, x
<1>10. ASSUME NEW q \in A, NEW e \in PdIdxs
       PROVE  /\ Tab(u, q, e) = Tab(s, q, e)
              /\ HasTab(u, q, e) => HasTab(s, q, e)
              /\ <<q, e>> # <<p, d>> => /\ Pages(u, q, e) = Pages(s, q, e)
                                        /\ HasTab(u, q, e) <=> HasTab(s, q, e)
              /\ <<q, e>> = <<p, d>> => /\ Pages(u, q, e) = Pages(s, q, e) \ {v}
                                        /\ HasTab(u, q, e) => s.iv[t].ref # 1
  <2>1. Tab(u, q, e) = Tab(s, q, e) /\ (HasTab(u, q, e) => HasTab(s, q, e))
    BY <1>2, <1>4 DEF Tab, HasTab
  <2>2. ASSUME <<q, e>> # <<p, d>>
        PROVE  Pages(u, q, e) = Pages(s, q, e) /\ (HasTab(u, q, e) <=> HasTab(s, q, e))
    <3>1. HasTab(u, q, e) <=> HasTab(s, q, e)
      BY <1>2, <1>4, <2>2 DEF HasTab
    <3>2. \A x \in Vpns : PdIdx(x) = e => <<q, x>> # <<p, v>>
      BY <2>2 DEF d
    <3> QED
      BY <1>5, <3>1, <3>2 DEF Pages
  <2>3. ASSUME <<q, e>> = <<p, d>>
        PROVE  Pages(u, q, e) = Pages(s, q, e) \ {v} /\ (HasTab(u, q, e) => s.iv[t].ref # 1)
    <3>1. q = p /\ e = d
      BY <2>3
    <3>2. \A x \in Vpns : Present(u, q, x) <=> x # v /\ Present(s, q, x)
      BY <1>5, <3>1
    <3> QED
      BY <1>4, <3>1, <3>2 DEF HasTab, Pages
  <2> QED
    BY <2>1, <2>2, <2>3
<1>11. Cardinality(Pages(u, p, d)) = s.iv[t].ref - 1
  <2> DEFINE S == Pages(s, p, d)
  <2>1. IsFiniteSet(S) /\ v \in S /\ Pages(u, p, d) = S \ {v}
    BY <1>1, <1>10, PagesFinite DEF d
  <2> HIDE DEF S
  <2>2. Cardinality(S \ {v}) = Cardinality(S) - 1
    <3>1. IsFiniteSet(S) /\ v \in S
      BY <2>1
    <3> QED
      BY ONLY <3>1, FS_RemoveElement
  <2> QED
    BY <1>6, <2>1, <2>2 DEF S
<1>12. TabInv(u, A, {f}, c)
  <2> SUFFICES ASSUME NEW q \in A, NEW e \in PdIdxs, HasTab(u, q, e)
               PROVE  /\ Tab(u, q, e) \in Frames \ {f}
                      /\ u.iv[Tab(u, q, e)].valid = "PAGE_TAB"
                      /\ u.iv[Tab(u, q, e)].pid = q
                      /\ u.iv[Tab(u, q, e)].ref = Cardinality(Pages(u, q, e))
                      /\ <<q, e>> = c \/ Pages(u, q, e) # {}
                      /\ \A y \in PdIdxs : HasTab(u, q, y) /\ Tab(u, q, y) = Tab(u, q, e)
                                           => y = e
    BY DEF TabInv
  <2> DEFINE b == Tab(s, q, e)
  <2>1. /\ Tab(u, q, e) = b /\ HasTab(s, q, e)
        /\ b \in Frames /\ s.iv[b].valid = "PAGE_TAB" /\ s.iv[b].pid = q
        /\ s.iv[b].ref = Cardinality(Pages(s, q, e))
        /\ <<q, e>> = c \/ Pages(s, q, e) # {}
    BY <1>10, SMTT(60) DEF MapsInv, TabInv
  <2>2. \A y \in PdIdxs : HasTab(u, q, y) /\ Tab(u, q, y) = Tab(u, q, e) => y = e
    <3>1. \A y \in PdIdxs : HasTab(s, q, y) /\ Tab(s, q, y) = Tab(s, q, e) => y = e
      BY <2>1 DEF MapsInv, TabInv
    <3> QED
      BY <1>10, <3>1
  <2>3. b # f
    BY <2>1
  <2>4. CASE <<q, e>> # <<p, d>>
    <3>1. b # t
      <4>1. \A y \in PdIdxs : HasTab(s, q, y) /\ Tab(s, q, y) = b => y = e
        BY <2>1 DEF MapsInv, TabInv
      <4> QED
        BY <1>1, <2>1, <2>4, <4>1 DEF d
    <3>2. u.iv[b] = s.iv[b] /\ Pages(u, q, e) = Pages(s, q, e)
      BY <1>3, <1>10, <2>1, <2>4, <3>1
    <3> HIDE DEF b
    <3> QED
      BY <2>1, <2>2, <2>3, <3>2
  <2>5. CASE <<q, e>> = <<p, d>>
    <3>1. q = p /\ e = d /\ b = t
      BY <1>1, <2>5 DEF d
    <3>2. s.iv[t].ref # 1
      BY <1>10, <2>5
    <3>3. u.iv[t].valid = "PAGE_TAB" /\ u.iv[t].ref = Cardinality(Pages(u, p, d))
          /\ u.iv[t].pid = p
      BY <1>1, <1>3, <1>11, <3>2
    <3>4. Pages(u, p, d) # {}
      <4>1. ASSUME Pages(u, p, d) = {} PROVE FALSE
        <5>1. Cardinality(Pages(u, p, d)) = 0
          BY <4>1, FS_EmptySet
        <5>2. Cardinality(Pages(s, p, d)) \in Nat
          BY PagesFinite
        <5>3. s.iv[t].ref = 1
          BY <1>6, <1>11, <5>1, <5>2
        <5> QED
          BY <3>2, <5>3
      <4> QED
        BY <4>1
    <3> HIDE DEF b
    <3> QED
      BY <2>1, <2>2, <2>3, <3>1, <3>3, <3>4
  <2> QED
    BY <2>4, <2>5
<1> QED
  BY <1>7, <1>8, <1>9, <1>12 DEF MapsInv

\* Where a page lies depends on bsmap only.
LEMMA PlaceSame ==
  ASSUME NEW s, NEW u, u.bsmap = s.bsmap, NEW p, NEW v
  PROVE  Place(u, p, v) = Place(s, p, v)
BY DEF Place, Store, Offset, Maps

\* The place of a page of a living process is a number; on the disk, it can be transferred.
LEMMA PlaceNumber ==
  ASSUME NEW s, NEW A, NEW n, A \subseteq Procs, n \in [Procs -> Nat], StoreInv(s, A, n),
         NEW p \in A, NEW v \in 0..(n[p] - 1)
  PROVE  /\ Place(s, p, v) \in Nat
         /\ OnDisk(Place(s, p, v)) => /\ Place(s, p, v) \in 0..(DiskPages - 1)
                                     /\ HasPlace(s, p, v)
<1> DEFINE b == Store(s, p, v)
           x == Offset(s, p, v)
<1>1. /\ b \in Stores /\ Maps(s, b, p, v) /\ InStore(s.bstab, b, x)
      /\ x \in 0..(PagesPerStore - 1)
  BY PlacesApart
<1>2. HasStore(s, p, v)
  BY DEF StoreInv
<1> HIDE DEF b, x
<1>3. b \in Nat /\ x \in Nat /\ RdPagesPerBs \in Nat /\ DiskPages \in Nat
  BY <1>1, BackingStoreAssumption DEF Stores
<1>4. PageAt(b, x) \in Nat
  <2>1. b * RdPagesPerBs \in Nat
    BY <1>3
  <2> QED
    BY <1>3, <2>1 DEF PageAt
<1>5. Place(s, p, v) = PageAt(b, x)
  BY DEF Place, b, x
<1>6. OnDisk(Place(s, p, v)) => HasPlace(s, p, v)
  BY <1>1, <1>2, <1>5 DEF HasPlace, Transferable, b, x
<1> QED
  BY <1>3, <1>4, <1>5, <1>6 DEF OnDisk

\* What was written to the page is on the disk now.
LEMMA EvictHeld ==
  ASSUME NEW s \in VmType, NEW A \in SUBSET Procs, NEW n \in [Procs -> Nat], NEW c,
         MapsInv(s, A, n, {}, c), StoreInv(s, A, n), NEW wr, HeldInv(s, A, n, wr),
         NEW f \in Frames, s.iv[f].valid = "PAGE",
         NEW p, p = s.iv[f].pid, NEW v, v = s.iv[f].vpn, NEW t, t = TabOf(s, p, v),
         NEW u, Evicted(s, u, f, p, v, t), ~u.panic,
         \A q \in A : n[q] <= MaxHeapSize
  PROVE  HeldInv(u, A, n, wr)
<1>1. p \in A /\ v \in Vpns /\ v < n[p] /\ Present(s, p, v) /\ Base(s, p, v) = f
  BY PageOfFrame
<1>2. ButPage(s, u, A, p, v)
  BY EvictPages
<1>3. u.mem = s.mem /\ u.bsmap = s.bsmap /\ HasPlace(s, p, v)
      /\ u.disk = [s.disk EXCEPT ![Place(s, p, v)] = s.mem[f]]
  BY DEF Evicted
<1>4. s.disk \in [0..(DiskPages - 1) -> Vals] /\ Place(s, p, v) \in 0..(DiskPages - 1)
  BY <1>1, <1>3, VmTyped, PlaceTyped
<1>5. u.disk[Place(s, p, v)] = s.mem[f] /\ OnDisk(Place(s, p, v))
      /\ \A i \in 0..(DiskPages - 1) : i # Place(s, p, v) => u.disk[i] = s.disk[i]
  BY <1>3, <1>4, BackingStoreAssumption DEF OnDisk
<1>6. \A q, x : Place(u, q, x) = Place(s, q, x)
  BY <1>3, PlaceSame
<1>7. v \in 0..(n[p] - 1)
  <2>1. n[p] \in Nat /\ v \in Nat
    BY <1>1, PageNumbers
  <2> QED
    BY <1>1, <2>1
<1>8. \A q \in A : \A x \in 0..(n[q] - 1) : Place(s, q, x) = Place(s, p, v) => q = p /\ x = v
  <2>1. A \subseteq Procs
    OBVIOUS
  <2> QED
    BY <1>1, <1>7, <2>1, PlacesApart
<1>9. SUFFICES ASSUME NEW q \in A, NEW x \in 0..(n[q] - 1), wr[q][x] # NONE
               PROVE  IF Present(u, q, x) THEN u.mem[Base(u, q, x)] = wr[q][x]
                      ELSE /\ OnDisk(Place(u, q, x))
                           /\ u.disk[Place(u, q, x)] = wr[q][x]
  BY DEF HeldInv
<1>10. IF Present(s, q, x) THEN s.mem[Base(s, q, x)] = wr[q][x]
       ELSE OnDisk(Place(s, q, x)) /\ s.disk[Place(s, q, x)] = wr[q][x]
  BY <1>9 DEF HeldInv
<1>11. CASE <<q, x>> = <<p, v>>
  <2>1. q = p /\ x = v
    BY <1>11
  <2>2. ~Present(u, q, x)
    BY <1>2, <2>1 DEF ButPage
  <2>3. s.mem[f] = wr[q][x]
    BY <1>1, <1>10, <2>1
  <2> QED
    BY ONLY <1>5, <1>6, <2>1, <2>2, <2>3
<1>12. CASE <<q, x>> # <<p, v>>
  <2>1. x \in Vpns
    <3>1. n[q] \in Nat /\ n[q] <= MaxHeapSize /\ MaxHeapSize \in Nat
      BY PagingAssumption
    <3> QED
      BY <3>1 DEF Vpns
  <2>2. /\ Present(u, q, x) <=> Present(s, q, x)
        /\ Present(s, q, x) => Base(u, q, x) = Base(s, q, x)
    BY <1>2, <1>12, <2>1 DEF ButPage
  <2>3. Place(s, q, x) # Place(s, p, v)
    BY <1>8, <1>12
  <2>4. OnDisk(Place(s, q, x)) => Place(s, q, x) \in 0..(DiskPages - 1)
    BY PlaceNumber DEF OnDisk
  <2> QED
    BY <1>3, <1>5, <1>6, <1>10, <2>2, <2>3, <2>4
<1> QED
  BY <1>11, <1>12

\* The frame that is emptied is off the list, and the others are still on it.
LEMMA EvictList ==
  ASSUME NEW s \in VmType, NEW A \in SUBSET Procs, NEW n, NEW c, MapsInv(s, A, n, {}, c),
         ListInv(s, {}), NEW f \in Frames, s.iv[f].valid = "PAGE",
         NEW p, p = s.iv[f].pid, NEW v, v = s.iv[f].vpn, NEW t, t = TabOf(s, p, v),
         NEW u, Evicted(s, u, f, p, v, t)
  PROVE  ListInv(u, {f}) /\ u.iv[f] = s.iv[f]
<1>1. t \in Frames /\ t # f /\ s.iv[t].valid = "PAGE_TAB"
  BY PageOfFrame
<1>2. /\ \A g \in Frames : g # t => u.iv[g] = s.iv[g]
      /\ u.iv[t].valid = IF s.iv[t].ref = 1 THEN "NULL_PAGE" ELSE s.iv[t].valid
  BY DEF Evicted, Uncounts
<1>3. s.fifo \in Seq(Frames) /\ u.fifo = Unlink(s.fifo, {f})
  BY VmTyped DEF Evicted, Unmaps
<1>4. Distinct(u.fifo) /\ \A x : Has(u.fifo, x) <=> Has(s.fifo, x) /\ x # f
  BY <1>3, UnlinkMembers DEF ListInv
<1>5. \A g \in Frames : u.iv[g].valid = "PAGE" <=> s.iv[g].valid = "PAGE"
  BY <1>1, <1>2
<1> QED
  BY <1>1, <1>2, <1>4, <1>5 DEF ListInv

\* What is left of the four parts after Evict.
Usable(s, A, n, X, c) == ListInv(s, X) /\ MapsInv(s, A, n, X, c)

\* The directory entries of u are those of s, but that tables may have gone.
TabsKept(s, u, c) ==
    /\ \A q \in Procs : \A d \in PdIdxs : /\ Tab(u, q, d) = Tab(s, q, d)
                                          /\ HasTab(u, q, d) => HasTab(s, q, d)
                                          /\ <<q, d>> = c /\ HasTab(s, q, d) => HasTab(u, q, d)

\* Frame f does not hold the last page of the table of c.
Spares(s, f, c) == \A q, d : c = <<q, d>> => ~LastOf(s, f, q, d)

\* u is s without the page in frame f.
Emptied(s, u, f, A, n, wr, c) ==
    /\ Usable(u, A, n, {f}, c)
    /\ ~u.panic => HeldInv(u, A, n, wr)
    /\ u.iv[f] = s.iv[f]
    /\ TabsKept(s, u, c)
    /\ \A q \in A : \A x \in Vpns : Present(u, q, x) => Present(s, q, x)

\* After Evict frame f is nobody's, everything else agrees and nothing is lost.
LEMMA EvictUsable ==
  ASSUME NEW s \in VmType, NEW A \in SUBSET Procs, NEW n \in [Procs -> Nat], NEW c,
         Usable(s, A, n, {}, c), StoreInv(s, A, n), NEW wr, HeldInv(s, A, n, wr),
         \A q \in A : n[q] <= MaxHeapSize,
         NEW f \in Frames, s.iv[f].valid = "PAGE",
         Spares(s, f, c)
  PROVE  Evict(s, f) \in VmType /\ Emptied(s, Evict(s, f), f, A, n, wr, c)
<1> DEFINE a == s.iv[f].pid
           b == s.iv[f].vpn
           g == TabOf(s, a, b)
           u == Evict(s, f)
<1>1. MapsInv(s, A, n, {}, c) /\ ListInv(s, {}) /\ Distinct(s.fifo)
  BY DEF Usable, ListInv
<1>2. a \in A /\ b \in Vpns /\ g \in Frames /\ s.iv[g].valid = "PAGE_TAB"
      /\ PdIdx(b) \in PdIdxs /\ HasTab(s, a, PdIdx(b)) /\ b \in Pages(s, a, PdIdx(b))
      /\ g = Tab(s, a, PdIdx(b))
  BY <1>1, PageOfFrame
<1>3. u \in VmType /\ Evicted(s, u, f, a, b, g)
  <2>1. a \in Procs
    BY <1>2
  <2> HIDE DEF a, b, g
  <2>2. a = s.iv[f].pid /\ b = s.iv[f].vpn /\ g = TabOf(s, a, b)
    BY DEF a, b, g
  <2> QED
    BY <1>1, <1>2, <2>1, <2>2, EvictEffect
<1> HIDE DEF u
<1>4. MapsInv(u, A, n, {f}, c)
  <2>1. <<a, PdIdx(b)>> = c => ~LastOf(s, f, a, PdIdx(b))
    BY DEF Spares
  <2> QED
    BY <1>1, <1>3, <2>1, EvictMaps
<1>5. ListInv(u, {f}) /\ u.iv[f] = s.iv[f]
  <2>1. a = s.iv[f].pid /\ b = s.iv[f].vpn /\ g = TabOf(s, a, b)
    BY DEF a, b, g
  <2> HIDE DEF a, b, g
  <2>2. ListInv(u, {f})
    BY <1>1, <1>3, <2>1, EvictList
  <2>3. f # g /\ u.iv[f] = s.iv[f]
    BY <1>2, <1>3, <2>1 DEF Evicted, Uncounts
  <2> QED
    BY <2>2, <2>3
<1>6. ~u.panic => HeldInv(u, A, n, wr)
  BY <1>1, <1>3, EvictHeld
<1>7. ButPage(s, u, A, a, b)
  BY <1>1, <1>3, EvictPages
<1>8. \A q \in A : \A x \in Vpns : Present(u, q, x) => Present(s, q, x)
  BY <1>7 DEF ButPage
<1>9. TabsKept(s, u, c)
  <2>1. /\ \A q \in Procs : \A e \in PdIdxs :
              /\ u.pd[q][e].base = s.pd[q][e].base
              /\ <<q, e>> # <<a, PdIdx(b)>> => u.pd[q][e] = s.pd[q][e]
        /\ u.pd[a][PdIdx(b)].pres <=> s.pd[a][PdIdx(b)].pres /\ s.iv[g].ref # 1
    BY <1>3 DEF Evicted, Uncounts
  <2>2. ASSUME c = <<a, PdIdx(b)>> PROVE s.iv[g].ref # 1
    <3> DEFINE S == Pages(s, a, PdIdx(b))
    <3>1. s.iv[g].ref = Cardinality(S)
      BY <1>1, <1>2 DEF MapsInv, TabInv
    <3>2. ~(S \subseteq {b})
      BY <2>2 DEF LastOf, Spares
    <3>3. IsFiniteSet(S) /\ b \in S
      BY <1>2, PagesFinite
    <3> HIDE DEF S
    <3>4. Cardinality(S) # 1
      BY <3>2, <3>3, FS_Singleton
    <3> QED
      BY <3>1, <3>4
  <2> HIDE DEF a, b, g
  <2>3. ASSUME NEW q \in Procs, NEW d \in PdIdxs
        PROVE  /\ Tab(u, q, d) = Tab(s, q, d)
               /\ HasTab(u, q, d) => HasTab(s, q, d)
               /\ <<q, d>> = c /\ HasTab(s, q, d) => HasTab(u, q, d)
    <3>1. CASE <<q, d>> = <<a, PdIdx(b)>>
      <4>1. q = a /\ d = PdIdx(b)
        BY <3>1
      <4> QED
        BY <2>1, <2>2, <4>1 DEF Tab, HasTab
    <3>2. CASE <<q, d>> # <<a, PdIdx(b)>>
      BY <2>1, <3>2 DEF Tab, HasTab
    <3> QED
      BY <3>1, <3>2
  <2> QED
    BY <2>3 DEF TabsKept
<1> QED
  BY <1>3, <1>4, <1>5, <1>6, <1>8, <1>9 DEF Usable, Emptied, u

----------------------------------------------------------------------------
\* The GCA scan.  It visits the frames of the list, from the hand on.
LEMMA HandOnward ==
  ASSUME NEW s \in VmType, sys.policy = "GCA", ~NoVictim(s)
  PROVE  /\ FromHand(s) \in Seq(Frames) /\ Len(FromHand(s)) > 0
         /\ \A i \in 1..Len(FromHand(s)) : Has(s.fifo, FromHand(s)[i])
<1> DEFINE l == s.fifo
           h == HandPos(s)
           a == SubSeq(l, h, Len(l))
           b == SubSeq(l, 1, h - 1)
<1>1. l \in Seq(Frames) /\ l # << >> /\ s.hand \in Frames \cup {HEAD, TAIL}
      /\ s.hand # TAIL /\ (s.hand \in Frames => s.hand \in Range(l))
  BY VmTyped DEF NoVictim
<1>2. Len(l) \in Nat /\ Len(l) > 0 /\ \A i \in 1..Len(l) : l[i] \in Frames
  BY <1>1
<1>3. h \in 1..Len(l)
  <2>1. CASE s.hand = HEAD
    BY <1>2, <2>1 DEF HandPos
  <2>2. CASE s.hand # HEAD
    <3>1. s.hand \in Range(l)
      BY <1>1, <2>2
    <3>2. \E i \in 1..Len(l) : l[i] = s.hand
      BY <1>1, <3>1 DEF Range
    <3> HIDE DEF l
    <3>3. h = CHOOSE i \in 1..Len(l) : l[i] = s.hand
      BY <2>2 DEF HandPos, l
    <3> QED
      BY <3>2, <3>3
  <2> QED
    BY <2>1, <2>2
<1>4. FromHand(s) = a \o b
  BY DEF FromHand
<1> HIDE DEF l, h
<1>5. /\ a \in Seq(Frames) /\ Len(a) = Len(l) - h + 1
      /\ \A i \in 1..Len(a) : a[i] = l[i + h - 1]
  BY <1>1, <1>2, <1>3
<1>6. /\ b \in Seq(Frames) /\ Len(b) = h - 1
      /\ \A i \in 1..Len(b) : b[i] = l[i]
  BY <1>1, <1>2, <1>3
<1> HIDE DEF a, b
<1>7. a \o b \in Seq(Frames) /\ Len(a \o b) = Len(a) + Len(b)
      /\ \A i \in 1..(Len(a) + Len(b)) : (a \o b)[i] = IF i <= Len(a) THEN a[i] ELSE b[i - Len(a)]
  <2>1. a \in Seq(Frames) /\ b \in Seq(Frames)
    BY <1>5, <1>6
  <2> QED
    BY <2>1, ConcatProperties
<1>8. ASSUME NEW i \in 1..(Len(a) + Len(b)) PROVE Has(l, (a \o b)[i])
  <2>1. CASE i <= Len(a)
    <3>1. i + h - 1 \in 1..Len(l) /\ (a \o b)[i] = l[i + h - 1]
      BY <1>2, <1>3, <1>5, <1>7, <2>1
    <3> QED
      BY <3>1 DEF Has
  <2>2. CASE ~(i <= Len(a))
    <3>1. i - Len(a) \in 1..Len(l) /\ (a \o b)[i] = l[i - Len(a)]
      BY <1>2, <1>3, <1>5, <1>6, <1>7, <2>2
    <3> QED
      BY <3>1 DEF Has
  <2> QED
    BY <2>1, <2>2
<1> QED
  BY <1>2, <1>3, <1>4, <1>5, <1>6, <1>7, <1>8 DEF l

\* Some entry is of the least use, and what each entry visited is left with is a use.
LEMMA ScanLeaves ==
  ASSUME NEW s \in VmType, NEW q, q = FromHand(s), q \in Seq(Frames), Len(q) > 0,
         \A i \in 1..Len(q) : Use(s, q[i]) \in 0..2
  PROVE  /\ ScanEnd(s) \in 1..Len(q)
         /\ \A i \in 1..Len(q) : UseLeft(s, i) \in 0..2
<1> DEFINE N == Len(q)
           e(i) == Use(s, q[i])
           S == {e(i) : i \in 1..N}
           m == Min(S)
           T == {i \in 1..N : e(i) = m}
<1>1. N \in Nat /\ N > 0
  OBVIOUS
<1>2. m \in S /\ \A y \in S : m <= y
  <2>1. S \subseteq Nat /\ S # {}
    BY <1>1
  <2> HIDE DEF S
  <2> QED
    BY <2>1, LeastNat
<1>3. ScanEnd(s) = Min(T)
  BY DEF ScanEnd
<1> HIDE DEF m
<1>4. T \subseteq Nat /\ T # {}
  BY <1>1, <1>2
<1>5. Min(T) \in T /\ \A y \in T : Min(T) <= y
  <2> HIDE DEF T
  <2> QED
    BY <1>4, LeastNat
<1> DEFINE z == ScanEnd(s)
<1>6. z \in 1..N /\ e(z) = m /\ \A i \in 1..N : e(i) = m => z <= i
  BY <1>3, <1>5
<1> HIDE DEF z
<1>7. ASSUME NEW i \in 1..N PROVE UseLeft(s, i) \in 0..2
  <2>1. UseLeft(s, i) = e(i) - e(z) - (IF i < z THEN 1 ELSE 0)
    BY DEF UseLeft, z
  <2>2. e(i) \in 0..2 /\ e(z) \in 0..2 /\ e(z) <= e(i)
    BY <1>2, <1>6
  <2>3. i < z => e(i) # e(z)
    BY <1>6
  <2> HIDE DEF e
  <2> QED
    BY <2>1, <2>2, <2>3
<1> QED
  BY <1>6, <1>7 DEF z

\* The scan changes the bits of entries and the hand, and finds a frame with a page.
SamePlaces(pt, pt2) ==
    \A g \in Frames : \A k \in PtIdxs : pt2[g][k].pres = pt[g][k].pres
                                        /\ pt2[g][k].base = pt[g][k].base

\* The scan finds a frame with a page, and changes nothing but hand and accessed bits.
LEMMA ScanEffect ==
  ASSUME NEW s \in VmType, sys.policy = "GCA", ~NoVictim(s), NEW A \in SUBSET Procs, NEW n,
         NEW c, Usable(s, A, n, {}, c)
  PROVE  /\ GcaVictim(s) \in Frames /\ s.iv[GcaVictim(s)].valid = "PAGE"
         /\ GcaScan(s) \in VmType
         /\ But(s, GcaScan(s), {"hand", "pt"})
         /\ SamePlaces(s.pt, GcaScan(s).pt)
<1> DEFINE q == FromHand(s)
           l == s.fifo
           z == GcaVictim(s)
           i == CHOOSE j \in 1..Len(l) : l[j] = z
           left == [f \in Range(q) |-> UseLeft(s, CHOOSE j \in 1..Len(q) : q[j] = f)]
           tab(f) == TabOf(s, s.iv[f].pid, s.iv[f].vpn)
           O(f, t, k) == f \in Range(q) /\ tab(f) = t /\ PtIdx(s.iv[f].vpn) = k
           w(t, k) == CHOOSE f \in Range(q) : tab(f) = t /\ PtIdx(s.iv[f].vpn) = k
           e(t, k) == IF \E f \in Range(q) : tab(f) = t /\ PtIdx(s.iv[f].vpn) = k
                      THEN [s.pt[t][k] EXCEPT !.use = left[w(t, k)]]
                      ELSE s.pt[t][k]
           x == [t \in Frames |-> [k \in DOMAIN s.pt[t] |-> e(t, k)]]
           y == IF i = Len(l) THEN TAIL ELSE l[i + 1]
<1>1. q \in Seq(Frames) /\ Len(q) > 0 /\ \A j \in 1..Len(q) : Has(l, q[j])
  BY HandOnward
<1>2. l \in Seq(Frames) /\ s.pt \in [Frames -> [PtIdxs -> PtEntry]]
  BY VmTyped
<1>3. \A f \in Frames : Has(l, f) => s.iv[f].valid = "PAGE"
  BY DEF Usable, ListInv
<1>4. \A f \in Frames : Has(l, f) => Use(s, f) \in 0..2
  <2> SUFFICES ASSUME NEW f \in Frames, Has(l, f) PROVE Use(s, f) \in 0..2
    OBVIOUS
  <2> DEFINE p == s.iv[f].pid
             v == s.iv[f].vpn
  <2>1. v \in Vpns /\ TabOf(s, p, v) \in Frames
    BY <1>3, PageOfFrame DEF Usable
  <2>2. PtIdx(v) \in PtIdxs
    BY <2>1, PageNumbers
  <2>3. Pte(s, p, v) \in PtEntry
    BY <2>1, <2>2, EntriesTyped DEF Pte
  <2> QED
    BY <2>3 DEF PtEntry, Use
<1>5. ScanEnd(s) \in 1..Len(q) /\ \A j \in 1..Len(q) : UseLeft(s, j) \in 0..2
  <2>1. \A j \in 1..Len(q) : Use(s, q[j]) \in 0..2
    BY <1>1, <1>4
  <2> HIDE DEF q
  <2> QED
    BY <1>1, <2>1, ScanLeaves DEF q
<1>6. GcaScan(s) = [s EXCEPT !.hand = y, !.pt = x]
  BY DEF GcaScan
<1>7. z = q[ScanEnd(s)]
  BY DEF GcaVictim
<1> HIDE DEF q, z
<1>8. z \in Frames /\ Has(l, z)
  BY <1>1, <1>5, <1>7
<1>9. y \in Frames \cup {HEAD, TAIL}
  <2>1. i \in 1..Len(l)
    BY <1>8 DEF Has
  <2>2. i # Len(l) => i + 1 \in 1..Len(l)
    BY <1>2, <2>1
  <2> HIDE DEF i
  <2> QED
    BY <1>2, <2>2
<1>10. \A f \in Range(q) : left[f] \in 0..2
  <2> SUFFICES ASSUME NEW f \in Range(q) PROVE left[f] \in 0..2
    OBVIOUS
  <2>1. \E j \in 1..Len(q) : q[j] = f
    BY <1>1 DEF Range
  <2>2. (CHOOSE j \in 1..Len(q) : q[j] = f) \in 1..Len(q)
    BY <2>1
  <2> QED
    BY <1>5, <2>2
<1> HIDE DEF left, tab
<1>11. ASSUME NEW t \in Frames, NEW k \in PtIdxs
       PROVE  e(t, k) \in PtEntry /\ e(t, k).pres = s.pt[t][k].pres
              /\ e(t, k).base = s.pt[t][k].base
  <2>1. s.pt[t][k] \in PtEntry
    BY EntriesTyped
  <2>2. CASE \E f \in Range(q) : tab(f) = t /\ PtIdx(s.iv[f].vpn) = k
    <3>1. w(t, k) \in Range(q)
      BY <2>2
    <3> DEFINE u == left[w(t, k)]
    <3>2. u \in 0..2
      BY <1>10, <3>1
    <3> HIDE DEF u
    <3>3. e(t, k) = [s.pt[t][k] EXCEPT !.use = u]
      BY <2>2 DEF u
    <3> HIDE DEF e
    <3> QED
      BY <2>1, <3>2, <3>3 DEF PtEntry
  <2>3. CASE ~\E f \in Range(q) : tab(f) = t /\ PtIdx(s.iv[f].vpn) = k
    <3>1. e(t, k) = s.pt[t][k]
      BY <2>3
    <3> QED
      BY <2>1, <3>1
  <2> QED
    BY <2>2, <2>3
<1> HIDE DEF e
<1>12. /\ x \in [Frames -> [PtIdxs -> PtEntry]]
       /\ \A t \in Frames : \A k \in PtIdxs : x[t][k] = e(t, k)
  <2>1. \A t \in Frames : DOMAIN s.pt[t] = PtIdxs
    BY <1>2
  <2> QED
    BY <1>11, <2>1
<1> HIDE DEF x, y
<1>13. SamePlaces(s.pt, x)
  BY <1>11, <1>12 DEF SamePlaces
<1>14. /\ GcaScan(s) \in VmType /\ GcaScan(s).pt = x /\ But(s, GcaScan(s), {"hand", "pt"})
  BY <1>6, <1>9, <1>12 DEF VmType, PtIdxs, But, Fields
<1> QED
  BY <1>3, <1>8, <1>13, <1>14 DEF z

----------------------------------------------------------------------------
\* The pages of the processes in A are where they were.
SameMaps(s, t, A) ==
    \A q \in A : \A x \in Vpns : /\ Present(t, q, x) <=> Present(s, q, x)
                                 /\ Present(s, q, x) => Base(t, q, x) = Base(s, q, x)

\* So they are, as long as no table's entries change place.
LEMMA TablesKeepMaps ==
  ASSUME NEW s, NEW A, NEW X, NEW c, TabInv(s, A, X, c), NEW t, t.pd = s.pd,
         \A g \in Frames \ X : \A k \in PtIdxs : t.pt[g][k].pres = s.pt[g][k].pres
                                                 /\ t.pt[g][k].base = s.pt[g][k].base
  PROVE  SameMaps(s, t, A)
<1> SUFFICES ASSUME NEW q \in A, NEW x \in Vpns
             PROVE  /\ Present(t, q, x) <=> Present(s, q, x)
                    /\ Present(s, q, x) => Base(t, q, x) = Base(s, q, x)
  BY DEF SameMaps
<1> DEFINE d == PdIdx(x)
           k == PtIdx(x)
           g == TabOf(s, q, x)
<1>1. d \in PdIdxs /\ k \in PtIdxs /\ TabOf(t, q, x) = g
  BY PageNumbers DEF TabOf
<1>2. HasTab(t, q, d) <=> HasTab(s, q, d)
  BY DEF HasTab
<1>3. HasTab(s, q, d) => g \in Frames \ X
  BY <1>1 DEF TabInv, Tab, TabOf
<1>4. HasTab(s, q, d) => t.pt[g][k].pres = s.pt[g][k].pres
                         /\ t.pt[g][k].base = s.pt[g][k].base
  BY <1>1, <1>3
<1> QED
  BY <1>1, <1>2, <1>4 DEF Present, HasTab, Base, Pte

\* Where pages are kept in place, the tables have the same pages.
LEMMA SamePages ==
  ASSUME NEW s, NEW t, NEW A, SameMaps(s, t, A), NEW q \in A, NEW d
  PROVE  Pages(t, q, d) = Pages(s, q, d)
BY DEF SameMaps, Pages

\* What is said of the maps holds on.
LEMMA UsableKept ==
  ASSUME NEW s, NEW A, NEW n, NEW X, NEW c, MapsInv(s, A, n, X, c),
         NEW t, SameMaps(s, t, A), t.pd = s.pd, t.iv = s.iv, A \subseteq Procs,
         \A f \in Frames : s.iv[f].valid = "PAGE" /\ f \notin X => s.iv[f].vpn \in Vpns
  PROVE  MapsInv(t, A, n, X, c)
<1>1. OwnInv(t, A)
  BY DEF MapsInv, OwnInv
<1>2. PageInv(t, X)
  <2> SUFFICES ASSUME NEW f \in Frames \ X, s.iv[f].valid = "PAGE"
               PROVE  /\ Present(t, s.iv[f].pid, s.iv[f].vpn)
                      /\ Base(t, s.iv[f].pid, s.iv[f].vpn) = f
    BY DEF PageInv
  <2>1. /\ Present(s, s.iv[f].pid, s.iv[f].vpn) /\ Base(s, s.iv[f].pid, s.iv[f].vpn) = f
        /\ s.iv[f].pid \in A /\ s.iv[f].vpn \in Vpns
    BY DEF MapsInv, PageInv, OwnInv
  <2> QED
    BY <2>1 DEF SameMaps
<1>3. MapInv(t, A, n, X)
  <2> SUFFICES ASSUME NEW q \in A, NEW x \in Vpns, Present(t, q, x)
               PROVE  /\ x < n[q]
                      /\ Base(t, q, x) \in Frames \ X
                      /\ t.iv[Base(t, q, x)].valid = "PAGE"
                      /\ t.iv[Base(t, q, x)].pid = q
                      /\ t.iv[Base(t, q, x)].vpn = x
    BY DEF MapInv
  <2>1. Present(s, q, x) /\ Base(t, q, x) = Base(s, q, x)
    BY DEF SameMaps
  <2> QED
    BY <2>1 DEF MapsInv, MapInv
<1>4. TabInv(t, A, X, c)
  <2>1. \A q, d : HasTab(t, q, d) = HasTab(s, q, d) /\ Tab(t, q, d) = Tab(s, q, d)
    BY DEF HasTab, Tab
  <2>2. \A q \in A : \A d : Pages(t, q, d) = Pages(s, q, d)
    BY SamePages
  <2>3. TabInv(s, A, X, c)
    BY DEF MapsInv
  <2> SUFFICES ASSUME NEW q \in A, NEW e \in PdIdxs, HasTab(s, q, e)
               PROVE  /\ Tab(t, q, e) \in Frames \ X
                      /\ t.iv[Tab(t, q, e)].valid = "PAGE_TAB"
                      /\ t.iv[Tab(t, q, e)].pid = q
                      /\ t.iv[Tab(t, q, e)].ref = Cardinality(Pages(t, q, e))
                      /\ <<q, e>> = c \/ Pages(t, q, e) # {}
                      /\ \A y \in PdIdxs : HasTab(t, q, y) /\ Tab(t, q, y) = Tab(t, q, e)
                                           => y = e
    BY <2>1 DEF TabInv
  <2>4. /\ Tab(s, q, e) \in Frames \ X
        /\ s.iv[Tab(s, q, e)].valid = "PAGE_TAB"
        /\ s.iv[Tab(s, q, e)].pid = q
        /\ s.iv[Tab(s, q, e)].ref = Cardinality(Pages(s, q, e))
        /\ <<q, e>> = c \/ Pages(s, q, e) # {}
        /\ \A y \in PdIdxs : HasTab(s, q, y) /\ Tab(s, q, y) = Tab(s, q, e) => y = e
    BY <2>3 DEF TabInv
  <2> QED
    BY <2>1, <2>2, <2>4
<1> QED
  BY <1>1, <1>2, <1>3, <1>4 DEF MapsInv

\* Where pages, frames and disk are kept, what was written is kept.
LEMMA HeldKept ==
  ASSUME NEW s, NEW A, NEW n, NEW wr, HeldInv(s, A, n, wr),
         NEW t, SameMaps(s, t, A), t.disk = s.disk, t.bsmap = s.bsmap,
         \A q \in A : n[q] \in Nat /\ n[q] <= MaxHeapSize,
         \A q \in A : \A x \in Vpns : Present(s, q, x) =>
             t.mem[Base(s, q, x)] = s.mem[Base(s, q, x)]
  PROVE  HeldInv(t, A, n, wr)
<1> SUFFICES ASSUME NEW q \in A, NEW x \in 0..(n[q] - 1), wr[q][x] # NONE
             PROVE  IF Present(t, q, x) THEN t.mem[Base(t, q, x)] = wr[q][x]
                    ELSE OnDisk(Place(t, q, x)) /\ t.disk[Place(t, q, x)] = wr[q][x]
  BY DEF HeldInv
<1>1. x \in Vpns
  <2>1. n[q] \in Nat /\ n[q] <= MaxHeapSize /\ MaxHeapSize \in Nat
    BY PagingAssumption
  <2> QED
    BY <2>1 DEF Vpns
<1>2. Place(t, q, x) = Place(s, q, x)
  BY PlaceSame
<1>3. IF Present(s, q, x) THEN s.mem[Base(s, q, x)] = wr[q][x]
      ELSE OnDisk(Place(s, q, x)) /\ s.disk[Place(s, q, x)] = wr[q][x]
  BY DEF HeldInv
<1> QED
  BY <1>1, <1>2, <1>3 DEF SameMaps

\* The scan keeps it all.
LEMMA ScanUsable ==
  ASSUME NEW s \in VmType, sys.policy = "GCA", ~NoVictim(s), NEW A \in SUBSET Procs,
         NEW n \in [Procs -> Nat], \A q \in A : n[q] <= MaxHeapSize, NEW c,
         Usable(s, A, n, {}, c), NEW wr, HeldInv(s, A, n, wr), StoreInv(s, A, n)
  PROVE  LET t == GcaScan(s) IN
         /\ t \in VmType /\ Usable(t, A, n, {}, c) /\ HeldInv(t, A, n, wr) /\ StoreInv(t, A, n)
         /\ SameMaps(s, t, A) /\ t.iv = s.iv /\ t.pd = s.pd
<1> DEFINE t == GcaScan(s)
<1>1. t \in VmType /\ But(s, t, {"hand", "pt"}) /\ SamePlaces(s.pt, t.pt)
  BY ScanEffect
<1> HIDE DEF t
<1>2. t.iv = s.iv /\ t.pd = s.pd /\ t.fifo = s.fifo /\ t.mem = s.mem /\ t.disk = s.disk
      /\ t.bsmap = s.bsmap
  BY <1>1 DEF But, Fields
<1>3. MapsInv(s, A, n, {}, c) /\ TabInv(s, A, {}, c)
  BY DEF Usable, MapsInv
<1>4. SameMaps(s, t, A)
  <2>1. \A g \in Frames \ {} : \A k \in PtIdxs : t.pt[g][k].pres = s.pt[g][k].pres
                                                 /\ t.pt[g][k].base = s.pt[g][k].base
    BY <1>1 DEF SamePlaces
  <2> QED
    BY <1>2, <1>3, <2>1, TablesKeepMaps
<1>5. MapsInv(t, A, n, {}, c)
  <2>1. \A f \in Frames : s.iv[f].valid = "PAGE" => s.iv[f].vpn \in Vpns
    BY <1>3, PageOfFrame
  <2> QED
    BY <1>2, <1>3, <1>4, <2>1, UsableKept
<1>6. ListInv(t, {})
  BY <1>2 DEF Usable, ListInv
<1>7. HeldInv(t, A, n, wr)
  <2>1. \A q \in A : n[q] \in Nat /\ n[q] <= MaxHeapSize
    OBVIOUS
  <2> QED
    BY <1>2, <1>4, <2>1, HeldKept
<1>8. StoreInv(t, A, n)
  <2>1. Kept(s, t)
    BY KeptByMoves DEF t
  <2> QED
    BY <2>1, StoreInvKept
<1> QED
  BY <1>1, <1>2, <1>4, <1>5, <1>6, <1>7, <1>8 DEF Usable, t

----------------------------------------------------------------------------
\* Giving a frame away.  What Take does to the state:
Taken(s, t, f, pid, vpn, purpose) ==
    /\ But(s, t, {"iv", "fifo", "mem", "pt"})
    /\ \A g \in Frames : g # f => /\ t.iv[g] = s.iv[g] /\ t.mem[g] = s.mem[g]
                                  /\ t.pt[g] = s.pt[g]
    /\ t.iv[f].valid = purpose /\ t.iv[f].pid = pid /\ t.iv[f].ref = s.iv[f].ref
    /\ purpose = "PAGE" => t.iv[f].vpn = vpn
    /\ \A k \in PtIdxs : ~t.pt[f][k].pres
    /\ t.fifo = IF purpose = "PAGE" THEN Append(s.fifo, f) ELSE s.fifo

Purposes == {"PAGE", "PAGE_TAB", "PAGE_DIR"}

\* Take does this.
LEMMA TakeEffect ==
  ASSUME NEW s \in VmType, NEW f \in Frames, NEW pid \in Procs, NEW vpn \in Vpns,
         NEW purpose \in Purposes
  PROVE  LET t == Take(s, f, pid, vpn, purpose) IN
         t \in VmType /\ Taken(s, t, f, pid, vpn, purpose)
<1> DEFINE e == s.iv[f]
           y == IF purpose = "PAGE" THEN vpn ELSE e.vpn
           x == [valid |-> purpose, pid |-> pid, vpn |-> y, ref |-> e.ref]
           iv == [s.iv EXCEPT ![f] = x]
           q == IF purpose = "PAGE" THEN Append(s.fifo, f) ELSE s.fifo
           mem == [s.mem EXCEPT ![f] = 0]
           w == [k \in DOMAIN s.pt[f] |-> NoPte]
           pt == [s.pt EXCEPT ![f] = w]
           t == Take(s, f, pid, vpn, purpose)
<1>1. /\ s.iv \in [Frames -> IvEntry] /\ s.mem \in [Frames -> Vals]
      /\ s.pt \in [Frames -> [PtIdxs -> PtEntry]] /\ s.fifo \in Seq(Frames)
  BY VmTyped
<1>2. t = [s EXCEPT !.iv = iv, !.fifo = q, !.mem = mem, !.pt = pt]
  BY DEF Take, VmType
<1>3. e \in IvEntry /\ y \in Vpns \cup {0}
  BY <1>1 DEF IvEntry
<1> HIDE DEF e, y
<1>4. x \in IvEntry /\ x.valid = purpose /\ x.pid = pid /\ x.vpn = y /\ x.ref = e.ref
  BY <1>3 DEF IvEntry, Purposes
<1> HIDE DEF x
<1>5. iv \in [Frames -> IvEntry] /\ iv[f] = x /\ \A g \in Frames : g # f => iv[g] = s.iv[g]
  BY <1>1, <1>4
<1>6. q \in Seq(Frames)
  BY <1>1, AppendMembers
<1>7. mem \in [Frames -> Vals] /\ \A g \in Frames : g # f => mem[g] = s.mem[g]
  BY <1>1, PagingAssumption
<1>8. w \in [PtIdxs -> PtEntry] /\ \A k \in PtIdxs : w[k] = NoPte
  <2>1. s.pt[f] \in [PtIdxs -> PtEntry]
    BY <1>1
  <2>2. DOMAIN s.pt[f] = PtIdxs
    BY <2>1
  <2>3. NoPte \in PtEntry
    BY DEF NoPte, PtEntry
  <2> QED
    BY <2>2, <2>3
<1> HIDE DEF w
<1>9. pt \in [Frames -> [PtIdxs -> PtEntry]] /\ pt[f] = w
      /\ \A g \in Frames : g # f => pt[g] = s.pt[g]
  BY <1>1, <1>8
<1> HIDE DEF iv, q, mem, pt, t
<1>10. /\ t \in VmType /\ But(s, t, {"iv", "fifo", "mem", "pt"})
       /\ t.iv = iv /\ t.fifo = q /\ t.mem = mem /\ t.pt = pt
  <2>1. t \in VmType
    BY <1>2, <1>5, <1>6, <1>7, <1>9 DEF VmType, PtIdxs
  <2>2. /\ But(s, t, {"iv", "fifo", "mem", "pt"})
        /\ t.iv = iv /\ t.fifo = q /\ t.mem = mem /\ t.pt = pt
    BY <1>2 DEF VmType, But, Fields
  <2> QED
    BY <2>1, <2>2
<1>11. \A k \in PtIdxs : ~t.pt[f][k].pres
  BY <1>8, <1>9, <1>10 DEF NoPte
<1>12. /\ \A g \in Frames : g # f => /\ t.iv[g] = s.iv[g] /\ t.mem[g] = s.mem[g]
                                     /\ t.pt[g] = s.pt[g]
       /\ t.iv[f].valid = purpose /\ t.iv[f].pid = pid /\ t.iv[f].ref = s.iv[f].ref
       /\ purpose = "PAGE" => t.iv[f].vpn = vpn
       /\ t.fifo = IF purpose = "PAGE" THEN Append(s.fifo, f) ELSE s.fifo
  BY <1>4, <1>5, <1>7, <1>9, <1>10 DEF e, y, q
<1>13. Taken(s, t, f, pid, vpn, purpose)
  BY <1>10, <1>11, <1>12 DEF Taken
<1> QED
  BY <1>10, <1>13 DEF t

\* The new owner's frame is not part of anything yet; the rest is as it was.
Given(t, A, n, f, c, pid) ==
    /\ ListInv(t, {})
    /\ OwnInv(t, A \cup {pid})
    /\ \A g \in Frames \ {f} : t.iv[g].valid # "NULL_PAGE" => t.iv[g].pid \in A
    /\ PageInv(t, {f})
    /\ MapInv(t, A, n, {f})
    /\ TabInv(t, A, {f}, c)

\* A frame that was nobody's is given to pid, and nothing else is disturbed.
LEMMA TakeGives ==
  ASSUME NEW s \in VmType, NEW A \in SUBSET Procs, NEW n, NEW c, NEW f \in Frames,
         Usable(s, A, n, {f}, c), s.iv[f].ref = 0,
         NEW pid, NEW vpn, NEW purpose \in Purposes, NEW t,
         Taken(s, t, f, pid, vpn, purpose)
  PROVE  SameMaps(s, t, A) /\ Given(t, A, n, f, c, pid)
<1>1. /\ \A g \in Frames : g # f => /\ t.iv[g] = s.iv[g] /\ t.mem[g] = s.mem[g]
                                    /\ t.pt[g] = s.pt[g]
      /\ t.iv[f].valid = purpose /\ t.iv[f].pid = pid /\ t.iv[f].ref = 0
      /\ t.fifo = IF purpose = "PAGE" THEN Append(s.fifo, f) ELSE s.fifo
  BY DEF Taken
<1>2. t.pd = s.pd
  BY DEF Taken, But, Fields
<1>3. TabInv(s, A, {f}, c) /\ MapInv(s, A, n, {f}) /\ PageInv(s, {f}) /\ OwnInv(s, A)
      /\ ListInv(s, {f})
  BY DEF Usable, MapsInv
<1>4. SameMaps(s, t, A)
  <2>1. \A g \in Frames \ {f} : \A k \in PtIdxs : t.pt[g][k].pres = s.pt[g][k].pres
                                                  /\ t.pt[g][k].base = s.pt[g][k].base
    BY <1>1
  <2> QED
    BY <1>2, <1>3, <2>1, TablesKeepMaps
<1>5. ListInv(t, {})
  <2>1. s.fifo \in Seq(Frames) /\ Distinct(s.fifo) /\ ~Has(s.fifo, f)
    BY <1>3, VmTyped DEF ListInv
  <2>2. CASE purpose = "PAGE"
    <3>1. Distinct(t.fifo) /\ \A g : Has(t.fifo, g) <=> Has(s.fifo, g) \/ g = f
      BY <1>1, <2>1, <2>2, AppendMembers
    <3> QED
      BY <1>1, <1>3, <2>2, <3>1 DEF ListInv
  <2>3. CASE purpose # "PAGE"
    BY <1>1, <1>3, <2>1, <2>3 DEF ListInv
  <2> QED
    BY <2>2, <2>3
<1>6. OwnInv(t, A \cup {pid})
  BY <1>1, <1>3 DEF OwnInv
<1>7. PageInv(t, {f})
  <2> SUFFICES ASSUME NEW g \in Frames \ {f}, t.iv[g].valid = "PAGE"
               PROVE  /\ Present(t, t.iv[g].pid, t.iv[g].vpn)
                      /\ Base(t, t.iv[g].pid, t.iv[g].vpn) = g
    BY DEF PageInv
  <2> DEFINE p == s.iv[g].pid
             v == s.iv[g].vpn
  <2>1. t.iv[g] = s.iv[g]
    BY <1>1
  <2>2. p \in A /\ Present(s, p, v) /\ Base(s, p, v) = g
    BY <1>3, <2>1 DEF OwnInv, PageInv
  <2>3. v \in Vpns
    <3>1. s.iv[g] \in IvEntry
      BY EntriesTyped
    <3>2. 0 \in Vpns
      BY PagingAssumption DEF Vpns
    <3> QED
      BY <3>1, <3>2 DEF IvEntry
  <2> QED
    BY <1>4, <2>1, <2>2, <2>3 DEF SameMaps
<1>8. MapInv(t, A, n, {f})
  <2> SUFFICES ASSUME NEW q \in A, NEW x \in Vpns, Present(t, q, x)
               PROVE  /\ x < n[q]
                      /\ Base(t, q, x) \in Frames \ {f}
                      /\ t.iv[Base(t, q, x)].valid = "PAGE"
                      /\ t.iv[Base(t, q, x)].pid = q
                      /\ t.iv[Base(t, q, x)].vpn = x
    BY DEF MapInv
  <2>1. Present(s, q, x) /\ Base(t, q, x) = Base(s, q, x)
    BY <1>4 DEF SameMaps
  <2>2. /\ x < n[q]
        /\ Base(s, q, x) \in Frames \ {f}
        /\ s.iv[Base(s, q, x)].valid = "PAGE"
        /\ s.iv[Base(s, q, x)].pid = q
        /\ s.iv[Base(s, q, x)].vpn = x
    BY <1>3, <2>1 DEF MapInv
  <2> QED
    BY <1>1, <2>1, <2>2
<1>9. TabInv(t, A, {f}, c)
  <2>1. \A q, d : HasTab(t, q, d) = HasTab(s, q, d) /\ Tab(t, q, d) = Tab(s, q, d)
    BY <1>2 DEF HasTab, Tab
  <2>2. \A q \in A : \A d : Pages(t, q, d) = Pages(s, q, d)
    BY <1>4, SamePages
  <2> SUFFICES ASSUME NEW q \in A, NEW e \in PdIdxs, HasTab(s, q, e)
               PROVE  /\ Tab(t, q, e) \in Frames \ {f}
                      /\ t.iv[Tab(t, q, e)].valid = "PAGE_TAB"
                      /\ t.iv[Tab(t, q, e)].pid = q
                      /\ t.iv[Tab(t, q, e)].ref = Cardinality(Pages(t, q, e))
                      /\ <<q, e>> = c \/ Pages(t, q, e) # {}
                      /\ \A y \in PdIdxs : HasTab(t, q, y) /\ Tab(t, q, y) = Tab(t, q, e)
                                           => y = e
    BY <2>1 DEF TabInv
  <2>4. /\ Tab(s, q, e) \in Frames \ {f}
        /\ s.iv[Tab(s, q, e)].valid = "PAGE_TAB"
        /\ s.iv[Tab(s, q, e)].pid = q
        /\ s.iv[Tab(s, q, e)].ref = Cardinality(Pages(s, q, e))
        /\ <<q, e>> = c \/ Pages(s, q, e) # {}
        /\ \A y \in PdIdxs : HasTab(s, q, y) /\ Tab(s, q, y) = Tab(s, q, e) => y = e
    BY <1>3 DEF TabInv
  <2>5. t.iv[Tab(s, q, e)] = s.iv[Tab(s, q, e)]
    BY <1>1, <2>4
  <2> QED
    BY <2>1, <2>2, <2>4, <2>5
<1>10. \A g \in Frames \ {f} : t.iv[g].valid # "NULL_PAGE" => t.iv[g].pid \in A
  BY <1>1, <1>3 DEF OwnInv
<1> QED
  BY <1>4, <1>5, <1>6, <1>7, <1>8, <1>9, <1>10 DEF Given

\* Frame f is what get_free_frame has found; t is what s has become.
Framed(s, t, f, A, n, wr, c, pid, vpn, purpose) ==
    /\ f \in Frames
    /\ Given(t, A, n, f, c, pid)
    /\ HeldInv(t, A, n, wr)
    /\ t.iv[f].valid = purpose /\ t.iv[f].pid = pid /\ t.iv[f].ref = 0
    /\ purpose = "PAGE" => t.iv[f].vpn = vpn
    /\ \A k \in PtIdxs : ~t.pt[f][k].pres
    /\ TabsKept(s, t, c)
    /\ \A q \in A : \A x \in Vpns : Present(t, q, x) => Present(s, q, x)

\* Take keeps what was written, for f held none of it.
LEMMA TakeFrame ==
  ASSUME NEW s \in VmType, NEW A \in SUBSET Procs, NEW n \in [Procs -> Nat],
         \A q \in A : n[q] <= MaxHeapSize, NEW c, NEW f \in Frames,
         Usable(s, A, n, {f}, c), s.iv[f].ref = 0, NEW wr, HeldInv(s, A, n, wr),
         NEW pid \in Procs, NEW vpn \in Vpns, NEW purpose \in Purposes, NEW t,
         t = Take(s, f, pid, vpn, purpose)
  PROVE  Framed(s, t, f, A, n, wr, c, pid, vpn, purpose)
<1>1. Taken(s, t, f, pid, vpn, purpose)
  BY TakeEffect
<1>2. SameMaps(s, t, A) /\ Given(t, A, n, f, c, pid)
  BY <1>1, TakeGives
<1>3. But(s, t, {"iv", "fifo", "mem", "pt"}) /\ \A g \in Frames : g # f => t.mem[g] = s.mem[g]
  BY <1>1 DEF Taken
<1>4. t.disk = s.disk /\ t.bsmap = s.bsmap /\ t.pd = s.pd
  BY <1>3 DEF But, Fields
<1>5. HeldInv(t, A, n, wr)
  <2>1. \A q \in A : \A x \in Vpns : Present(s, q, x) =>
            t.mem[Base(s, q, x)] = s.mem[Base(s, q, x)]
    BY <1>3 DEF Usable, MapsInv, MapInv
  <2>2. \A q \in A : n[q] \in Nat /\ n[q] <= MaxHeapSize
    OBVIOUS
  <2> QED
    BY <1>2, <1>4, <2>1, <2>2, HeldKept
<1>6. TabsKept(s, t, c)
  BY <1>4 DEF TabsKept, Tab, HasTab
<1> QED
  BY <1>1, <1>2, <1>5, <1>6 DEF Framed, Taken, SameMaps

\* A frame that holds nothing is part of nothing.
LEMMA FreeUsable ==
  ASSUME NEW s, NEW A, NEW n, NEW c, Usable(s, A, n, {}, c),
         NEW f \in Frames, s.iv[f].valid = "NULL_PAGE"
  PROVE  Usable(s, A, n, {f}, c)
<1>1. TabInv(s, A, {}, c) /\ MapInv(s, A, n, {}) /\ PageInv(s, {}) /\ OwnInv(s, A)
      /\ ListInv(s, {})
  BY DEF Usable, MapsInv
<1>2. ListInv(s, {f}) /\ PageInv(s, {f}) /\ MapInv(s, A, n, {f})
  BY <1>1 DEF ListInv, PageInv, MapInv
<1>3. TabInv(s, A, {f}, c)
  BY <1>1 DEF TabInv
<1> QED
  BY <1>1, <1>2, <1>3 DEF Usable, MapsInv

\* get_free_frame: as long as the page that goes is not the last one of the table of c,
\* it finds a frame that nothing else is in, and loses nothing that was written.
LEMMA FrameFound ==
  ASSUME NEW s \in VmType, NEW A \in SUBSET Procs, NEW n \in [Procs -> Nat],
         \A q \in A : n[q] <= MaxHeapSize, NEW c, Usable(s, A, n, {}, c),
         StoreInv(s, A, n), NEW wr, HeldInv(s, A, n, wr),
         FreeFrames(s) = {} /\ ~NoVictim(s) => Spares(s, Victim(s), c),
         NEW pid \in Procs, NEW vpn \in Vpns, NEW purpose \in Purposes,
         sys.policy \in {"FIFO", "GCA"}
  PROVE  LET t == get_free_frame(s, pid, vpn, purpose) IN
         /\ t \in VmType
         /\ ~t.panic => /\ Framed(s, t, FrameFor(s), A, n, wr, c, pid, vpn, purpose)
                        /\ StoreInv(t, A, n)
<1> DEFINE f == FrameFor(s)
           t == get_free_frame(s, pid, vpn, purpose)
<1>1. StoreInv(t, A, n)
  BY KeptByFrame, StoreInvKept
<1>2. OwnInv(s, A) /\ ListInv(s, {}) /\ MapsInv(s, A, n, {}, c)
  BY DEF Usable, MapsInv
<1>3. 0 \notin Frames /\ Frames \subseteq Nat
  BY PagingAssumption
<1>4. CASE FreeFrames(s) # {}
  <2>1. f \in Frames /\ s.iv[f].valid = "NULL_PAGE"
    <3>1. FreeFrames(s) \subseteq Nat
      BY <1>3 DEF FreeFrames
    <3>2. f \in FreeFrames(s)
      BY <1>4, <3>1, LeastNat DEF FrameFor
    <3> QED
      BY <3>2 DEF FreeFrames
  <2>2. t = Take(s, f, pid, vpn, purpose)
    BY <1>3, <1>4, <2>1 DEF get_free_frame, NONE
  <2> HIDE DEF f, t
  <2>3. Usable(s, A, n, {f}, c) /\ s.iv[f].ref = 0
    BY <1>2, <2>1, FreeUsable DEF OwnInv
  <2>4. t \in VmType /\ Framed(s, t, f, A, n, wr, c, pid, vpn, purpose)
    BY <2>1, <2>2, <2>3, TakeEffect, TakeFrame
  <2> QED
    BY <1>1, <2>4 DEF f, t
<1>5. CASE FreeFrames(s) = {} /\ NoVictim(s)
  <2>1. t = Panic(s)
    BY <1>5 DEF get_free_frame, FrameFor
  <2> QED
    BY <2>1, PanicTyped DEF t
<1>6. CASE FreeFrames(s) = {} /\ ~NoVictim(s)
  <2> DEFINE r == IF sys.policy = "GCA" THEN GcaScan(s) ELSE s
             u == Evict(r, f)
  <2>1. /\ f \in Frames /\ s.iv[f].valid = "PAGE" /\ f = Victim(s)
        /\ r \in VmType /\ Usable(r, A, n, {}, c) /\ HeldInv(r, A, n, wr)
        /\ StoreInv(r, A, n) /\ SameMaps(s, r, A) /\ r.iv = s.iv /\ r.pd = s.pd
    <3>1. CASE sys.policy = "GCA"
      <4>1. f = GcaVictim(s) /\ r = GcaScan(s) /\ f = Victim(s)
        BY <1>6, <3>1 DEF FrameFor, Victim
      <4>2. f \in Frames /\ s.iv[f].valid = "PAGE"
        BY <1>6, <3>1, <4>1, ScanEffect
      <4> HIDE DEF r, f
      <4> QED
        BY <1>6, <3>1, <4>1, <4>2, ScanUsable
    <3>2. CASE sys.policy = "FIFO"
      <4>1. f = Head(s.fifo) /\ r = s /\ f = Victim(s) /\ s.fifo # << >>
        BY <1>6, <3>2 DEF FrameFor, Victim, NoVictim
      <4>2. f \in Frames /\ Has(s.fifo, f)
        BY <1>2, <4>1, VmTyped, TailMembers DEF ListInv
      <4>3. SameMaps(s, s, A)
        BY DEF SameMaps
      <4> HIDE DEF r, f
      <4> QED
        BY <1>2, <4>1, <4>2, <4>3 DEF ListInv
    <3> QED
      BY <3>1, <3>2
  <2>2. t = Take(u, f, pid, vpn, purpose)
    BY <1>3, <1>6, <2>1 DEF get_free_frame, NONE
  <2>3. Spares(r, f, c)
    <3> SUFFICES ASSUME NEW q, NEW d, c = <<q, d>>, LastOf(r, f, q, d) PROVE FALSE
      BY DEF Spares
    <3> HIDE DEF r, f
    <3>1. q \in A
      BY <1>2, <2>1 DEF LastOf, OwnInv
    <3>2. Pages(r, q, d) = Pages(s, q, d)
      BY <2>1, <3>1, SamePages
    <3>3. LastOf(s, f, q, d)
      BY <2>1, <3>2 DEF LastOf
    <3> QED
      BY <1>6, <2>1, <3>3 DEF Spares
  <2> HIDE DEF r, f
  <2>4. r.iv[f].valid = "PAGE"
    BY <2>1
  <2>e. u \in VmType /\ Emptied(r, u, f, A, n, wr, c)
    BY <2>1, <2>3, <2>4, EvictUsable
  <2> HIDE DEF u, t
  <2>5. /\ u \in VmType /\ Usable(u, A, n, {f}, c) /\ (~u.panic => HeldInv(u, A, n, wr))
        /\ u.iv[f] = r.iv[f] /\ TabsKept(r, u, c)
        /\ \A q \in A : \A x \in Vpns : Present(u, q, x) => Present(r, q, x)
    BY <2>e DEF Emptied
  <2>6. u.iv[f].ref = 0
    BY <1>2, <2>1, <2>5 DEF OwnInv
  <2>7. t \in VmType /\ Taken(u, t, f, pid, vpn, purpose)
    BY <2>1, <2>2, <2>5, TakeEffect
  <2>8. t.panic = u.panic
    BY <2>7 DEF Taken, But, Fields
  <2>9. ~u.panic => Framed(u, t, f, A, n, wr, c, pid, vpn, purpose)
    BY <2>1, <2>2, <2>5, <2>6, TakeFrame
  <2>10. ASSUME Framed(u, t, f, A, n, wr, c, pid, vpn, purpose)
         PROVE  Framed(s, t, f, A, n, wr, c, pid, vpn, purpose)
    <3>1. TabsKept(s, t, c)
      BY <2>1, <2>5, <2>10 DEF TabsKept, Framed, Tab, HasTab
    <3>2. \A q \in A : \A x \in Vpns : Present(t, q, x) => Present(s, q, x)
      BY <2>1, <2>5, <2>10 DEF Framed, SameMaps
    <3> QED
      BY <2>10, <3>1, <3>2 DEF Framed
  <2> QED
    BY <1>1, <2>7, <2>8, <2>9, <2>10 DEF f, t
<1> QED
  BY <1>4, <1>5, <1>6

----------------------------------------------------------------------------
\* create_pagetable.  An empty table for directory entry d is what f becomes in t.
Tables(s, t, f, p, d) ==
    /\ But(s, t, {"pd"})
    /\ \A q \in Procs : \A e \in PdIdxs : <<q, e>> # <<p, d>> => t.pd[q][e] = s.pd[q][e]
    /\ HasTab(t, p, d) /\ Tab(t, p, d) = f

\* The assignment to the directory entry does this.
LEMMA TableEffect ==
  ASSUME NEW s \in VmType, NEW f \in Frames, NEW p \in Procs, NEW d \in PdIdxs, NEW t,
         t = [s EXCEPT !.pd[p][d] = [pres |-> TRUE, base |-> f]]
  PROVE  t \in VmType /\ Tables(s, t, f, p, d)
<1> DEFINE e == [pres |-> TRUE, base |-> f]
           x == [s.pd EXCEPT ![p][d] = e]
<1>1. e \in PdEntry /\ e.pres /\ e.base = f
  BY DEF PdEntry
<1>2. s.pd \in [Procs -> [PdIdxs -> PdEntry]]
  BY VmTyped
<1>3. t = [s EXCEPT !.pd = x]
  OBVIOUS
<1> HIDE DEF e
<1>4. /\ x \in [Procs -> [PdIdxs -> PdEntry]] /\ x[p][d] = e
      /\ \A q \in Procs : \A i \in PdIdxs : <<q, i>> # <<p, d>> => x[q][i] = s.pd[q][i]
  BY <1>1, <1>2
<1> HIDE DEF x
<1>5. t \in VmType /\ t.pd = x /\ But(s, t, {"pd"})
  BY <1>3, <1>4 DEF VmType, But, Fields
<1> QED
  BY <1>1, <1>4, <1>5 DEF Tables, HasTab, Tab

\* Nothing is mapped by it yet.
LEMMA TableMaps ==
  ASSUME NEW u \in VmType, NEW A \in SUBSET Procs, NEW n, NEW f \in Frames,
         NEW p \in A, NEW d \in PdIdxs, Given(u, A, n, f, << >>, p), ~HasTab(u, p, d),
         u.iv[f].valid = "PAGE_TAB", u.iv[f].pid = p, u.iv[f].ref = 0,
         \A k \in PtIdxs : ~u.pt[f][k].pres,
         NEW t, Tables(u, t, f, p, d)
  PROVE  /\ SameMaps(u, t, A) /\ Pages(t, p, d) = {}
         /\ Usable(t, A, n, {}, <<p, d>>)
<1>1. A \subseteq Procs /\ p \in Procs
  OBVIOUS
<1>2. /\ \A q \in Procs : \A e \in PdIdxs : <<q, e>> # <<p, d>> => t.pd[q][e] = u.pd[q][e]
      /\ HasTab(t, p, d) /\ Tab(t, p, d) = f
      /\ t.pt = u.pt /\ t.iv = u.iv /\ t.fifo = u.fifo
  BY DEF Tables, But, Fields
<1>3. ASSUME NEW x \in Vpns, PdIdx(x) = d PROVE ~Present(t, p, x) /\ ~Present(u, p, x)
  <2>1. PtIdx(x) \in PtIdxs
    BY PageNumbers
  <2>2. TabOf(t, p, x) = f
    BY <1>2, <1>3 DEF Tab, TabOf
  <2> QED
    BY <1>2, <1>3, <2>1, <2>2 DEF Present, Pte, HasTab
<1>4. ASSUME NEW q \in A, NEW x \in Vpns, <<q, PdIdx(x)>> # <<p, d>>
      PROVE  (Present(t, q, x) <=> Present(u, q, x)) /\ Base(t, q, x) = Base(u, q, x)
  <2>1. PdIdx(x) \in PdIdxs
    BY PageNumbers
  <2>2. t.pd[q][PdIdx(x)] = u.pd[q][PdIdx(x)]
    BY <1>1, <1>2, <1>4, <2>1
  <2> QED
    BY <1>2, <2>2 DEF Present, Base, Pte, TabOf
<1>5. SameMaps(u, t, A)
  <2> SUFFICES ASSUME NEW q \in A, NEW x \in Vpns
               PROVE  /\ Present(t, q, x) <=> Present(u, q, x)
                      /\ Present(u, q, x) => Base(t, q, x) = Base(u, q, x)
    BY DEF SameMaps
  <2>1. CASE <<q, PdIdx(x)>> = <<p, d>>
    <3>1. q = p /\ PdIdx(x) = d
      BY <2>1
    <3> QED
      BY <1>3, <3>1
  <2>2. CASE <<q, PdIdx(x)>> # <<p, d>>
    BY <1>4, <2>2
  <2> QED
    BY <2>1, <2>2
<1>6. Pages(t, p, d) = {}
  BY <1>3 DEF Pages
<1>7. /\ ListInv(u, {}) /\ OwnInv(u, A \cup {p}) /\ PageInv(u, {f})
      /\ MapInv(u, A, n, {f}) /\ TabInv(u, A, {f}, << >>)
  BY DEF Given
<1>8. ListInv(t, {}) /\ OwnInv(t, A)
  <2>1. A \cup {p} = A
    OBVIOUS
  <2> QED
    BY <1>2, <1>7, <2>1 DEF ListInv, OwnInv
<1>9. PageInv(t, {})
  <2> SUFFICES ASSUME NEW g \in Frames, t.iv[g].valid = "PAGE"
               PROVE  /\ Present(t, t.iv[g].pid, t.iv[g].vpn)
                      /\ Base(t, t.iv[g].pid, t.iv[g].vpn) = g
    BY DEF PageInv
  <2> DEFINE q == u.iv[g].pid
             v == u.iv[g].vpn
  <2>1. t.iv[g] = u.iv[g] /\ g # f
    BY <1>2
  <2>2. q \in A /\ Present(u, q, v) /\ Base(u, q, v) = g
    BY <1>2, <1>7, <2>1 DEF OwnInv, PageInv
  <2>3. v \in Vpns
    <3>1. u.iv[g] \in IvEntry
      BY EntriesTyped
    <3>2. 0 \in Vpns
      BY PagingAssumption DEF Vpns
    <3> QED
      BY <3>1, <3>2 DEF IvEntry
  <2> QED
    BY <1>5, <2>1, <2>2, <2>3 DEF SameMaps
<1>10. MapInv(t, A, n, {})
  <2> SUFFICES ASSUME NEW q \in A, NEW x \in Vpns, Present(t, q, x)
               PROVE  /\ x < n[q]
                      /\ Base(t, q, x) \in Frames
                      /\ t.iv[Base(t, q, x)].valid = "PAGE"
                      /\ t.iv[Base(t, q, x)].pid = q
                      /\ t.iv[Base(t, q, x)].vpn = x
    BY DEF MapInv
  <2>1. Present(u, q, x) /\ Base(t, q, x) = Base(u, q, x)
    BY <1>5 DEF SameMaps
  <2> QED
    BY <1>2, <1>7, <2>1 DEF MapInv
<1>11. TabInv(t, A, {}, <<p, d>>)
  <2> SUFFICES ASSUME NEW q \in A, NEW e \in PdIdxs, HasTab(t, q, e)
               PROVE  /\ Tab(t, q, e) \in Frames
                      /\ t.iv[Tab(t, q, e)].valid = "PAGE_TAB"
                      /\ t.iv[Tab(t, q, e)].pid = q
                      /\ t.iv[Tab(t, q, e)].ref = Cardinality(Pages(t, q, e))
                      /\ <<q, e>> = <<p, d>> \/ Pages(t, q, e) # {}
                      /\ \A y \in PdIdxs : HasTab(t, q, y) /\ Tab(t, q, y) = Tab(t, q, e)
                                           => y = e
    BY DEF TabInv
  <2>1. ASSUME NEW a \in A, NEW i \in PdIdxs, <<a, i>> # <<p, d>>
        PROVE  HasTab(t, a, i) = HasTab(u, a, i) /\ Tab(t, a, i) = Tab(u, a, i)
    BY <1>1, <1>2, <2>1 DEF HasTab, Tab
  <2>2. ASSUME NEW a \in A, NEW i \in PdIdxs, <<a, i>> # <<p, d>>, HasTab(t, a, i)
        PROVE  /\ Tab(t, a, i) \in Frames \ {f}
               /\ u.iv[Tab(t, a, i)].valid = "PAGE_TAB"
               /\ u.iv[Tab(t, a, i)].pid = a
               /\ u.iv[Tab(t, a, i)].ref = Cardinality(Pages(u, a, i))
               /\ Pages(u, a, i) # {}
               /\ \A y \in PdIdxs : HasTab(u, a, y) /\ Tab(u, a, y) = Tab(u, a, i) => y = i
    <3>1. HasTab(u, a, i) /\ Tab(t, a, i) = Tab(u, a, i)
      BY <2>1, <2>2
    <3>2. <<a, i>> # << >>
      OBVIOUS
    <3> QED
      BY <1>7, <3>1, <3>2 DEF TabInv
  <2>3. CASE <<q, e>> = <<p, d>>
    <3>1. q = p /\ e = d
      BY <2>3
    <3>2. Tab(t, q, e) = f /\ Pages(t, q, e) = {}
      BY <1>2, <1>6, <3>1
    <3>3. Cardinality({}) = 0
      BY FS_EmptySet
    <3>4. \A y \in PdIdxs : HasTab(t, q, y) /\ Tab(t, q, y) = Tab(t, q, e) => y = e
      BY <2>2, <3>1, <3>2
    <3> QED
      BY <1>2, <2>3, <3>1, <3>2, <3>3, <3>4
  <2>4. CASE <<q, e>> # <<p, d>>
    <3>1. Pages(t, q, e) = Pages(u, q, e)
      BY <1>5, SamePages
    <3>2. \A y \in PdIdxs : HasTab(t, q, y) /\ Tab(t, q, y) = Tab(t, q, e) => y = e
      <4> SUFFICES ASSUME NEW y \in PdIdxs, HasTab(t, q, y), Tab(t, q, y) = Tab(t, q, e)
                   PROVE  y = e
        OBVIOUS
      <4>1. <<q, y>> # <<p, d>>
        BY <1>2, <2>2, <2>4
      <4> QED
        BY <2>1, <2>2, <2>4, <4>1
    <3> QED
      BY <1>2, <2>2, <2>4, <3>1, <3>2
  <2> QED
    BY <2>3, <2>4
<1> QED
  BY <1>5, <1>6, <1>8, <1>9, <1>10, <1>11 DEF Usable, MapsInv

\* The page table for directory entry d of p is there.
Tabled(s, t, A, n, wr, p, d) ==
    /\ Usable(t, A, n, {}, <<p, d>>)
    /\ HeldInv(t, A, n, wr) /\ StoreInv(t, A, n)
    /\ HasTab(t, p, d)
    /\ \A q \in A : \A x \in Vpns : Present(t, q, x) => Present(s, q, x)

\* create_pagetable adds an empty table; everything else agrees and nothing is lost.
LEMMA TableMade ==
  ASSUME NEW s \in VmType, NEW A \in SUBSET Procs, NEW n \in [Procs -> Nat],
         \A q \in A : n[q] <= MaxHeapSize, Usable(s, A, n, {}, << >>),
         StoreInv(s, A, n), NEW wr, HeldInv(s, A, n, wr), sys.policy \in {"FIFO", "GCA"},
         NEW p \in A, NEW d \in PdIdxs, ~HasTab(s, p, d)
  PROVE  LET t == create_pagetable(s, p, d) IN
         /\ t \in VmType
         /\ ~t.panic => Tabled(s, t, A, n, wr, p, d) /\ Pages(t, p, d) = {}
<1> DEFINE f == FrameFor(s)
           u == get_free_frame(s, p, 0, "PAGE_TAB")
           t == [u EXCEPT !.pd[p][d] = [pres |-> TRUE, base |-> f]]
<1>1. p \in Procs /\ 0 \in Vpns /\ "PAGE_TAB" \in Purposes
  BY PagingAssumption DEF Vpns, Purposes
<1>2. Spares(s, Victim(s), << >>)
  BY DEF Spares
<1>3. /\ u \in VmType
      /\ ~u.panic => /\ Framed(s, u, f, A, n, wr, << >>, p, 0, "PAGE_TAB")
                     /\ StoreInv(u, A, n)
  BY <1>1, <1>2, FrameFound
<1>4. create_pagetable(s, p, d) = IF u.panic THEN u ELSE t
  BY DEF create_pagetable
<1> HIDE DEF u, f
<1>5. CASE u.panic
  BY <1>3, <1>4, <1>5
<1>6. CASE ~u.panic
  <2>1. /\ f \in Frames /\ Given(u, A, n, f, << >>, p) /\ HeldInv(u, A, n, wr)
        /\ u.iv[f].valid = "PAGE_TAB" /\ u.iv[f].pid = p /\ u.iv[f].ref = 0
        /\ \A k \in PtIdxs : ~u.pt[f][k].pres
        /\ TabsKept(s, u, << >>)
        /\ \A q \in A : \A x \in Vpns : Present(u, q, x) => Present(s, q, x)
    BY <1>3, <1>6 DEF Framed
  <2>2. ~HasTab(u, p, d)
    BY <1>1, <2>1 DEF TabsKept
  <2>3. t \in VmType /\ Tables(u, t, f, p, d)
    BY <1>1, <1>3, <2>1, TableEffect
  <2> HIDE DEF t
  <2>4. SameMaps(u, t, A) /\ Pages(t, p, d) = {} /\ Usable(t, A, n, {}, <<p, d>>)
    BY <1>3, <2>1, <2>2, <2>3, TableMaps
  <2>5. t.disk = u.disk /\ t.bsmap = u.bsmap /\ t.mem = u.mem /\ t.bstab = u.bstab
        /\ HasTab(t, p, d)
    BY <2>3 DEF Tables, But, Fields
  <2>6. HeldInv(t, A, n, wr)
    <3>1. \A q \in A : n[q] \in Nat /\ n[q] <= MaxHeapSize
      OBVIOUS
    <3> QED
      BY <2>1, <2>4, <2>5, <3>1, HeldKept
  <2>7. StoreInv(t, A, n)
    <3>1. Kept(u, t)
      BY <2>3, <2>5 DEF Kept, StoreFields, VmType
    <3> QED
      BY <1>3, <1>6, <3>1, StoreInvKept
  <2>8. \A q \in A : \A x \in Vpns : Present(t, q, x) => Present(s, q, x)
    BY <2>1, <2>4 DEF SameMaps
  <2> QED
    BY <1>4, <1>6, <2>3, <2>4, <2>5, <2>6, <2>7, <2>8 DEF Tabled
<1> QED
  BY <1>5, <1>6

----------------------------------------------------------------------------
\* The last part of myPageFault.  Entry k of table tab is set to frame f and counted.
Enters(s, t, tab, k, f) ==
    /\ But(s, t, {"pt", "iv", "hooks"})
    /\ \A g \in Frames : \A j \in PtIdxs : <<g, j>> # <<tab, k>> => t.pt[g][j] = s.pt[g][j]
    /\ t.pt[tab][k].pres /\ t.pt[tab][k].base = f
    /\ \A g \in Frames : g # tab => t.iv[g] = s.iv[g]
    /\ t.iv[tab].valid = s.iv[tab].valid /\ t.iv[tab].pid = s.iv[tab].pid
    /\ t.iv[tab].ref = s.iv[tab].ref + 1

\* The three assignments at the end of myPageFault do this.
LEMMA EnterEffect ==
  ASSUME NEW s \in VmType, NEW tab \in Frames, NEW k \in PtIdxs, NEW f \in Frames,
         NEW h \in Seq(Procs \X Vpns), NEW t,
         t = [s EXCEPT !.pt[tab][k] = [pres |-> TRUE, base |-> f, use |-> 0],
                       !.iv[tab].ref = @ + 1,
                       !.hooks = h]
  PROVE  t \in VmType /\ Enters(s, t, tab, k, f)
<1> DEFINE e == [pres |-> TRUE, base |-> f, use |-> 0]
           x == [s.pt EXCEPT ![tab][k] = e]
           i == [s.iv[tab] EXCEPT !.ref = @ + 1]
           y == [s.iv EXCEPT ![tab] = i]
<1>1. e \in PtEntry /\ e.pres /\ e.base = f
  BY DEF PtEntry
<1>2. s.pt \in [Frames -> [PtIdxs -> PtEntry]] /\ s.iv \in [Frames -> IvEntry]
  BY VmTyped
<1>3. t = [s EXCEPT !.pt = x, !.iv = y, !.hooks = h]
  BY DEF VmType
<1> HIDE DEF e
<1>4. /\ x \in [Frames -> [PtIdxs -> PtEntry]] /\ x[tab][k] = e
      /\ \A g \in Frames : \A j \in PtIdxs : <<g, j>> # <<tab, k>> => x[g][j] = s.pt[g][j]
  BY <1>1, <1>2
<1>5. i \in IvEntry /\ i.ref = s.iv[tab].ref + 1 /\ i.valid = s.iv[tab].valid
      /\ i.pid = s.iv[tab].pid
  <2>1. s.iv[tab] \in IvEntry
    BY <1>2
  <2> QED
    BY <2>1 DEF IvEntry
<1> HIDE DEF x, i
<1>6. y \in [Frames -> IvEntry] /\ y[tab] = i /\ \A g \in Frames : g # tab => y[g] = s.iv[g]
  BY <1>2, <1>5
<1> HIDE DEF y
<1>7. t \in VmType /\ t.pt = x /\ t.iv = y /\ But(s, t, {"pt", "iv", "hooks"})
  BY <1>3, <1>4, <1>6, ZenonT(60) DEF VmType, PtIdxs, But, Fields
<1> QED
  BY <1>1, <1>4, <1>5, <1>6, <1>7 DEF Enters

\* Only page v of p is mapped where it was not.
PlusPage(s, u, A, p, v, f) ==
    /\ Present(u, p, v) /\ Base(u, p, v) = f
    /\ \A q \in A : \A x \in Vpns : <<q, x>> # <<p, v>> =>
          /\ Present(u, q, x) <=> Present(s, q, x)
          /\ Present(s, q, x) => Base(u, q, x) = Base(s, q, x)

\* The page is mapped to f, and no other page is moved.
LEMMA EnterPages ==
  ASSUME NEW s, NEW A, NEW n, NEW f, NEW p \in A, NEW v \in Vpns,
         TabInv(s, A, {f}, <<p, PdIdx(v)>>), HasTab(s, p, PdIdx(v)),
         NEW t, Enters(s, t, Tab(s, p, PdIdx(v)), PtIdx(v), f)
  PROVE  PlusPage(s, t, A, p, v, f)
<1> DEFINE d == PdIdx(v)
           k == PtIdx(v)
           g == Tab(s, p, d)
<1>1. d \in PdIdxs /\ k \in PtIdxs
  BY PageNumbers
<1>2. /\ g \in Frames /\ s.iv[g].pid = p
      /\ \A e \in PdIdxs : HasTab(s, p, e) /\ Tab(s, p, e) = g => e = d
  BY <1>1 DEF TabInv
<1>3. /\ \A h \in Frames : \A j \in PtIdxs : <<h, j>> # <<g, k>> => t.pt[h][j] = s.pt[h][j]
      /\ t.pt[g][k].pres /\ t.pt[g][k].base = f /\ t.pd = s.pd
  BY DEF Enters, But, Fields
<1>4. Present(t, p, v) /\ Base(t, p, v) = f
  BY <1>3 DEF Present, Base, Pte, TabOf, Tab, HasTab
<1>5. ASSUME NEW q \in A, NEW x \in Vpns, <<q, x>> # <<p, v>>
      PROVE  /\ Present(t, q, x) <=> Present(s, q, x)
             /\ Present(s, q, x) => Base(t, q, x) = Base(s, q, x)
  <2> DEFINE e == PdIdx(x)
             j == PtIdx(x)
             h == Tab(s, q, e)
  <2>1. e \in PdIdxs /\ j \in PtIdxs
    BY PageNumbers
  <2>2. CASE ~HasTab(s, q, e)
    BY <1>3, <2>2 DEF Present, HasTab
  <2>3. CASE HasTab(s, q, e)
    <3>1. h \in Frames /\ s.iv[h].pid = q
      BY <2>1, <2>3 DEF TabInv
    <3>2. <<h, j>> # <<g, k>>
      <4> SUFFICES ASSUME h = g, j = k PROVE FALSE
        OBVIOUS
      <4>1. q = p /\ e = d
        BY <1>2, <2>1, <2>3, <3>1
      <4>2. x = v
        BY <4>1, PageNumbers
      <4> QED
        BY <1>5, <4>1, <4>2
    <3>3. t.pt[h][j] = s.pt[h][j]
      BY <1>3, <2>1, <3>1, <3>2
    <3> QED
      BY <1>3, <3>3 DEF Present, Base, Pte, TabOf, Tab, HasTab
  <2> QED
    BY <2>2, <2>3
<1> QED
  BY <1>4, <1>5 DEF PlusPage

\* All frames are accounted for again.
LEMMA EnterMaps ==
  ASSUME NEW s \in VmType, NEW A \in SUBSET Procs, NEW n, NEW f \in Frames,
         NEW p \in A, NEW v \in Vpns, v < n[p], Given(s, A, n, f, <<p, PdIdx(v)>>, p),
         s.iv[f].valid = "PAGE", s.iv[f].pid = p, s.iv[f].vpn = v, s.iv[f].ref = 0,
         HasTab(s, p, PdIdx(v)), ~Present(s, p, v),
         NEW t, Enters(s, t, Tab(s, p, PdIdx(v)), PtIdx(v), f)
  PROVE  PlusPage(s, t, A, p, v, f) /\ ListInv(t, {}) /\ MapsInv(t, A, n, {}, << >>)
<1> DEFINE d == PdIdx(v)
           g == Tab(s, p, d)
<1>1. d \in PdIdxs /\ A \cup {p} = A
  BY PageNumbers
<1>2. /\ ListInv(s, {}) /\ OwnInv(s, A) /\ PageInv(s, {f})
      /\ MapInv(s, A, n, {f}) /\ TabInv(s, A, {f}, <<p, d>>)
  BY <1>1 DEF Given
<1>3. PlusPage(s, t, A, p, v, f)
  BY <1>2, EnterPages
<1>4. /\ g \in Frames \ {f} /\ s.iv[g].valid = "PAGE_TAB" /\ s.iv[g].pid = p
      /\ s.iv[g].ref = Cardinality(Pages(s, p, d))
      /\ \A e \in PdIdxs : HasTab(s, p, e) /\ Tab(s, p, e) = g => e = d
  BY <1>1, <1>2 DEF TabInv
<1>5. /\ \A h \in Frames : h # g => t.iv[h] = s.iv[h]
      /\ t.iv[g].valid = s.iv[g].valid /\ t.iv[g].pid = s.iv[g].pid
      /\ t.iv[g].ref = s.iv[g].ref + 1 /\ t.fifo = s.fifo /\ t.pd = s.pd
  BY DEF Enters, But, Fields
<1>6. /\ Present(t, p, v) /\ Base(t, p, v) = f
      /\ \A q \in A : \A x \in Vpns : <<q, x>> # <<p, v>> =>
            /\ Present(t, q, x) <=> Present(s, q, x)
            /\ Present(s, q, x) => Base(t, q, x) = Base(s, q, x)
  BY <1>3 DEF PlusPage
<1> HIDE DEF g
<1>7. ListInv(t, {}) /\ OwnInv(t, A)
  BY <1>2, <1>4, <1>5 DEF ListInv, OwnInv
<1>8. PageInv(t, {})
  <2> SUFFICES ASSUME NEW h \in Frames, t.iv[h].valid = "PAGE"
               PROVE  /\ Present(t, t.iv[h].pid, t.iv[h].vpn)
                      /\ Base(t, t.iv[h].pid, t.iv[h].vpn) = h
    BY DEF PageInv
  <2> DEFINE q == s.iv[h].pid
             x == s.iv[h].vpn
  <2>1. t.iv[h] = s.iv[h]
    BY <1>4, <1>5
  <2>2. CASE h = f
    BY <1>6, <2>1, <2>2
  <2>3. CASE h # f
    <3>1. q \in A /\ Present(s, q, x) /\ Base(s, q, x) = h
      BY <1>2, <2>1, <2>3 DEF OwnInv, PageInv
    <3>2. x \in Vpns
      <4>1. s.iv[h] \in IvEntry
        BY EntriesTyped
      <4>2. 0 \in Vpns
        BY PagingAssumption DEF Vpns
      <4> QED
        BY <4>1, <4>2 DEF IvEntry
    <3>3. <<q, x>> # <<p, v>>
      BY <3>1
    <3> QED
      BY <1>6, <2>1, <3>1, <3>2, <3>3
  <2> QED
    BY <2>2, <2>3
<1>9. MapInv(t, A, n, {})
  <2> SUFFICES ASSUME NEW q \in A, NEW x \in Vpns, Present(t, q, x)
               PROVE  /\ x < n[q]
                      /\ Base(t, q, x) \in Frames
                      /\ t.iv[Base(t, q, x)].valid = "PAGE"
                      /\ t.iv[Base(t, q, x)].pid = q
                      /\ t.iv[Base(t, q, x)].vpn = x
    BY DEF MapInv
  <2>1. CASE <<q, x>> = <<p, v>>
    <3>1. q = p /\ x = v
      BY <2>1
    <3> QED
      BY <1>4, <1>5, <1>6, <3>1
  <2>2. CASE <<q, x>> # <<p, v>>
    <3>1. Present(s, q, x) /\ Base(t, q, x) = Base(s, q, x)
      BY <1>6, <2>2
    <3>2. /\ x < n[q] /\ Base(s, q, x) \in Frames
          /\ s.iv[Base(s, q, x)].valid = "PAGE" /\ s.iv[Base(s, q, x)].pid = q
          /\ s.iv[Base(s, q, x)].vpn = x
      BY <1>2, <3>1 DEF MapInv
    <3> QED
      BY <1>4, <1>5, <3>1, <3>2
  <2> QED
    BY <2>1, <2>2
<1>10. TabInv(t, A, {}, << >>)
  <2>1. \A q, e : HasTab(t, q, e) = HasTab(s, q, e) /\ Tab(t, q, e) = Tab(s, q, e)
    BY <1>5 DEF HasTab, Tab
  <2> SUFFICES ASSUME NEW q \in A, NEW e \in PdIdxs, HasTab(s, q, e)
               PROVE  /\ Tab(s, q, e) \in Frames
                      /\ t.iv[Tab(s, q, e)].valid = "PAGE_TAB"
                      /\ t.iv[Tab(s, q, e)].pid = q
                      /\ t.iv[Tab(s, q, e)].ref = Cardinality(Pages(t, q, e))
                      /\ Pages(t, q, e) # {}
                      /\ \A y \in PdIdxs : HasTab(s, q, y) /\ Tab(s, q, y) = Tab(s, q, e)
                                           => y = e
    BY <2>1 DEF TabInv
  <2>2. /\ Tab(s, q, e) \in Frames
        /\ s.iv[Tab(s, q, e)].valid = "PAGE_TAB"
        /\ s.iv[Tab(s, q, e)].pid = q
        /\ s.iv[Tab(s, q, e)].ref = Cardinality(Pages(s, q, e))
        /\ <<q, e>> = <<p, d>> \/ Pages(s, q, e) # {}
        /\ \A y \in PdIdxs : HasTab(s, q, y) /\ Tab(s, q, y) = Tab(s, q, e) => y = e
    BY <1>2 DEF TabInv
  <2>3. CASE <<q, e>> = <<p, d>>
    <3>1. q = p /\ e = d /\ Tab(s, q, e) = g
      BY <2>3 DEF g
    <3>2. Pages(t, p, d) = Pages(s, p, d) \cup {v} /\ v \notin Pages(s, p, d)
      <4>1. v \in Pages(t, p, d) /\ v \notin Pages(s, p, d)
        BY <1>6 DEF Pages
      <4>2. \A x : x # v => (x \in Pages(t, p, d) <=> x \in Pages(s, p, d))
        BY <1>6 DEF Pages
      <4> QED
        BY <4>1, <4>2
    <3>3. IsFiniteSet(Pages(s, p, d))
      BY PagesFinite
    <3>4. Cardinality(Pages(t, p, d)) = Cardinality(Pages(s, p, d)) + 1
      <4> DEFINE S == Pages(s, p, d)
      <4>1. IsFiniteSet(S) /\ v \notin S
        BY <3>2, <3>3
      <4> HIDE DEF S
      <4>2. Cardinality(S \cup {v}) = Cardinality(S) + 1
        BY <4>1, FS_AddElement
      <4> QED
        BY <3>2, <4>2 DEF S
    <3> QED
      BY <1>4, <1>5, <2>2, <3>1, <3>2, <3>4
  <2>4. CASE <<q, e>> # <<p, d>>
    <3>1. Pages(t, q, e) = Pages(s, q, e)
      <4>1. \A x \in Vpns : PdIdx(x) = e => <<q, x>> # <<p, v>>
        BY <2>4
      <4> QED
        BY <1>6, <4>1 DEF Pages
    <3>2. Tab(s, q, e) # g
      BY <1>4, <2>2, <2>4
    <3> QED
      BY <1>5, <2>2, <2>4, <3>1, <3>2
  <2> QED
    BY <2>3, <2>4
<1> QED
  BY <1>3, <1>7, <1>8, <1>9, <1>10 DEF MapsInv

\* The page comes back as it went.
LEMMA EnterHeld ==
  ASSUME NEW s, NEW A, NEW n, NEW f, NEW wr, HeldInv(s, A, n, wr), MapInv(s, A, n, {f}),
         \A q \in A : n[q] \in Nat /\ n[q] <= MaxHeapSize,
         NEW p \in A, NEW v \in Vpns, ~Present(s, p, v),
         NEW t, PlusPage(s, t, A, p, v, f), t.disk = s.disk, t.bsmap = s.bsmap,
         t.mem[f] = s.disk[Place(s, p, v)],
         \A g \in Frames \ {f} : t.mem[g] = s.mem[g]
  PROVE  HeldInv(t, A, n, wr)
<1> SUFFICES ASSUME NEW q \in A, NEW x \in 0..(n[q] - 1), wr[q][x] # NONE
             PROVE  IF Present(t, q, x) THEN t.mem[Base(t, q, x)] = wr[q][x]
                    ELSE OnDisk(Place(t, q, x)) /\ t.disk[Place(t, q, x)] = wr[q][x]
  BY DEF HeldInv
<1>1. x \in Vpns
  <2>1. n[q] \in Nat /\ n[q] <= MaxHeapSize /\ MaxHeapSize \in Nat
    BY PagingAssumption
  <2> QED
    BY <2>1 DEF Vpns
<1>2. Place(t, q, x) = Place(s, q, x)
  BY PlaceSame
<1>3. IF Present(s, q, x) THEN s.mem[Base(s, q, x)] = wr[q][x]
      ELSE OnDisk(Place(s, q, x)) /\ s.disk[Place(s, q, x)] = wr[q][x]
  BY DEF HeldInv
<1>4. CASE <<q, x>> = <<p, v>>
  <2>1. q = p /\ x = v
    BY <1>4
  <2> QED
    BY <1>3, <2>1 DEF PlusPage
<1>5. CASE <<q, x>> # <<p, v>>
  <2>1. /\ Present(t, q, x) <=> Present(s, q, x)
        /\ Present(s, q, x) => Base(t, q, x) = Base(s, q, x)
    BY <1>1, <1>5 DEF PlusPage
  <2>2. Present(s, q, x) => Base(s, q, x) \in Frames \ {f}
    BY <1>1 DEF MapInv
  <2> QED
    BY <1>2, <1>3, <2>1, <2>2
<1> QED
  BY <1>4, <1>5

\* Before a frame is obtained for the page, its page table is there, and the page that
\* goes is not the last one of that table.
LEMMA TableReady ==
  ASSUME NEW s \in VmType, NEW A \in SUBSET Procs, NEW n \in [Procs -> Nat],
         \A q \in A : n[q] <= MaxHeapSize, NEW wr, SoundInv(s, A, n, wr),
         StoreInv(s, A, n), sys.policy \in {"FIFO", "GCA"},
         NEW p \in A, NEW v \in Vpns, NEW d, d = PdIdx(v), NEW c, c = <<p, d>>,
         HasTab(s, p, d) /\ FreeFrames(s) = {} /\ ~NoVictim(s) =>
             ~LastOf(s, Victim(s), p, d),
         NEW s1, s1 = IF HasTab(s, p, d) THEN s ELSE create_pagetable(s, p, d)
  PROVE  /\ s1 \in VmType
         /\ ~s1.panic => Tabled(s, s1, A, n, wr, p, d)
         /\ ~s1.panic /\ FreeFrames(s1) = {} /\ ~NoVictim(s1) => Spares(s1, Victim(s1), c)
<1>0. d \in PdIdxs /\ p \in Procs
  BY PageNumbers
<1>1. CASE HasTab(s, p, d)
  <2>1. s1 = s
    BY <1>1
  <2>2. Usable(s, A, n, {}, c) /\ HeldInv(s, A, n, wr)
    <3>1. ListInv(s, {}) /\ OwnInv(s, A) /\ PageInv(s, {}) /\ MapInv(s, A, n, {})
          /\ TabInv(s, A, {}, << >>) /\ HeldInv(s, A, n, wr)
      BY DEF SoundInv, MapsInv
    <3>2. TabInv(s, A, {}, c)
      <4>1. \A q, e : <<q, e>> # << >>
        OBVIOUS
      <4> QED
        BY <3>1, <4>1 DEF TabInv
    <3> QED
      BY <3>1, <3>2 DEF Usable, MapsInv
  <2>3. Tabled(s, s, A, n, wr, p, d)
    BY <1>1, <2>2 DEF Tabled
  <2>4. FreeFrames(s) = {} /\ ~NoVictim(s) => Spares(s, Victim(s), c)
    <3> SUFFICES ASSUME FreeFrames(s) = {}, ~NoVictim(s), NEW q, NEW e, c = <<q, e>>
                 PROVE  ~LastOf(s, Victim(s), q, e)
      BY DEF Spares
    <3>1. q = p /\ e = d
      OBVIOUS
    <3> QED
      BY <1>1, <3>1
  <2> QED
    BY <2>1, <2>3, <2>4
<1>2. CASE ~HasTab(s, p, d)
  <2>1. s1 = create_pagetable(s, p, d)
    BY <1>2
  <2>2. Usable(s, A, n, {}, << >>) /\ HeldInv(s, A, n, wr)
    BY DEF SoundInv, Usable
  <2>3. s1 \in VmType /\ (~s1.panic => Tabled(s, s1, A, n, wr, p, d) /\ Pages(s1, p, d) = {})
    <3> DEFINE x == create_pagetable(s, p, d)
    <3>1. x \in VmType /\ (~x.panic => Tabled(s, x, A, n, wr, p, d) /\ Pages(x, p, d) = {})
      BY <1>0, <1>2, <2>2, TableMade
    <3> HIDE DEF x
    <3> QED
      BY <2>1, <3>1 DEF x
  <2>4. ~s1.panic => \A e : ~LastOf(s1, e, p, d) \/ e \notin Frames
                             \/ s1.iv[e].valid # "PAGE"
    <3> SUFFICES ASSUME ~s1.panic, NEW e \in Frames, s1.iv[e].valid = "PAGE",
                        LastOf(s1, e, p, d)
                 PROVE  FALSE
      OBVIOUS
    <3>1. MapsInv(s1, A, n, {}, c) /\ Pages(s1, p, d) = {}
      BY <2>3 DEF Tabled, Usable
    <3>2. s1.iv[e].pid = p /\ PdIdx(s1.iv[e].vpn) = d
      BY DEF LastOf
    <3>3. s1.iv[e].vpn \in Pages(s1, p, d)
      BY <2>3, <3>1, <3>2, PageOfFrame
    <3> QED
      BY <3>1, <3>3
  <2>5. ~s1.panic /\ ~NoVictim(s1) => Victim(s1) \in Frames /\ s1.iv[Victim(s1)].valid = "PAGE"
    <3> SUFFICES ASSUME ~s1.panic, ~NoVictim(s1)
                 PROVE  Victim(s1) \in Frames /\ s1.iv[Victim(s1)].valid = "PAGE"
      OBVIOUS
    <3>1. Usable(s1, A, n, {}, c)
      BY <2>3 DEF Tabled
    <3>2. CASE sys.policy = "GCA"
      BY <2>3, <3>1, <3>2, ScanEffect DEF Victim
    <3>3. CASE sys.policy = "FIFO"
      <4>1. s1.fifo # << >> /\ Victim(s1) = Head(s1.fifo)
        BY <3>3 DEF NoVictim, Victim
      <4>2. s1.fifo \in Seq(Frames) /\ Distinct(s1.fifo)
        BY <2>3, <3>1, VmTyped DEF Usable, ListInv
      <4>3. Victim(s1) \in Frames /\ Has(s1.fifo, Victim(s1))
        BY <4>1, <4>2, TailMembers
      <4> QED
        BY <3>1, <4>3 DEF Usable, ListInv
    <3> QED
      BY <3>2, <3>3
  <2>6. ~s1.panic /\ ~NoVictim(s1) => Spares(s1, Victim(s1), c)
    <3> SUFFICES ASSUME ~s1.panic, ~NoVictim(s1), NEW q, NEW e, c = <<q, e>>
                 PROVE  ~LastOf(s1, Victim(s1), q, e)
      BY DEF Spares
    <3>1. q = p /\ e = d
      OBVIOUS
    <3> QED
      BY <2>4, <2>5, <3>1
  <2> QED
    BY <2>3, <2>6
<1> QED
  BY <1>1, <1>2

\* myPageFault: if the page is not there, it is afterwards, unless the system stops.
LEMMA FaultServed ==
  ASSUME NEW s \in VmType, NEW A \in SUBSET Procs, NEW n \in [Procs -> Nat],
         \A q \in A : n[q] <= MaxHeapSize, NEW wr, SoundInv(s, A, n, wr),
         StoreInv(s, A, n), sys.policy \in {"FIFO", "GCA"},
         NEW p \in A, NEW v \in 0..(n[p] - 1), ~Present(s, p, v),
         HasTab(s, p, PdIdx(v)) /\ FreeFrames(s) = {} /\ ~NoVictim(s) =>
             ~LastOf(s, Victim(s), p, PdIdx(v))
  PROVE  LET t == ServeFault(s, p, v) IN
         t \in VmType /\ (~t.panic => SoundInv(t, A, n, wr))
<1> DEFINE d == PdIdx(v)
           k == PtIdx(v)
           c == <<p, d>>
           s1 == IF HasTab(s, p, d) THEN s ELSE create_pagetable(s, p, d)
           tab == Tab(s1, p, d)
           f == FrameFor(s1)
           s2 == get_free_frame(s1, p, v, "PAGE")
           s3 == read_bs(s2, p, v, f)
           h == hook_pfault(s3.hooks, p, v)
           t == [s3 EXCEPT !.pt[tab][k] = [pres |-> TRUE, base |-> f, use |-> 0],
                           !.iv[Tab(s3, p, d)].ref = @ + 1,
                           !.hooks = h]
<1>1. /\ p \in Procs /\ v \in Vpns /\ d \in PdIdxs /\ k \in PtIdxs /\ "PAGE" \in Purposes
      /\ v < n[p] /\ n[p] \in Nat
  <2>1. n[p] \in Nat /\ n[p] <= MaxHeapSize /\ MaxHeapSize \in Nat /\ p \in Procs
    BY PagingAssumption
  <2>2. v \in Vpns /\ v < n[p]
    BY <2>1 DEF Vpns
  <2> QED
    BY <2>1, <2>2, PageNumbers DEF Purposes
<1>2. ServeFault(s, p, v) = IF s1.panic THEN s1 ELSE IF s2.panic THEN s2
                            ELSE IF s3.panic THEN s3 ELSE t
  BY DEF ServeFault, HasTab, Tab
<1>3. /\ s1 \in VmType
      /\ ~s1.panic => Tabled(s, s1, A, n, wr, p, d)
      /\ ~s1.panic /\ FreeFrames(s1) = {} /\ ~NoVictim(s1) => Spares(s1, Victim(s1), c)
  <2> HIDE DEF s1, d, c
  <2>1. d = PdIdx(v) /\ c = <<p, d>>
        /\ s1 = IF HasTab(s, p, d) THEN s ELSE create_pagetable(s, p, d)
    BY DEF s1, d, c
  <2> QED
    BY <1>1, <2>1, TableReady
<1> HIDE DEF s1
<1>4. CASE s1.panic
  BY <1>2, <1>3, <1>4
<1>5. CASE ~s1.panic
  <2>1. /\ Usable(s1, A, n, {}, c) /\ HeldInv(s1, A, n, wr) /\ StoreInv(s1, A, n)
        /\ HasTab(s1, p, d) /\ ~Present(s1, p, v)
    BY <1>1, <1>3, <1>5 DEF Tabled
  <2>2. /\ s2 \in VmType
        /\ ~s2.panic => Framed(s1, s2, f, A, n, wr, c, p, v, "PAGE") /\ StoreInv(s2, A, n)
    <3> HIDE DEF c
    <3> QED
      BY <1>1, <1>3, <1>5, <2>1, FrameFound
  <2> HIDE DEF s2, f
  <2>3. CASE s2.panic
    BY <1>2, <1>5, <2>2, <2>3
  <2>4. CASE ~s2.panic
    <3>1. /\ f \in Frames /\ Given(s2, A, n, f, c, p) /\ HeldInv(s2, A, n, wr)
          /\ s2.iv[f].valid = "PAGE" /\ s2.iv[f].pid = p /\ s2.iv[f].vpn = v
          /\ s2.iv[f].ref = 0 /\ TabsKept(s1, s2, c) /\ ~Present(s2, p, v)
      BY <1>1, <2>1, <2>2, <2>4 DEF Framed
    <3>2. HasTab(s2, p, d) /\ Tab(s2, p, d) = tab
      BY <1>1, <2>1, <3>1 DEF TabsKept
    <3>3. /\ s3 \in VmType /\ But(s2, s3, {"mem", "panic"})
          /\ ~s3.panic => /\ HasPlace(s2, p, v)
                          /\ s3.mem = [s2.mem EXCEPT ![f] = s2.disk[Place(s2, p, v)]]
      <4>1. s3 \in VmType /\ Fetched(s2, s3, p, v, f)
        BY <1>1, <2>2, <3>1, ReadTyped
      <4> QED
        BY <4>1 DEF Fetched
    <3> HIDE DEF s3
    <3>4. CASE s3.panic
      BY <1>2, <1>5, <2>4, <3>3, <3>4
    <3>5. CASE ~s3.panic
      <4>1. /\ s3.iv = s2.iv /\ s3.pt = s2.pt /\ s3.pd = s2.pd /\ s3.fifo = s2.fifo
            /\ s3.disk = s2.disk /\ s3.bsmap = s2.bsmap /\ s3.hooks = s2.hooks
        BY <3>3 DEF But, Fields
      <4>2. h \in Seq(Procs \X Vpns)
        <5>1. s3.hooks \in Seq(Procs \X Vpns) /\ <<p, v>> \in Procs \X Vpns
          BY <1>1, <3>3, VmTyped
        <5> QED
          BY <5>1, AppendMembers DEF hook_pfault
      <4>3. Tab(s3, p, d) = tab /\ HasTab(s3, p, d) /\ ~Present(s3, p, v)
        BY <3>1, <3>2, <4>1 DEF Tab, HasTab, Present, Pte, TabOf
      <4>4. tab \in Frames
        <5>1. TabInv(s2, A, {f}, c)
          BY <3>1 DEF Given
        <5> QED
          BY <1>1, <3>2, <5>1 DEF TabInv
      <4>5. t = [s3 EXCEPT !.pt[tab][k] = [pres |-> TRUE, base |-> f, use |-> 0],
                           !.iv[tab].ref = @ + 1,
                           !.hooks = h]
        BY <4>3
      <4> HIDE DEF t, h
      <4>6. t \in VmType /\ Enters(s3, t, tab, k, f)
        BY <1>1, <3>1, <3>3, <4>2, <4>4, <4>5, EnterEffect, ZenonT(60)
      <4>7. Given(s3, A, n, f, c, p) /\ HeldInv(s2, A, n, wr) /\ MapInv(s2, A, n, {f})
        <5>1. /\ \A q, x : Present(s3, q, x) = Present(s2, q, x) /\ Base(s3, q, x) = Base(s2, q, x)
              /\ \A q, e : HasTab(s3, q, e) = HasTab(s2, q, e) /\ Tab(s3, q, e) = Tab(s2, q, e)
              /\ \A q, e : Pages(s3, q, e) = Pages(s2, q, e)
          BY <4>1 DEF Present, Base, Pte, TabOf, HasTab, Tab, Pages
        <5>2. /\ ListInv(s2, {}) /\ OwnInv(s2, A \cup {p}) /\ PageInv(s2, {f})
              /\ MapInv(s2, A, n, {f}) /\ TabInv(s2, A, {f}, c)
          BY <3>1 DEF Given
        <5>3. /\ ListInv(s3, {}) /\ OwnInv(s3, A \cup {p})
              /\ \A g \in Frames \ {f} : s3.iv[g].valid # "NULL_PAGE" => s3.iv[g].pid \in A
          BY <3>1, <4>1, <5>2 DEF ListInv, OwnInv, Given
        <5>4. PageInv(s3, {f}) /\ MapInv(s3, A, n, {f})
          BY <4>1, <5>1, <5>2 DEF PageInv, MapInv
        <5>5. TabInv(s3, A, {f}, c)
          BY <4>1, <5>1, <5>2 DEF TabInv
        <5> QED
          BY <3>1, <5>2, <5>3, <5>4, <5>5 DEF Given
      <4>8. PlusPage(s3, t, A, p, v, f) /\ ListInv(t, {}) /\ MapsInv(t, A, n, {}, << >>)
        <5>1. Enters(s3, t, Tab(s3, p, d), k, f)
          BY <4>3, <4>6
        <5>2. s3.iv[f].valid = "PAGE" /\ s3.iv[f].pid = p /\ s3.iv[f].vpn = v
              /\ s3.iv[f].ref = 0
          BY <3>1, <4>1
        <5> QED
          BY <1>1, <3>1, <3>3, <4>3, <4>7, <5>1, <5>2, EnterMaps
      <4>9. HeldInv(t, A, n, wr)
        <5>1. PlusPage(s2, t, A, p, v, f)
          <6>1. \A q, x : Present(s3, q, x) = Present(s2, q, x) /\ Base(s3, q, x) = Base(s2, q, x)
            BY <4>1 DEF Present, Base, Pte, TabOf
          <6> QED
            BY <4>8, <6>1 DEF PlusPage
        <5>2. t.disk = s2.disk /\ t.bsmap = s2.bsmap /\ t.mem = s3.mem
          BY <4>1, <4>6 DEF Enters, But, Fields
        <5>3. t.mem[f] = s2.disk[Place(s2, p, v)]
              /\ \A g \in Frames \ {f} : t.mem[g] = s2.mem[g]
          <6>1. s2.mem \in [Frames -> Vals]
            BY <2>2, VmTyped
          <6> QED
            BY <3>1, <3>3, <3>5, <5>2, <6>1
        <5>4. \A q \in A : n[q] \in Nat /\ n[q] <= MaxHeapSize
          OBVIOUS
        <5> QED
          BY <1>1, <3>1, <4>7, <5>1, <5>2, <5>3, <5>4, EnterHeld
      <4> QED
        BY <1>2, <1>5, <2>4, <3>5, <4>6, <4>8, <4>9 DEF SoundInv
    <3> QED
      BY <3>4, <3>5
  <2> QED
    BY <2>3, <2>4
<1> QED
  BY <1>4, <1>5

----------------------------------------------------------------------------
\* kill.

\* A finite set of numbers has a greatest one.
LEMMA GreatestNat ==
  ASSUME NEW S, S \subseteq Nat, IsFiniteSet(S), S # {}
  PROVE  Max(S) \in S
<1> DEFINE Topped(T) == \E x \in T : \A y \in T : x >= y
           C == {c \in Nat : \E T \in SUBSET S : T # {} /\ ~Topped(T) /\ Cardinality(T) = c}
<1>1. CASE Topped(S)
  BY <1>1 DEF Max
<1>2. CASE ~Topped(S)
  <2>1. \A T \in SUBSET S : IsFiniteSet(T) /\ Cardinality(T) \in Nat
    BY FS_Subset, FS_CardinalityType
  <2> HIDE DEF Topped
  <2>2. C \subseteq Nat /\ C # {}
    BY <1>2, <2>1
  <2> DEFINE c == Min(C)
  <2>3. c \in C /\ \A d \in C : c <= d
    <3> HIDE DEF C
    <3> QED
      BY <2>2, LeastNat
  <2> HIDE DEF c
  <2>4. PICK T \in SUBSET S : T # {} /\ ~Topped(T) /\ Cardinality(T) = c
    BY <2>3
  <2>5. PICK x \in T : TRUE
    BY <2>4
  <2> DEFINE U == T \ {x}
  <2>6. Cardinality(U) = c - 1 /\ c \in Nat
    BY <2>1, <2>4, <2>5, FS_RemoveElement
  <2>7. U = {} \/ Topped(U)
    <3>1. U \in SUBSET S /\ Cardinality(U) \in Nat
      BY <2>1
    <3>2. Cardinality(U) \notin C
      BY <2>3, <2>6
    <3> QED
      BY <3>1, <3>2
  <2>8. Topped(T)
    <3>1. T \subseteq Nat
      OBVIOUS
    <3>2. CASE U = {}
      BY <2>5, <3>1, <3>2 DEF Topped
    <3>3. CASE Topped(U)
      <4>1. PICK m \in U : \A y \in U : m >= y
        BY <3>3 DEF Topped
      <4>2. CASE m >= x
        <5>1. \A y \in T : m >= y
          BY <4>1, <4>2
        <5> QED
          BY <5>1 DEF Topped
      <4>3. CASE ~(m >= x)
        <5>1. \A y \in T : x >= y
          BY <2>5, <3>1, <4>1, <4>3
        <5> QED
          BY <2>5, <5>1 DEF Topped
      <4> QED
        BY <4>2, <4>3
    <3> QED
      BY <2>7, <3>2, <3>3
  <2> QED
    BY <2>4, <2>8
<1> QED
  BY <1>1, <1>2

\* The frames of p are free, its pages are on the disk and off the list.
Freed(s, t, p) ==
    /\ But(s, t, {"disk", "fifo", "iv", "bstab", "bsmap"})
    /\ t.fifo = Unlink(s.fifo, {f \in Frames : s.iv[f].pid = p})
    /\ \A f \in Frames : t.iv[f] = IF s.iv[f].pid = p THEN NullIv ELSE s.iv[f]
    /\ \A b \in Stores : t.bsmap[b] = IF s.bsmap[b].pid = p THEN NoBs ELSE s.bsmap[b]
    /\ \A i \in 0..(DiskPages - 1) :
          (\A f \in Frames : s.iv[f].pid = p /\ s.iv[f].valid = "PAGE" =>
                                Place(s, p, s.iv[f].vpn) # i)
             => t.disk[i] = s.disk[i]

\* kill does this to the frames, the list, the stores and the disk.
LEMMA KillEffect ==
  ASSUME NEW s \in VmType, Distinct(s.fifo), NEW A, NEW n, StoreInv(s, A, n),
         NEW p \in Procs
  PROVE  FreeFramesOf(s, p) \in VmType /\ Freed(s, FreeFramesOf(s, p), p)
<1> DEFINE t == FreeFramesOf(s, p)
           saved(i) == {f \in Frames : /\ s.iv[f].pid = p /\ s.iv[f].valid = "PAGE"
                                       /\ Place(s, p, s.iv[f].vpn) = i}
           D == 0..(DiskPages - 1)
           x == [i \in DOMAIN s.disk |->
                    IF saved(i) = {} THEN s.disk[i] ELSE s.mem[Max(saved(i))]]
           q == Unlink(s.fifo, {f \in Frames : s.iv[f].pid = p})
           y == [f \in Frames |-> IF s.iv[f].pid = p THEN NullIv ELSE s.iv[f]]
           u == [b \in Stores |-> IF s.bsmap[b].pid = p THEN deallocate_bs(s.bstab[b])
                                  ELSE s.bstab[b]]
           m == [b \in Stores |-> IF s.bsmap[b].pid = p THEN NoBs ELSE s.bsmap[b]]
<1>1. /\ s.disk \in [D -> Vals] /\ s.mem \in [Frames -> Vals] /\ s.iv \in [Frames -> IvEntry]
      /\ s.fifo \in Seq(Frames)
  BY VmTyped
<1>2. t = [s EXCEPT !.disk = x, !.fifo = q, !.iv = y, !.bstab = u, !.bsmap = m]
  BY DEF FreeFramesOf, VmType
<1>3. StoreInv(t, A \ {p}, n)
  BY KillStores
<1>4. ASSUME NEW i \in D PROVE x[i] \in Vals /\ (saved(i) = {} => x[i] = s.disk[i])
  <2>1. DOMAIN s.disk = D
    BY <1>1
  <2>2. CASE saved(i) = {}
    BY <1>1, <2>1, <2>2
  <2>3. CASE saved(i) # {}
    <3>1. saved(i) \subseteq Frames /\ Frames \subseteq Nat /\ IsFiniteSet(Frames)
      BY PagingAssumption
    <3> DEFINE S == saved(i)
    <3>2. IsFiniteSet(S) /\ S \subseteq Nat
      BY <3>1, FS_Subset
    <3>3. x[i] = s.mem[Max(S)]
      BY <2>1, <2>3
    <3> HIDE DEF saved, x
    <3>4. Max(S) \in S
      <4>1. S # {}
        BY <2>3
      <4> HIDE DEF S
      <4> QED
        BY <3>2, <4>1, GreatestNat
    <3>5. Max(S) \in Frames
      BY <3>1, <3>4
    <3> QED
      BY <1>1, <2>3, <3>3, <3>5
  <2> QED
    BY <2>2, <2>3
<1>5. x \in [D -> Vals]
  <2>1. x = [i \in D |-> x[i]]
    BY <1>1
  <2> HIDE DEF x
  <2> QED
    BY <1>4, <2>1
<1>6. q \in Seq(Frames)
  BY <1>1, UnlinkMembers
<1>7. y \in [Frames -> IvEntry] /\ \A f \in Frames : y[f] = IF s.iv[f].pid = p THEN NullIv
                                                           ELSE s.iv[f]
  <2>1. NullIv \in IvEntry
    BY DEF NullIv, IvEntry
  <2> QED
    BY <1>1, <2>1
<1>8. u \in [Stores -> BsRec] /\ m \in [Stores -> BsEntry]
  <2>1. t.bstab = u /\ t.bsmap = m
    <3> HIDE DEF t, x, q, y, u, m
    <3> QED
      BY <1>2 DEF VmType
  <2> QED
    BY <1>3, <2>1 DEF StoreInv
<1>9. \A b \in Stores : m[b] = IF s.bsmap[b].pid = p THEN NoBs ELSE s.bsmap[b]
  OBVIOUS
<1> HIDE DEF t, x, y, u, m, q
<1>10. t \in VmType /\ But(s, t, {"disk", "fifo", "iv", "bstab", "bsmap"})
       /\ t.disk = x /\ t.fifo = q /\ t.iv = y /\ t.bsmap = m
  <2>1. t \in VmType
    BY <1>2, <1>5, <1>6, <1>7, <1>8 DEF VmType, BsRec
  <2>2. /\ But(s, t, {"disk", "fifo", "iv", "bstab", "bsmap"})
        /\ t.disk = x /\ t.fifo = q /\ t.iv = y /\ t.bsmap = m
    BY <1>2 DEF VmType, But, Fields
  <2> QED
    BY <2>1, <2>2
<1>11. \A i \in D : (\A f \in Frames : s.iv[f].pid = p /\ s.iv[f].valid = "PAGE" =>
                                Place(s, p, s.iv[f].vpn) # i)
                    => saved(i) = {}
  OBVIOUS
<1> HIDE DEF saved
<1>12. Freed(s, t, p)
  BY <1>4, <1>7, <1>9, <1>10, <1>11 DEF Freed, q
<1> QED
  BY <1>10, <1>12 DEF t

\* The processes other than p keep their frames, their pages and what they wrote.
LEMMA KillSound ==
  ASSUME NEW s \in VmType, NEW A \in SUBSET Procs, NEW n \in [Procs -> Nat],
         \A q \in A : n[q] <= MaxHeapSize, NEW wr, SoundInv(s, A, n, wr),
         StoreInv(s, A, n), NEW p \in A, NEW t, Freed(s, t, p), StoreInv(t, A \ {p}, n)
  PROVE  SoundInv(t, A \ {p}, n, wr)
<1> DEFINE B == A \ {p}
<1>1. /\ ListInv(s, {}) /\ OwnInv(s, A) /\ PageInv(s, {}) /\ MapInv(s, A, n, {})
      /\ TabInv(s, A, {}, << >>) /\ HeldInv(s, A, n, wr) /\ MapsInv(s, A, n, {}, << >>)
  BY DEF SoundInv, MapsInv
<1>2. t.pd = s.pd /\ t.pt = s.pt /\ t.mem = s.mem
  BY DEF Freed, But, Fields
<1>3. /\ \A f \in Frames : s.iv[f].pid # p => t.iv[f] = s.iv[f]
      /\ \A f \in Frames : s.iv[f].pid = p => t.iv[f] = NullIv
  BY DEF Freed
<1>4. /\ \A q, x : Present(t, q, x) = Present(s, q, x) /\ Base(t, q, x) = Base(s, q, x)
      /\ \A q, e : HasTab(t, q, e) = HasTab(s, q, e) /\ Tab(t, q, e) = Tab(s, q, e)
      /\ \A q, e : Pages(t, q, e) = Pages(s, q, e)
  BY <1>2 DEF Present, Base, Pte, TabOf, HasTab, Tab, Pages
<1>5. NullIv.valid = "NULL_PAGE" /\ NullIv.ref = 0
  BY DEF NullIv
<1>6. ListInv(t, {})
  <2> DEFINE F == {f \in Frames : s.iv[f].pid = p}
  <2>1. t.fifo = Unlink(s.fifo, F) /\ s.fifo \in Seq(Frames) /\ Distinct(s.fifo)
    BY <1>1, VmTyped DEF Freed, ListInv
  <2>2. Distinct(t.fifo) /\ \A f : Has(t.fifo, f) <=> Has(s.fifo, f) /\ f \notin F
    <3> HIDE DEF F
    <3> QED
      BY <2>1, UnlinkMembers
  <2> QED
    BY <1>1, <1>3, <1>5, <2>2 DEF ListInv
<1>7. OwnInv(t, B)
  BY <1>1, <1>3, <1>5 DEF OwnInv
<1>8. PageInv(t, {})
  BY <1>1, <1>3, <1>4, <1>5 DEF PageInv
<1>9. MapInv(t, B, n, {})
  BY <1>1, <1>3, <1>4 DEF MapInv
<1>10. TabInv(t, B, {}, << >>)
  BY <1>1, <1>3, <1>4 DEF TabInv
<1>11. HeldInv(t, B, n, wr)
  <2> SUFFICES ASSUME NEW q \in B, NEW x \in 0..(n[q] - 1), wr[q][x] # NONE
               PROVE  IF Present(t, q, x) THEN t.mem[Base(t, q, x)] = wr[q][x]
                      ELSE OnDisk(Place(t, q, x)) /\ t.disk[Place(t, q, x)] = wr[q][x]
    BY DEF HeldInv
  <2>1. IF Present(s, q, x) THEN s.mem[Base(s, q, x)] = wr[q][x]
        ELSE OnDisk(Place(s, q, x)) /\ s.disk[Place(s, q, x)] = wr[q][x]
    BY <1>1 DEF HeldInv
  <2>2. Place(t, q, x) = Place(s, q, x)
    <3>1. q # p /\ q # 0 /\ NoBs.pid = 0
      BY PagingAssumption DEF NoBs
    <3>2. \A b \in Stores : t.bsmap[b] = IF s.bsmap[b].pid = p THEN NoBs ELSE s.bsmap[b]
      BY DEF Freed
    <3>3. \A b \in Stores : Maps(t, b, q, x) <=> Maps(s, b, q, x)
      BY <3>1, <3>2 DEF Maps
    <3>4. Store(t, q, x) = Store(s, q, x)
      BY <3>3 DEF Store
    <3> DEFINE b == Store(s, q, x)
    <3>5. b \in Stores /\ Maps(s, b, q, x)
      <4>1. A \subseteq Procs
        OBVIOUS
      <4> QED
        BY <4>1, PlacesApart
    <3> HIDE DEF b
    <3>6. t.bsmap[b] = s.bsmap[b]
      BY <3>1, <3>2, <3>5 DEF Maps
    <3> QED
      BY <3>4, <3>6 DEF Place, Offset, b
  <2>3. ASSUME OnDisk(Place(s, q, x))
        PROVE  t.disk[Place(s, q, x)] = s.disk[Place(s, q, x)]
    <3> DEFINE i == Place(s, q, x)
    <3>1. i \in 0..(DiskPages - 1)
      <4>1. A \subseteq Procs /\ q \in A
        OBVIOUS
      <4> QED
        BY <2>3, <4>1, PlaceNumber
    <3>2. ASSUME NEW f \in Frames, s.iv[f].pid = p, s.iv[f].valid = "PAGE",
                 Place(s, p, s.iv[f].vpn) = i
          PROVE  FALSE
      <4> DEFINE v == s.iv[f].vpn
      <4>1. v \in Vpns /\ v < n[p]
        BY <1>1, <3>2, PageOfFrame
      <4>2. v \in 0..(n[p] - 1)
        <5>1. v \in Nat /\ n[p] \in Nat
          BY <4>1, PageNumbers
        <5> QED
          BY <4>1, <5>1
      <4> HIDE DEF v
      <4>3. A \subseteq Procs /\ q \in A /\ q # p /\ Place(s, p, v) = Place(s, q, x)
        BY <3>2 DEF v
      <4> QED
        BY <4>2, <4>3, PlacesApart
    <3> HIDE DEF i
    <3>3. t.disk[i] = s.disk[i]
      BY <3>1, <3>2 DEF Freed
    <3> QED
      BY <3>3 DEF i
  <2> QED
    BY <1>2, <1>4, <2>1, <2>2, <2>3
<1> QED
  BY <1>6, <1>7, <1>8, <1>9, <1>10, <1>11 DEF SoundInv, MapsInv

----------------------------------------------------------------------------
\* vcreate.  The heap of p takes stores that nobody has.
Spared(e, d, p) == d = e \/ (e.pid = 0 /\ d.pid = p)

Remapped(s, t, p) ==
    \E x, y :
        /\ t = [s EXCEPT !.bstab = x, !.bsmap = y]
        /\ DOMAIN y = Stores
        /\ \A b \in Stores : Spared(s.bsmap[b], y[b], p)

\* bs_mapping gives free stores to p, or none.
LEMMA MappingEffect ==
  ASSUME NEW s \in VmType, NEW p \in Procs, NEW t, Remapped(s, t, p), NEW m, NEW start
  PROVE  Remapped(s, bs_mapping(t, p, m, start), p)
<1> DEFINE u == bs_mapping(t, p, m, start)
           b == StoreFor(t.bstab, m)
           e == [pid |-> p, num |-> m, start |-> start]
<1>1. PICK x, y :
        /\ t = [s EXCEPT !.bstab = x, !.bsmap = y]
        /\ DOMAIN y = Stores
        /\ \A c \in Stores : Spared(s.bsmap[c], y[c], p)
  BY DEF Remapped
<1>2. CASE m = 0
  BY <1>2 DEF bs_mapping
<1>3. CASE m # 0
  <2> DEFINE z == [y EXCEPT ![b] = IF @.pid # 0 THEN @ ELSE e]
             w == allocate_bs(t.bstab, m)
  <2>1. t.bsmap = y
    BY <1>1 DEF VmType
  <2>2. u = [t EXCEPT !.bstab = w, !.bsmap = z]
    BY <1>3, <2>1 DEF bs_mapping
  <2>3. DOMAIN z = Stores /\ \A c \in Stores : Spared(y[c], z[c], p)
    <3> HIDE DEF b
    <3> QED
      BY <1>1 DEF Spared
  <2> HIDE DEF z, w, u
  <2>4. u = [s EXCEPT !.bstab = w, !.bsmap = z]
    BY <1>1, <2>2 DEF VmType
  <2>5. p # 0
    BY PagingAssumption
  <2>6. \A c \in Stores : Spared(s.bsmap[c], z[c], p)
    BY <1>1, <2>3, <2>5 DEF Spared
  <2> QED
    BY <2>3, <2>4, <2>6 DEF Remapped, u
<1> QED
  BY <1>2, <1>3

\* ... and so does the loop of vcreate over the pieces of the heap.
LEMMA MapHeapEffect ==
  ASSUME NEW s \in VmType, NEW p \in Procs, Pieces(p) \in Nat
  PROVE  Remapped(s, MapHeap(s, p), p)
<1> DEFINE N == Pieces(p)
           f == CHOOSE g : IsMapped(g, s, p, N)
           T == {k \in 0..N : ~Remapped(s, f[k], p)}
<1>1. N \in Nat
  OBVIOUS
<1>2. MapHeap(s, p) = f[N]
  BY DEF MapHeap, IsMapped
<1>3. IsMapped(f, s, p, N)
  <2>1. \E g : IsMapped(g, s, p, N)
    <3> HIDE DEF N, f
    <3> QED
      BY <1>1, MappedExists
  <2> QED
    BY <2>1
<1> HIDE DEF f, N
<1>4. f[0] = s /\ \A k \in 1..N : f[k] = MapPiece(f[k - 1], p, k)
  BY <1>1, <1>3 DEF IsMapped
<1>5. Remapped(s, f[0], p)
  <2>1. s = [s EXCEPT !.bstab = s.bstab, !.bsmap = s.bsmap] /\ DOMAIN s.bsmap = Stores
    BY VmTyped DEF VmType
  <2> QED
    BY <1>4, <2>1 DEF Remapped, Spared
<1>6. ASSUME NEW k \in 1..N, Remapped(s, f[k - 1], p)
      PROVE  Remapped(s, f[k], p)
  <2> DEFINE a == (k - 1) * PagesPerStore
             m == Min({PagesPerStore, sys.hsize[p] - a})
             t == f[k - 1]
  <2>1. f[k] = bs_mapping(t, p, m, a)
    BY <1>4 DEF MapPiece
  <2>2. Remapped(s, t, p)
    BY <1>6
  <2> HIDE DEF a, m, t
  <2> QED
    BY <2>1, <2>2, MappingEffect
<1>7. CASE T = {}
  BY <1>1, <1>2, <1>7
<1>8. CASE T # {}
  <2> DEFINE k == Min(T)
  <2>1. k \in T /\ \A y \in T : k <= y
    <3>1. T \subseteq Nat
      OBVIOUS
    <3> HIDE DEF T
    <3> QED
      BY <1>8, <3>1, LeastNat
  <2> HIDE DEF k
  <2>2. k \in 0..N /\ ~Remapped(s, f[k], p)
    BY <2>1
  <2>3. k # 0
    BY <1>5, <2>2
  <2>4. k \in 1..N /\ k - 1 \in 0..N /\ ~(k <= k - 1)
    BY <1>1, <2>2, <2>3
  <2>5. k - 1 \notin T
    <3> HIDE DEF T
    <3> QED
      BY <2>1, <2>4
  <2> QED
    BY <1>6, <2>2, <2>4, <2>5
<1> QED
  BY <1>7, <1>8

\* A new process has no pages, and takes nothing from the others.
LEMMA CreateSound ==
  ASSUME NEW s \in VmType, NEW A \in SUBSET Procs, NEW n \in [Procs -> Nat],
         \A q \in A : n[q] <= MaxHeapSize, NEW p \in Procs \ A, NEW f \in Frames,
         NEW wr, NEW x, NEW z,
         Framed(s, x, f, A, n, wr, << >>, p, 0, "PAGE_DIR"), StoreInv(x, A, n),
         Remapped(x, z, p), x \in VmType,
         NEW t, t = [z EXCEPT !.pd[p] = [d \in PdIdxs |-> NoPde]], t \in VmType,
         NEW w, \A q \in A : w[q] = wr[q], \A v \in 0..(n[p] - 1) : w[p][v] = NONE
  PROVE  SoundInv(t, A \cup {p}, n, w)
<1> DEFINE B == A \cup {p}
<1>1. /\ ListInv(x, {}) /\ OwnInv(x, B) /\ PageInv(x, {f}) /\ MapInv(x, A, n, {f})
      /\ TabInv(x, A, {f}, << >>) /\ HeldInv(x, A, n, wr)
      /\ \A g \in Frames \ {f} : x.iv[g].valid # "NULL_PAGE" => x.iv[g].pid \in A
      /\ x.iv[f].valid = "PAGE_DIR"
  BY DEF Framed, Given
<1>2. PICK a, b :
        /\ z = [x EXCEPT !.bstab = a, !.bsmap = b]
        /\ \A i \in Stores : Spared(x.bsmap[i], b[i], p)
  BY DEF Remapped
<1>3. /\ t.iv = x.iv /\ t.fifo = x.fifo /\ t.pt = x.pt /\ t.mem = x.mem /\ t.disk = x.disk
      /\ t.bsmap = b
      /\ \A q \in A : t.pd[q] = x.pd[q]
      /\ \A d \in PdIdxs : ~t.pd[p][d].pres
  <2>1. /\ z.iv = x.iv /\ z.fifo = x.fifo /\ z.pt = x.pt /\ z.mem = x.mem /\ z.disk = x.disk
        /\ z.bsmap = b /\ z.pd = x.pd /\ "pd" \in DOMAIN z
        /\ {"iv", "fifo", "pt", "mem", "disk", "bsmap"} \subseteq DOMAIN z
    BY <1>2 DEF VmType
  <2>2. x.pd \in [Procs -> [PdIdxs -> PdEntry]] /\ A \subseteq Procs
    BY VmTyped
  <2>3. t.pd = [x.pd EXCEPT ![p] = [d \in PdIdxs |-> NoPde]]
    BY <2>1
  <2>4. /\ t.iv = x.iv /\ t.fifo = x.fifo /\ t.pt = x.pt /\ t.mem = x.mem /\ t.disk = x.disk
        /\ t.bsmap = b
    BY <2>1
  <2>5. \A q \in A : t.pd[q] = x.pd[q]
    BY <2>2, <2>3
  <2>6. \A d \in PdIdxs : t.pd[p][d] = NoPde
    BY <2>2, <2>3
  <2> QED
    BY <2>4, <2>5, <2>6 DEF NoPde
<1>4. /\ \A q \in A : \A v : /\ Present(t, q, v) = Present(x, q, v)
                             /\ Base(t, q, v) = Base(x, q, v)
      /\ \A q \in A : \A e : HasTab(t, q, e) = HasTab(x, q, e) /\ Tab(t, q, e) = Tab(x, q, e)
      /\ \A q \in A : \A e : Pages(t, q, e) = Pages(x, q, e)
  BY <1>3 DEF Present, Base, Pte, TabOf, HasTab, Tab, Pages
<1>5. /\ \A v \in Vpns : ~Present(t, p, v)
      /\ \A d \in PdIdxs : ~HasTab(t, p, d)
  BY <1>3, PageNumbers DEF Present, HasTab
<1>6. ListInv(t, {}) /\ OwnInv(t, B)
  BY <1>1, <1>3 DEF ListInv, OwnInv
<1>7. PageInv(t, {})
  BY <1>1, <1>3, <1>4 DEF PageInv
<1>8. MapInv(t, B, n, {})
  <2> SUFFICES ASSUME NEW q \in B, NEW v \in Vpns, Present(t, q, v)
               PROVE  LET g == Base(t, q, v) IN
                      /\ v < n[q] /\ g \in Frames
                      /\ t.iv[g].valid = "PAGE" /\ t.iv[g].pid = q /\ t.iv[g].vpn = v
    BY DEF MapInv
  <2>1. q \in A
    BY <1>5
  <2>2. Present(x, q, v) /\ Base(t, q, v) = Base(x, q, v)
    BY <1>4, <2>1
  <2> DEFINE g == Base(x, q, v)
  <2>3. /\ v < n[q] /\ g \in Frames
        /\ x.iv[g].valid = "PAGE" /\ x.iv[g].pid = q /\ x.iv[g].vpn = v
    BY <1>1, <2>1, <2>2 DEF MapInv
  <2> QED
    BY <1>3, <2>2, <2>3
<1>9. TabInv(t, B, {}, << >>)
  <2> SUFFICES ASSUME NEW q \in B, NEW e \in PdIdxs, HasTab(t, q, e)
               PROVE  /\ Tab(t, q, e) \in Frames
                      /\ t.iv[Tab(t, q, e)].valid = "PAGE_TAB"
                      /\ t.iv[Tab(t, q, e)].pid = q
                      /\ t.iv[Tab(t, q, e)].ref = Cardinality(Pages(t, q, e))
                      /\ <<q, e>> = << >> \/ Pages(t, q, e) # {}
                      /\ \A y \in PdIdxs : HasTab(t, q, y) /\ Tab(t, q, y) = Tab(t, q, e)
                                           => y = e
    BY DEF TabInv
  <2>1. q \in A
    BY <1>5
  <2>2. /\ Tab(x, q, e) \in Frames
        /\ x.iv[Tab(x, q, e)].valid = "PAGE_TAB"
        /\ x.iv[Tab(x, q, e)].pid = q
        /\ x.iv[Tab(x, q, e)].ref = Cardinality(Pages(x, q, e))
        /\ <<q, e>> = << >> \/ Pages(x, q, e) # {}
        /\ \A y \in PdIdxs : HasTab(x, q, y) /\ Tab(x, q, y) = Tab(x, q, e) => y = e
    BY <1>1, <1>4, <2>1 DEF TabInv
  <2> QED
    BY <1>3, <1>4, <2>1, <2>2
<1>10. HeldInv(t, B, n, w)
  <2> SUFFICES ASSUME NEW q \in B, NEW v \in 0..(n[q] - 1), w[q][v] # NONE
               PROVE  IF Present(t, q, v) THEN t.mem[Base(t, q, v)] = w[q][v]
                      ELSE OnDisk(Place(t, q, v)) /\ t.disk[Place(t, q, v)] = w[q][v]
    BY DEF HeldInv
  <2>1. q \in A /\ q # p /\ q # 0 /\ wr[q][v] = w[q][v]
    BY PagingAssumption
  <2>2. IF Present(x, q, v) THEN x.mem[Base(x, q, v)] = w[q][v]
        ELSE OnDisk(Place(x, q, v)) /\ x.disk[Place(x, q, v)] = w[q][v]
    BY <1>1, <2>1 DEF HeldInv
  <2>3. Place(t, q, v) = Place(x, q, v)
    <3>1. \A i \in Stores : Maps(t, i, q, v) <=> Maps(x, i, q, v)
      BY <1>2, <1>3, <2>1 DEF Maps, Spared
    <3>2. Store(t, q, v) = Store(x, q, v)
      BY <3>1 DEF Store
    <3> DEFINE c == Store(x, q, v)
    <3>3. c \in Stores /\ Maps(x, c, q, v)
      <4>1. A \subseteq Procs
        OBVIOUS
      <4> QED
        BY <2>1, <4>1, PlacesApart
    <3> HIDE DEF c
    <3>4. t.bsmap[c] = x.bsmap[c]
      BY <1>2, <1>3, <2>1, <3>3 DEF Maps, Spared
    <3> QED
      BY <3>2, <3>4 DEF Place, Offset, c
  <2> QED
    BY <1>3, <1>4, <2>1, <2>2, <2>3
<1> QED
  BY <1>6, <1>7, <1>8, <1>9, <1>10 DEF SoundInv, MapsInv

----------------------------------------------------------------------------
\* An access of the user program.
LEMMA SetUseEffect ==
  ASSUME NEW s \in VmType, NEW p \in Procs, NEW v \in Vpns, TabOf(s, p, v) \in Frames,
         NEW bits \in 0..2
  PROVE  LET t == SetUse(s, p, v, bits) IN
         t \in VmType /\ But(s, t, {"pt"}) /\ SamePlaces(s.pt, t.pt)
<1> DEFINE g == TabOf(s, p, v)
           k == PtIdx(v)
           e == s.pt[g][k]
           y == Max({e.use, bits})
           d == [e EXCEPT !.use = y]
           x == [s.pt EXCEPT ![g][k] = d]
           t == [s EXCEPT !.pt = x]
<1>1. k \in PtIdxs /\ s.pt \in [Frames -> [PtIdxs -> PtEntry]]
  BY PageNumbers, VmTyped
<1>2. SetUse(s, p, v, bits) = t \/ SetUse(s, p, v, bits) = s
  BY DEF SetUse
<1>3. e \in PtEntry /\ e.use \in 0..2
  BY <1>1 DEF PtEntry
<1>4. y \in 0..2
  <2>1. \E m \in {e.use, bits} : \A i \in {e.use, bits} : m >= i
    BY <1>3
  <2>2. y \in {e.use, bits}
    BY <2>1 DEF Max
  <2> QED
    BY <1>3, <2>2
<1> HIDE DEF e, y
<1>5. d \in PtEntry /\ d.pres = e.pres /\ d.base = e.base
  BY <1>3, <1>4 DEF PtEntry
<1> HIDE DEF d
<1>6. x \in [Frames -> [PtIdxs -> PtEntry]] /\ SamePlaces(s.pt, x)
  <2>1. /\ x \in [Frames -> [PtIdxs -> PtEntry]] /\ x[g][k] = d
        /\ \A h \in Frames : \A j \in PtIdxs : <<h, j>> # <<g, k>> => x[h][j] = s.pt[h][j]
    BY <1>1, <1>5
  <2> HIDE DEF x
  <2>2. ASSUME NEW h \in Frames, NEW j \in PtIdxs
        PROVE  x[h][j].pres = s.pt[h][j].pres /\ x[h][j].base = s.pt[h][j].base
    <3>1. CASE h = g /\ j = k
      BY <1>5, <2>1, <3>1 DEF e
    <3>2. CASE ~(h = g /\ j = k)
      BY <2>1, <3>2
    <3> QED
      BY <3>1, <3>2
  <2> QED
    BY <2>1, <2>2 DEF SamePlaces
<1> HIDE DEF x
<1>7. t \in VmType /\ t.pt = x /\ But(s, t, {"pt"})
  BY <1>6 DEF VmType, PtIdxs, But, Fields
<1>8. But(s, s, {"pt"}) /\ SamePlaces(s.pt, s.pt)
  BY DEF But, SamePlaces
<1> QED
  BY <1>2, <1>6, <1>7, <1>8

\* The bits of an entry matter to nothing else.
LEMMA UseSound ==
  ASSUME NEW s \in VmType, NEW A \in SUBSET Procs, NEW n \in [Procs -> Nat],
         \A q \in A : n[q] <= MaxHeapSize, NEW wr, SoundInv(s, A, n, wr),
         NEW t, But(s, t, {"pt"}), SamePlaces(s.pt, t.pt)
  PROVE  SoundInv(t, A, n, wr)
<1>1. /\ ListInv(s, {}) /\ MapsInv(s, A, n, {}, << >>) /\ HeldInv(s, A, n, wr)
      /\ TabInv(s, A, {}, << >>)
  BY DEF SoundInv, MapsInv
<1>2. t.iv = s.iv /\ t.pd = s.pd /\ t.fifo = s.fifo /\ t.mem = s.mem /\ t.disk = s.disk
      /\ t.bsmap = s.bsmap
  BY DEF But, Fields
<1>3. SameMaps(s, t, A)
  <2>1. \A g \in Frames \ {} : \A k \in PtIdxs : t.pt[g][k].pres = s.pt[g][k].pres
                                                 /\ t.pt[g][k].base = s.pt[g][k].base
    BY DEF SamePlaces
  <2> QED
    BY <1>1, <1>2, <2>1, TablesKeepMaps
<1>4. MapsInv(t, A, n, {}, << >>)
  <2>1. \A f \in Frames : s.iv[f].valid = "PAGE" => s.iv[f].vpn \in Vpns
    BY <1>1, PageOfFrame
  <2> QED
    BY <1>1, <1>2, <1>3, <2>1, UsableKept
<1>5. ListInv(t, {})
  BY <1>1, <1>2 DEF ListInv
<1>6. HeldInv(t, A, n, wr)
  <2>1. \A q \in A : n[q] \in Nat /\ n[q] <= MaxHeapSize
    OBVIOUS
  <2> QED
    BY <1>1, <1>2, <1>3, <2>1, HeldKept
<1> QED
  BY <1>4, <1>5, <1>6 DEF SoundInv

\* The history w is that of wr with one more write.
Rewrites(wr, w, A, n, p, v, val) ==
    /\ w[p][v] = val
    /\ \A q \in A : \A x \in 0..(n[q] - 1) : <<q, x>> # <<p, v>> => w[q][x] = wr[q][x]

\* A write changes that page and no other.
LEMMA WriteSound ==
  ASSUME NEW s \in VmType, NEW A \in SUBSET Procs, NEW n \in [Procs -> Nat],
         \A q \in A : n[q] <= MaxHeapSize, NEW wr, SoundInv(s, A, n, wr),
         NEW p \in A, NEW v \in Vpns, v < n[p], Present(s, p, v), NEW val \in Vals,
         NEW t, t = [s EXCEPT !.mem[Base(s, p, v)] = val],
         NEW w, Rewrites(wr, w, A, n, p, v, val)
  PROVE  t \in VmType /\ SoundInv(t, A, n, w)
<1> DEFINE f == Base(s, p, v)
           y == [s.mem EXCEPT ![f] = val]
<1>1. /\ ListInv(s, {}) /\ MapsInv(s, A, n, {}, << >>) /\ HeldInv(s, A, n, wr)
      /\ OwnInv(s, A) /\ PageInv(s, {}) /\ TabInv(s, A, {}, << >>) /\ MapInv(s, A, n, {})
  BY DEF SoundInv, MapsInv
<1>2. f \in Frames /\ s.iv[f].pid = p /\ s.iv[f].vpn = v
  BY <1>1 DEF MapInv
<1> HIDE DEF f
<1>3. y \in [Frames -> Vals] /\ y[f] = val /\ \A g \in Frames : g # f => y[g] = s.mem[g]
  <2>1. s.mem \in [Frames -> Vals]
    BY VmTyped
  <2> QED
    BY <1>2, <2>1
<1>4. t = [s EXCEPT !.mem = y]
  BY DEF VmType, f
<1> HIDE DEF y
<1>5. t \in VmType /\ t.mem = y /\ But(s, t, {"mem"})
  BY <1>3, <1>4 DEF VmType, But, Fields
<1>6. t.iv = s.iv /\ t.pd = s.pd /\ t.pt = s.pt /\ t.fifo = s.fifo /\ t.disk = s.disk
      /\ t.bsmap = s.bsmap
  BY <1>5 DEF But, Fields
<1>7. \A q, x : Present(t, q, x) = Present(s, q, x) /\ Base(t, q, x) = Base(s, q, x)
  BY <1>6 DEF Present, Base, Pte, TabOf
<1>8. ListInv(t, {}) /\ MapsInv(t, A, n, {}, << >>)
  <2>1. SameMaps(s, t, A)
    BY <1>7 DEF SameMaps
  <2>2. \A g \in Frames : s.iv[g].valid = "PAGE" => s.iv[g].vpn \in Vpns
    BY <1>1, PageOfFrame
  <2>3. MapsInv(t, A, n, {}, << >>)
    BY <1>1, <1>6, <2>1, <2>2, UsableKept
  <2> QED
    BY <1>1, <1>6, <2>3 DEF ListInv
<1>9. HeldInv(t, A, n, w)
  <2> SUFFICES ASSUME NEW q \in A, NEW x \in 0..(n[q] - 1), w[q][x] # NONE
               PROVE  IF Present(t, q, x) THEN t.mem[Base(t, q, x)] = w[q][x]
                      ELSE OnDisk(Place(t, q, x)) /\ t.disk[Place(t, q, x)] = w[q][x]
    BY DEF HeldInv
  <2>1. CASE <<q, x>> = <<p, v>>
    <3>1. q = p /\ x = v
      BY <2>1
    <3>2. Present(t, q, x) /\ Base(t, q, x) = f
      BY <1>7, <3>1 DEF f
    <3>3. w[p][v] = val
      BY DEF Rewrites
    <3> QED
      BY <1>3, <1>5, <3>1, <3>2, <3>3
  <2>2. CASE <<q, x>> # <<p, v>>
    <3>1. w[q][x] = wr[q][x]
      BY <2>2 DEF Rewrites
    <3>2. IF Present(s, q, x) THEN s.mem[Base(s, q, x)] = wr[q][x]
          ELSE OnDisk(Place(s, q, x)) /\ s.disk[Place(s, q, x)] = wr[q][x]
      BY <1>1, <3>1 DEF HeldInv
    <3>3. x \in Vpns
      <4>1. n[q] \in Nat /\ n[q] <= MaxHeapSize /\ MaxHeapSize \in Nat
        BY PagingAssumption
      <4> QED
        BY <4>1 DEF Vpns
    <3>4. Present(s, q, x) => Base(s, q, x) \in Frames /\ Base(s, q, x) # f
      BY <1>1, <1>2, <2>2, <3>3 DEF MapInv
    <3>5. Place(t, q, x) = Place(s, q, x)
      <4>1. t.bsmap = s.bsmap
        BY <1>6
      <4> QED
        BY <4>1 DEF Place, Store, Offset, Maps
    <3> QED
      BY <1>3, <1>5, <1>6, <1>7, <3>1, <3>2, <3>4, <3>5
  <2> QED
    BY <2>1, <2>2
<1> QED
  BY <1>5, <1>8, <1>9 DEF SoundInv

----------------------------------------------------------------------------
\* The inductive invariant: the types, and the agreement.
PagerInv ==
    /\ vm \in VmType
    /\ cr2 \in Vpns
    /\ written = [p \in Procs |-> written[p]]
    /\ \A p \in Procs : written[p] \in [Heap(p) -> Vals]
    /\ lives = [p \in Procs |-> lives[p]]
    /\ \A p \in Procs : lives[p] \in 0..sys.lives[p]
    /\ AgreeInv

\* The sizes that sys gives.
LEMMA SystemTyped ==
  ASSUME TypeInv
  PROVE  /\ sys.hsize \in [Procs -> Nat] /\ sys.lives \in [Procs -> Nat]
         /\ Alive \in SUBSET Procs
         /\ sys.policy \in {"FIFO", "GCA"}
         /\ \A q \in Procs : /\ sys.hsize[q] \in Nat /\ sys.hsize[q] <= MaxHeapSize
                             /\ Heap(q) = 0..(sys.hsize[q] - 1) /\ Heap(q) \subseteq Vpns
<1>1. sys.hsize \in [Procs -> Nat] /\ Alive \in SUBSET Procs
  BY HeapSizes
<1>2. sys.hsize \in [Procs -> 0..MaxHeapSize] /\ sys.policy \in {"FIFO", "GCA"}
      /\ sys.lives \in [Procs -> Nat] /\ MaxHeapSize \in Nat
  BY PagingAssumption DEF TypeInv
<1>3. ASSUME NEW q \in Procs
      PROVE  /\ sys.hsize[q] \in Nat /\ sys.hsize[q] <= MaxHeapSize
             /\ Heap(q) = 0..(sys.hsize[q] - 1) /\ Heap(q) \subseteq Vpns
  <2>1. sys.hsize[q] \in 0..MaxHeapSize
    BY <1>2
  <2> QED
    BY <1>2, <2>1 DEF Heap, Vpns
<1> QED
  BY <1>1, <1>2, <1>3

\* At first there is no process, no page and no page table.
LEMMA PagerInit ==
  ASSUME Init
  PROVE  PagerInv
<1> USE DEF Init
<1>1. TypeInv
  BY GateInit
<1>2. 0 \in Vpns /\ 0 \in Vals /\ NONE = 0
  BY PagingAssumption DEF Vpns, NONE
<1>3. vm \in VmType
  <2>1. /\ NullIv \in IvEntry /\ NoPde \in PdEntry /\ NoPte \in PtEntry /\ NoBs \in BsEntry
    BY DEF NullIv, IvEntry, NoPde, PdEntry, NoPte, PtEntry, NoBs, BsEntry
  <2>2. /\ vm.iv \in [Frames -> IvEntry] /\ vm.fifo \in Seq(Frames)
        /\ vm.hand \in Frames \cup {HEAD, TAIL}
        /\ vm.pd \in [Procs -> [PdIdxs -> PdEntry]]
        /\ vm.pt \in [Frames -> [0..(PageTabSize - 1) -> PtEntry]]
        /\ vm.mem \in [Frames -> Vals]
        /\ vm.bsmap \in [Stores -> BsEntry]
        /\ vm.hooks \in Seq(Procs \X Vpns) /\ vm.panic \in BOOLEAN
    BY <1>2, <2>1
  <2>3. /\ vm.bstab \in [Stores -> [isopen : BOOLEAN, isallocated : BOOLEAN,
                                    usecount : Int, npages : Nat]]
        /\ vm.disk \in [0..(DiskPages - 1) -> Vals]
    BY <1>2 DEF psinit, qrds_init
  <2> QED
    BY <2>2, <2>3 DEF VmType
<1>4. AgreeInv
  <2>1. Alive = {}
    BY DEF Alive
  <2>2. /\ vm.fifo = << >> /\ \A f \in Frames : vm.iv[f] = NullIv
    OBVIOUS
  <2>3. ListInv(vm, {})
    BY <2>2 DEF ListInv, Distinct, Has, NullIv
  <2>4. MapsInv(vm, {}, sys.hsize, {}, << >>) /\ HeldInv(vm, {}, sys.hsize, written)
    BY <2>2 DEF MapsInv, OwnInv, PageInv, MapInv, TabInv, HeldInv, NullIv
  <2> QED
    BY <2>1, <2>3, <2>4 DEF AgreeInv, SoundInv
<1>5. \A p \in Procs : lives[p] \in 0..sys.lives[p]
  BY <1>1, SystemTyped
<1> QED
  BY <1>2, <1>3, <1>4, <1>5 DEF PagerInv

\* vcreate: the new process has a page directory and nothing else.
LEMMA vcreatePager ==
  ASSUME TypeInv, DiskInv, DiskInv', PagerInv, NEW p \in Procs, vcreate(p)
  PROVE  PagerInv'
<1> DEFINE A == Alive
           n == sys.hsize
           s == get_free_frame(vm, p, 0, "PAGE_DIR")
           z == MapHeap(s, p)
           t == vm'
<1>1. /\ n \in [Procs -> Nat] /\ A \in SUBSET Procs /\ n[p] \in Nat
      /\ sys.policy \in {"FIFO", "GCA"}
      /\ \A q \in A : n[q] <= MaxHeapSize
      /\ sys.lives[p] \in Nat /\ Heap(p) = 0..(n[p] - 1)
  BY SystemTyped
<1>2. /\ Up /\ pc[p] = "none" /\ pc' = [pc EXCEPT ![p] = "user"] /\ sys' = sys
      /\ t = [z EXCEPT !.pd[p] = [d \in PdIdxs |-> NoPde]]
      /\ lives[p] < sys.lives[p] /\ lives' = [lives EXCEPT ![p] = @ + 1]
      /\ written' = [written EXCEPT ![p] = [v \in Heap(p) |-> NONE]]
      /\ cr2' = cr2
  BY DEF vcreate
<1>3. p \in Procs \ A /\ Alive' = A \cup {p}
  BY <1>2 DEF Alive, TypeInv
<1>4. vm \in VmType /\ SoundInv(vm, A, n, written) /\ StoreInv(vm, A, n)
  BY <1>2 DEF PagerInv, AgreeInv, DiskInv
<1>5. /\ s \in VmType
      /\ ~s.panic => /\ Framed(vm, s, FrameFor(vm), A, n, written, << >>, p, 0, "PAGE_DIR")
                     /\ StoreInv(s, A, n)
  <2>1. Usable(vm, A, n, {}, << >>) /\ HeldInv(vm, A, n, written)
    BY <1>4 DEF SoundInv, Usable
  <2>2. Spares(vm, Victim(vm), << >>)
    BY DEF Spares
  <2>3. 0 \in Vpns /\ "PAGE_DIR" \in Purposes
    BY PagingAssumption DEF Vpns, Purposes
  <2> HIDE DEF A, n
  <2> QED
    BY <1>1, <1>4, <2>1, <2>2, <2>3, FrameFound
<1> HIDE DEF s
<1>6. Remapped(s, z, p)
  <2>1. Pieces(p) \in Nat
    BY <1>1, PiecesOfHeap
  <2> QED
    BY <1>5, <2>1, MapHeapEffect
<1> HIDE DEF z
<1>7. StoreInv(t, A \cup {p}, n)
  BY <1>2, <1>3 DEF DiskInv
<1>8. t \in VmType /\ t.panic = s.panic
  <2>1. PICK x, y : z = [s EXCEPT !.bstab = x, !.bsmap = y]
    BY <1>6 DEF Remapped
  <2>2. t.bstab = x /\ t.bsmap = y
    BY <1>2, <1>5, <2>1 DEF VmType
  <2>3. x \in [Stores -> BsRec] /\ y \in [Stores -> BsEntry]
    BY <1>7, <2>2 DEF StoreInv
  <2>4. z \in VmType /\ z.panic = s.panic
    BY <1>5, <2>1, <2>3 DEF VmType, BsRec
  <2>5. [d \in PdIdxs |-> NoPde] \in [PdIdxs -> PdEntry]
    BY DEF NoPde, PdEntry
  <2>6. z.pd \in [Procs -> [PdIdxs -> PdEntry]]
    BY <2>4, VmTyped
  <2> DEFINE e == [z.pd EXCEPT ![p] = [d \in PdIdxs |-> NoPde]]
  <2>7. e \in [Procs -> [PdIdxs -> PdEntry]]
    BY <2>5, <2>6
  <2>8. t = [z EXCEPT !.pd = e]
    BY <1>2, <2>4 DEF VmType
  <2> HIDE DEF e
  <2> QED
    BY <2>4, <2>7, <2>8 DEF VmType
<1>9. /\ written' = [q \in Procs |-> written'[q]]
      /\ \A q \in Procs : q # p => written'[q] = written[q]
      /\ written'[p] = [v \in Heap(p) |-> NONE]
  BY <1>2 DEF PagerInv
<1>10. \A q \in Procs : written'[q] \in [Heap(q)' -> Vals]
  <2>1. NONE \in Vals
    BY PagingAssumption DEF NONE
  <2>2. \A q \in Procs : Heap(q)' = Heap(q)
    BY <1>2 DEF Heap
  <2> QED
    BY <1>9, <2>1, <2>2 DEF PagerInv
<1>11. lives' = [q \in Procs |-> lives'[q]] /\ \A q \in Procs : lives'[q] \in 0..sys'.lives[q]
  <2>1. lives' = [q \in Procs |-> lives'[q]] /\ lives'[p] = lives[p] + 1
        /\ \A q \in Procs : q # p => lives'[q] = lives[q]
    BY <1>2 DEF PagerInv
  <2>2. lives[p] + 1 \in 0..sys.lives[p]
    BY <1>1, <1>2 DEF PagerInv
  <2> QED
    BY <1>2, <2>1, <2>2 DEF PagerInv
<1>12. ~t.panic => SoundInv(t, A \cup {p}, n, written')
  <2> SUFFICES ASSUME ~t.panic PROVE SoundInv(t, A \cup {p}, n, written')
    OBVIOUS
  <2> DEFINE w == written'
             f == FrameFor(vm)
  <2>1. Framed(vm, s, f, A, n, written, << >>, p, 0, "PAGE_DIR") /\ StoreInv(s, A, n)
    BY <1>5, <1>8
  <2>2. f \in Frames
    BY <2>1 DEF Framed
  <2>3. \A q \in A : w[q] = written[q]
    BY <1>1, <1>3, <1>9
  <2>4. \A v \in 0..(n[p] - 1) : w[p][v] = NONE
    BY <1>1, <1>9
  <2>5. t = [z EXCEPT !.pd[p] = [d \in PdIdxs |-> NoPde]]
    BY <1>2
  <2>6. t \in VmType
    BY <1>8
  <2> HIDE DEF A, n, w, f, t
  <2>7. n \in [Procs -> Nat] /\ A \in SUBSET Procs /\ \A q \in A : n[q] <= MaxHeapSize
    BY <1>1
  <2>8. SoundInv(t, A \cup {p}, n, w)
    BY <1>3, <1>4, <1>5, <1>6, <2>1, <2>2, <2>3, <2>4, <2>5, <2>6, <2>7, CreateSound
  <2> QED
    BY <2>8 DEF w
<1> QED
  BY <1>2, <1>3, <1>8, <1>9, <1>10, <1>11, <1>12 DEF PagerInv, AgreeInv, Up

\* kill: the process leaves nothing behind.
LEMMA killPager ==
  ASSUME TypeInv, DiskInv, DiskInv', PagerInv, NEW p \in Procs, kill(p)
  PROVE  PagerInv'
<1> DEFINE A == Alive
           n == sys.hsize
           t == vm'
<1>1. /\ n \in [Procs -> Nat] /\ A \in SUBSET Procs /\ \A q \in A : n[q] <= MaxHeapSize
  BY SystemTyped
<1>2. /\ Up /\ t = FreeFramesOf(vm, p) /\ pc' = [pc EXCEPT ![p] = "none"]
      /\ sys' = sys /\ cr2' = cr2 /\ written' = written /\ lives' = lives
      /\ pc[p] # "none"
  BY DEF kill
<1>3. p \in A /\ Alive' = A \ {p}
  BY <1>2 DEF Alive, TypeInv
<1>4. vm \in VmType /\ SoundInv(vm, A, n, written) /\ StoreInv(vm, A, n)
  BY <1>2 DEF PagerInv, AgreeInv, DiskInv
<1>5. t \in VmType /\ Freed(vm, t, p)
  <2>1. Distinct(vm.fifo)
    BY <1>4 DEF SoundInv, ListInv
  <2> QED
    BY <1>2, <1>4, <2>1, KillEffect
<1>6. SoundInv(t, A \ {p}, n, written)
  <2>1. StoreInv(t, A \ {p}, n)
    BY <1>2, <1>3 DEF DiskInv
  <2> HIDE DEF A, n, t
  <2> QED
    BY <1>1, <1>3, <1>4, <1>5, <2>1, KillSound
<1> QED
  BY <1>2, <1>3, <1>5, <1>6 DEF PagerInv, AgreeInv, Heap

\* What the other steps that leave the written values alone have to show.
LEMMA samePager ==
  ASSUME PagerInv, sys' = sys, Alive' = Alive, written' = written, lives' = lives,
         cr2' \in Vpns, vm' \in VmType,
         Up' => SoundInv(vm', Alive, sys.hsize, written)
  PROVE  PagerInv'
BY DEF PagerInv, AgreeInv, Heap

\* The page table of a page that is present has a frame.
LEMMA TabPresent ==
  ASSUME NEW s, NEW A, NEW n, NEW wr, SoundInv(s, A, n, wr), NEW p \in A, NEW v \in Vpns,
         Present(s, p, v)
  PROVE  TabOf(s, p, v) \in Frames
<1>1. HasTab(s, p, PdIdx(v)) /\ PdIdx(v) \in PdIdxs
  BY PageNumbers DEF Present, HasTab
<1> QED
  BY <1>1 DEF SoundInv, MapsInv, TabInv, Tab, TabOf

\* A read changes the accessed bit at most.
LEMMA readPager ==
  ASSUME TypeInv, PagerInv, NEW v \in Vpns, read(v)
  PROVE  PagerInv'
<1> DEFINE A == Alive
           n == sys.hsize
           p == currpid
           t == SetUse(vm, p, v, 1)
<1>1. n \in [Procs -> Nat] /\ A \in SUBSET Procs /\ \A q \in A : n[q] <= MaxHeapSize
  BY SystemTyped
<1>2. /\ Up /\ p \in Procs /\ pc[p] = "user" /\ Present(vm, p, v) /\ vm' \in {vm, t}
      /\ sys' = sys /\ cr2' = cr2 /\ written' = written /\ lives' = lives /\ pc' = pc
  BY DEF read, At
<1>3. p \in A /\ Alive' = A
  BY <1>2 DEF Alive
<1>4. vm \in VmType /\ SoundInv(vm, A, n, written)
  BY <1>2 DEF PagerInv, AgreeInv
<1>5. t \in VmType /\ SoundInv(t, A, n, written)
  <2>1. TabOf(vm, p, v) \in Frames
    BY <1>2, <1>3, <1>4, TabPresent
  <2>2. t \in VmType /\ But(vm, t, {"pt"}) /\ SamePlaces(vm.pt, t.pt)
    BY <1>2, <1>4, <2>1, SetUseEffect
  <2> HIDE DEF A, n, p, t
  <2> QED
    BY <1>1, <1>4, <2>2, UseSound
<1>6. vm' \in VmType /\ SoundInv(vm', A, n, written)
  BY <1>2, <1>4, <1>5
<1>7. cr2' \in Vpns
  BY <1>2 DEF PagerInv
<1> QED
  BY <1>2, <1>3, <1>6, <1>7, samePager

\* A write changes one page, as the history says, and the bits at most.
LEMMA writePager ==
  ASSUME TypeInv, PagerInv, NEW v \in Vpns, NEW val \in Vals, write(v, val)
  PROVE  PagerInv'
<1> DEFINE A == Alive
           n == sys.hsize
           p == currpid
           s == [vm EXCEPT !.mem[Base(vm, p, v)] = val]
           t == SetUse(s, p, v, 2)
           w == written'
<1>1. n \in [Procs -> Nat] /\ A \in SUBSET Procs /\ \A q \in A : n[q] <= MaxHeapSize
  BY SystemTyped
<1>2. /\ Up /\ p \in Procs /\ pc[p] = "user" /\ v \in Heap(p) /\ Present(vm, p, v)
      /\ vm' \in {s, t}
      /\ sys' = sys /\ cr2' = cr2 /\ lives' = lives /\ pc' = pc
      /\ w = [written EXCEPT ![p][v] = val]
  BY DEF write, At, Base
<1>3. p \in A /\ Alive' = A
  BY <1>2 DEF Alive
<1>4. vm \in VmType /\ SoundInv(vm, A, n, written)
  BY <1>2 DEF PagerInv, AgreeInv
<1>5. v < n[p]
  BY <1>1, <1>2, <1>3 DEF Heap, Vpns
<1>6. /\ w = [q \in Procs |-> w[q]] /\ w[p] \in [Heap(p) -> Vals] /\ w[p][v] = val
      /\ \A q \in Procs : q # p => w[q] = written[q]
      /\ \A x \in Heap(p) : x # v => w[p][x] = written[p][x]
  BY <1>2 DEF PagerInv
<1>7. s \in VmType /\ SoundInv(s, A, n, w)
  <2>1. Rewrites(written, w, A, n, p, v, val)
    BY <1>1, <1>6 DEF Heap, Rewrites
  <2>3. s = [vm EXCEPT !.mem[Base(vm, p, v)] = val]
    OBVIOUS
  <2> HIDE DEF A, n, p, s, w
  <2> QED
    BY <1>1, <1>2, <1>3, <1>4, <1>5, <2>1, <2>3, WriteSound
<1>8. t \in VmType /\ SoundInv(t, A, n, w)
  <2>1. Present(s, p, v)
    <3>1. s.pd = vm.pd /\ s.pt = vm.pt
      BY <1>4 DEF VmType
    <3> HIDE DEF s
    <3> QED
      BY <1>2, <3>1 DEF Present, Pte, TabOf
  <2> HIDE DEF s, w
  <2>2. TabOf(s, p, v) \in Frames
    BY <1>3, <1>7, <2>1, TabPresent
  <2>3. t \in VmType /\ But(s, t, {"pt"}) /\ SamePlaces(s.pt, t.pt)
    BY <1>2, <1>7, <2>2, SetUseEffect
  <2> HIDE DEF A, n, p, t
  <2> QED
    BY <1>1, <1>7, <2>3, UseSound
<1>9. vm' \in VmType /\ SoundInv(vm', A, n, w)
  BY <1>2, <1>7, <1>8
<1>10. \A q \in Procs : w[q] \in [Heap(q)' -> Vals]
  <2>1. \A q \in Procs : Heap(q)' = Heap(q)
    BY <1>2 DEF Heap
  <2> QED
    BY <1>6, <2>1 DEF PagerInv
<1> QED
  BY <1>2, <1>3, <1>6, <1>9, <1>10 DEF PagerInv, AgreeInv

\* Without windows nobody waits for the handler, the process in or before it has the
\* CPU, and the page in CR2 is the one it faulted on.
SoloInv ==
    ~sys.windows =>
    /\ semqueue = << >>
    /\ \A p \in Procs : /\ pc[p] # "blocked"
                        /\ pc[p] \in {"enter", "handle", "release"} => currpid = p
                        /\ pc[p] \in {"enter", "handle"} => ~Present(vm, p, cr2)
    /\ ~semfree => currpid \in Procs /\ pc[currpid] \in {"handle", "release"}

\* Only a fault changes CR2, and until it is served its process keeps the CPU.
LEMMA SoloStep ==
  ASSUME TypeInv, SoloInv, [Next]_vars
  PROVE  SoloInv'
<1> SUFFICES ASSUME ~sys'.windows PROVE SoloInv'
  BY DEF SoloInv
<1> DEFINE Outside == \A q \in Procs : pc[q] \notin {"enter", "handle", "release"}
<1>1. sys' = sys
  BY DEF Next, vcreate, kill, read, write, fault, Handler, enterHandler, myPageFault,
         leaveHandler, preempt, idle, vars
<1>2. ~sys.windows /\ MAIN \notin Procs
  BY <1>1, PagingAssumption DEF MAIN
<1>3. currpid = MAIN \/ pc[currpid] = "user" => Outside /\ semfree
  BY <1>2 DEF SoloInv, TypeInv
<1>4. ASSUME Outside, semfree, semqueue' = semqueue, semfree' = semfree,
             \A q \in Procs : pc'[q] \in {pc[q], "user", "none"}
      PROVE  SoloInv'
  BY <1>2, <1>4 DEF SoloInv
<1>5. ASSUME NEW p \in Procs, vcreate(p) PROVE SoloInv'
  BY <1>3, <1>4, <1>5 DEF vcreate, TypeInv
<1>6. ASSUME NEW p \in Procs, kill(p) PROVE SoloInv'
  <2>1. pc[p] # "blocked" /\ Outside /\ semfree
    BY <1>2, <1>3, <1>6 DEF kill, SoloInv
  <2> QED
    BY <1>4, <1>6, <2>1 DEF kill, TypeInv
<1>7. ASSUME NEW v \in Vpns, read(v) \/ \E d \in Vals \ {0} : write(v, d) PROVE SoloInv'
  BY <1>3, <1>4, <1>7 DEF read, write, At
<1>8. ASSUME NEW v \in Vpns, fault(v) PROVE SoloInv'
  <2>1. /\ currpid \in Procs /\ pc[currpid] = "user" /\ ~Present(vm, currpid, v)
        /\ cr2' = v /\ vm' = vm /\ pc' = [pc EXCEPT ![currpid] = "enter"]
        /\ currpid' = currpid /\ semqueue' = semqueue /\ semfree' = semfree
    BY <1>8 DEF fault, At
  <2>2. Outside /\ semfree
    BY <1>3, <2>1
  <2> QED
    BY <1>2, <2>1, <2>2 DEF SoloInv, TypeInv
<1>9. ASSUME enterHandler PROVE SoloInv'
  <2>1. /\ currpid \in Procs /\ pc[currpid] = "enter" /\ cr2' = cr2 /\ vm' = vm
    BY <1>9 DEF enterHandler, At
  <2>2. semfree
    BY <1>2, <2>1 DEF SoloInv
  <2>3. /\ pc' = [pc EXCEPT ![currpid] = "handle"] /\ semfree' = FALSE
        /\ currpid' = currpid /\ semqueue' = semqueue
    BY <1>9, <2>2 DEF enterHandler
  <2> QED
    BY <1>2, <2>1, <2>3 DEF SoloInv, TypeInv
<1>10. ASSUME myPageFault PROVE SoloInv'
  <2>1. /\ currpid \in Procs /\ pc[currpid] = "handle"
        /\ pc' = [pc EXCEPT ![currpid] = "release"]
        /\ currpid' = currpid /\ semqueue' = semqueue /\ semfree' = semfree
    BY <1>10 DEF myPageFault, At
  <2> QED
    BY <1>2, <2>1 DEF SoloInv, TypeInv
<1>11. ASSUME leaveHandler PROVE SoloInv'
  <2>1. currpid \in Procs /\ pc[currpid] = "release" /\ Release
    BY <1>11 DEF leaveHandler, At
  <2>2. /\ pc' = [pc EXCEPT ![currpid] = "user"] /\ semfree' = TRUE
        /\ currpid' = currpid /\ semqueue' = semqueue
    BY <1>2, <2>1 DEF Release, SoloInv
  <2> QED
    BY <1>2, <2>1, <2>2 DEF SoloInv, TypeInv
<1>12. ASSUME NEW p \in Procs \cup {MAIN}, preempt(p) PROVE SoloInv'
  <2>1. /\ currpid \in Procs => pc[currpid] = "user"
        /\ pc' = pc /\ semqueue' = semqueue /\ semfree' = semfree
    BY <1>2, <1>12 DEF preempt
  <2>2. Outside /\ semfree
    BY <1>3, <2>1 DEF TypeInv
  <2> QED
    BY <1>4, <2>1, <2>2
<1>13. ASSUME idle \/ UNCHANGED vars PROVE SoloInv'
  <2>1. UNCHANGED vars
    BY <1>13 DEF idle
  <2> QED
    BY <1>2, <2>1 DEF SoloInv, vars
<1> QED
  BY <1>5, <1>6, <1>7, <1>8, <1>9, <1>10, <1>11, <1>12, <1>13 DEF Next, Handler

\* If the clock cannot interrupt the handler outside disable, a process is served the
\* page it faulted on: it is the windows alone that let another fault change CR2.
THEOREM OwnFaults == Spec => [](~sys.windows => OwnPage)
<1>1. Init => TypeInv /\ GateInv /\ SoloInv
  <2>1. Init => SoloInv
    BY DEF Init, SoloInv
  <2> QED
    BY <2>1, GateInit
<1>2. TypeInv /\ GateInv /\ [Next]_vars => TypeInv' /\ GateInv'
  BY GateStep
<1>3. TypeInv /\ SoloInv /\ [Next]_vars => SoloInv'
  BY SoloStep
<1>4. SoloInv => (~sys.windows => OwnPage)
  BY DEF SoloInv, OwnPage, At
<1> QED
  BY <1>1, <1>2, <1>3, <1>4, PTL DEF Spec

\* A fault is served: the page is in a frame, with what was written there.
LEMMA faultPager ==
  ASSUME TypeInv, GateInv, DiskInv, PagerInv, OwnPage, TableSpared, myPageFault
  PROVE  PagerInv'
<1> DEFINE A == Alive
           n == sys.hsize
           p == currpid
           v == cr2
           t == ServeFault(vm, p, v)
<1>1. /\ n \in [Procs -> Nat] /\ A \in SUBSET Procs /\ \A q \in A : n[q] <= MaxHeapSize
      /\ sys.policy \in {"FIFO", "GCA"}
      /\ \A q \in Procs : Heap(q) = 0..(n[q] - 1)
  BY SystemTyped
<1>2. /\ Up /\ p \in Procs /\ pc[p] = "handle" /\ vm' = IF v \in Heap(p) THEN t ELSE vm
      /\ cr2' = cr2 /\ written' = written /\ lives' = lives /\ At("handle")
  BY DEF myPageFault, At
<1>3. Alive' = A /\ sys' = sys /\ p \in A
  BY <1>2, AliveKept DEF Alive
<1>4. vm \in VmType /\ SoundInv(vm, A, n, written) /\ StoreInv(vm, A, n) /\ cr2' \in Vpns
  BY <1>2 DEF PagerInv, AgreeInv, DiskInv
<1>5. CASE v \in Heap(p)
  <2>1. vm' = t
    BY <1>2, <1>5
  <2>2. v \in 0..(n[p] - 1)
    BY <1>1, <1>2, <1>5
  <2>3. /\ ~Present(vm, p, v)
        /\ HasTab(vm, p, PdIdx(v)) /\ FreeFrames(vm) = {} /\ ~NoVictim(vm) =>
               ~LastOf(vm, Victim(vm), p, PdIdx(v))
    BY <1>2, <1>5 DEF OwnPage, TableSpared
  <2>4. t \in VmType /\ (~t.panic => SoundInv(t, A, n, written))
    <3> HIDE DEF A, n, p, v, t
    <3>1. ServeFault(vm, p, v) \in VmType
          /\ (~ServeFault(vm, p, v).panic => SoundInv(ServeFault(vm, p, v), A, n, written))
      BY <1>1, <1>3, <1>4, <2>2, <2>3, FaultServed
    <3> QED
      BY <3>1 DEF t
  <2>5. vm' \in VmType /\ (Up' => SoundInv(vm', A, n, written))
    BY <2>1, <2>4 DEF Up
  <2> QED
    BY <1>2, <1>3, <1>4, <2>5, samePager
<1>6. CASE v \notin Heap(p)
  <2>1. vm' = vm
    BY <1>2, <1>6
  <2> QED
    BY <1>2, <1>3, <1>4, <2>1, samePager
<1> QED
  BY <1>5, <1>6

\* Every step keeps the agreement, as long as the defects do not strike.
LEMMA PagerStep ==
  ASSUME TypeInv, GateInv, DiskInv, DiskInv', PagerInv, OwnPage, TableSpared,
         [Next]_vars
  PROVE  PagerInv'
<1>1. ASSUME vm' = vm, sys' = sys, Alive' = Alive, written' = written, lives' = lives,
             cr2' \in Vpns
      PROVE  PagerInv'
  <2>1. vm' \in VmType /\ (Up' => SoundInv(vm', Alive, sys.hsize, written))
    BY <1>1 DEF PagerInv, AgreeInv, Up
  <2> QED
    BY <1>1, <2>1, samePager
<1>2. cr2 \in Vpns
  BY DEF PagerInv
<1>3. ASSUME NEW v \in Vpns, fault(v) PROVE PagerInv'
  <2>1. vm' = vm /\ written' = written /\ lives' = lives /\ cr2' \in Vpns
    BY <1>3 DEF fault
  <2> QED
    BY <1>1, <1>3, <2>1, AliveKept
<1>4. ASSUME enterHandler \/ leaveHandler PROVE PagerInv'
  <2>1. vm' = vm /\ written' = written /\ lives' = lives /\ cr2' \in Vpns
    BY <1>2, <1>4 DEF enterHandler, leaveHandler
  <2> QED
    BY <1>1, <1>4, <2>1, AliveKept
<1>5. ASSUME (\E p \in Procs \cup {MAIN} : preempt(p)) \/ idle \/ UNCHANGED vars
      PROVE  PagerInv'
  <2>1. vm' = vm /\ sys' = sys /\ pc' = pc /\ written' = written /\ lives' = lives
        /\ cr2' \in Vpns
    BY <1>2, <1>5 DEF preempt, idle, vars
  <2> QED
    BY <1>1, <2>1 DEF Alive
<1>6. \A p \in Procs : vcreate(p) \/ kill(p) => PagerInv'
  BY vcreatePager, killPager
<1>7. \A v \in Vpns : read(v) \/ (\E d \in Vals \ {0} : write(v, d)) => PagerInv'
  BY readPager, writePager
<1>8. myPageFault => PagerInv'
  BY faultPager
<1> QED
  BY <1>3, <1>4, <1>5, <1>6, <1>7, <1>8 DEF Next, Handler

\* Spec /\ []FaultsApart => []PagerInv, with the types it needs.
LEMMA PagerInvariance == Spec /\ []FaultsApart => [](TypeInv /\ PagerInv)
<1>1. Init => TypeInv /\ GateInv /\ PagerInv
  BY GateInit, PagerInit
<1>2. TypeInv /\ GateInv /\ [Next]_vars => TypeInv' /\ GateInv'
  BY GateStep
<1>3. TypeInv /\ GateInv /\ DiskInv /\ DiskInv' /\ PagerInv /\ OwnPage /\ TableSpared
      /\ [Next]_vars => PagerInv'
  BY PagerStep
<1>4. Spec => [](TypeInv /\ DiskInv)
  BY DiskInvariance
<1>5. Spec => [](~sys.windows => OwnPage)
  BY OwnFaults
<1>6. FaultsApart /\ (~sys.windows => OwnPage) => OwnPage /\ TableSpared
  <2>1. CASE sys.windows
    BY <2>1 DEF FaultsApart
  <2>2. CASE ~sys.windows
    BY <2>2 DEF FaultsApart
  <2> QED
    BY <2>1, <2>2
<1> QED
  BY <1>1, <1>2, <1>3, <1>4, <1>5, <1>6, PTL DEF Spec

\* Whatever is created, killed, faulted on and replaced, under either policy: the
\* inverted page table, the page tables and the replacement list agree, as long as a
\* fault is served for its own page and does not replace the last page of the page
\* table it is about to use.
THEOREM FramesAgree == Spec /\ []FaultsApart => []FrameInv
<1>1. TypeInv /\ PagerInv => FrameInv
  <2> SUFFICES ASSUME TypeInv, PagerInv PROVE FrameInv
    OBVIOUS
  <2>1. TypeOK
    BY DEF TypeOK, TypeInv, PagerInv
  <2> SUFFICES ASSUME Up
               PROVE  /\ \A p \in Alive : \A v \in PagesOf(p) :
                            LET f == Pte(vm, p, v).base IN
                            vm.iv[f].valid = "PAGE" /\ vm.iv[f].pid = p /\ vm.iv[f].vpn = v
                      /\ \A f \in Frames : vm.iv[f].valid = "PAGE" =>
                            LET p == vm.iv[f].pid  v == vm.iv[f].vpn IN
                            p \in Alive /\ v \in PagesOf(p) /\ Pte(vm, p, v).base = f
                      /\ Range(vm.fifo) = {f \in Frames : vm.iv[f].valid = "PAGE"}
                      /\ IsInjective(vm.fifo)
                      /\ \A p \in Alive : \A d \in PdIdxs : vm.pd[p][d].pres =>
                            LET t == vm.pd[p][d].base IN
                            /\ vm.iv[t].valid = "PAGE_TAB" /\ vm.iv[t].pid = p
                            /\ vm.iv[t].ref = Cardinality({v \in PagesOf(p) : PdIdx(v) = d})
                            /\ vm.iv[t].ref > 0
    BY <2>1 DEF FrameInv
  <2> DEFINE A == Alive
             n == sys.hsize
  <2>2. vm \in VmType /\ ListInv(vm, {}) /\ MapsInv(vm, A, n, {}, << >>)
    BY DEF PagerInv, AgreeInv, SoundInv
  <2>3. MapInv(vm, A, n, {}) /\ TabInv(vm, A, {}, << >>)
    BY <2>2 DEF MapsInv
  <2>4. /\ A \in SUBSET Procs
        /\ \A p \in A : n[p] \in Nat /\ Heap(p) = 0..(n[p] - 1) /\ Heap(p) \subseteq Vpns
    BY SystemTyped
  <2>5. \A p \in A : \A v \in Vpns : Present(vm, p, v) <=> v \in PagesOf(p)
    BY <2>3, <2>4 DEF MapInv, PagesOf, Vpns
  <2>6. \A p \in A : PagesOf(p) \subseteq Vpns
    BY <2>4 DEF PagesOf
  <2>7. \A p \in A : \A v \in PagesOf(p) :
            LET f == Pte(vm, p, v).base IN
            vm.iv[f].valid = "PAGE" /\ vm.iv[f].pid = p /\ vm.iv[f].vpn = v
    BY <2>3, <2>5, <2>6 DEF MapInv, Base
  <2>8. \A f \in Frames : vm.iv[f].valid = "PAGE" =>
            LET p == vm.iv[f].pid  v == vm.iv[f].vpn IN
            p \in A /\ v \in PagesOf(p) /\ Pte(vm, p, v).base = f
    <3> SUFFICES ASSUME NEW f \in Frames, vm.iv[f].valid = "PAGE"
                 PROVE  LET p == vm.iv[f].pid  v == vm.iv[f].vpn IN
                        p \in A /\ v \in PagesOf(p) /\ Pte(vm, p, v).base = f
      OBVIOUS
    <3> DEFINE p == vm.iv[f].pid
               v == vm.iv[f].vpn
               t == TabOf(vm, p, v)
    <3>1. p \in A /\ v \in Vpns /\ Present(vm, p, v) /\ Base(vm, p, v) = f
      <4> HIDE DEF A, n
      <4> QED
        BY <2>2, <2>4, PageOfFrame
    <3> QED
      BY <2>5, <3>1 DEF Base
  <2>9. Range(vm.fifo) = {f \in Frames : vm.iv[f].valid = "PAGE"}
    <3>1. vm.fifo \in Seq(Frames)
      BY <2>2, VmTyped
    <3>2. \A f : f \in Range(vm.fifo) <=> Has(vm.fifo, f)
      BY <3>1 DEF Range, Has
    <3>3. \A f : Has(vm.fifo, f) => f \in Frames
      BY <3>1 DEF Has
    <3> QED
      BY <2>2, <3>2, <3>3 DEF ListInv
  <2>10. IsInjective(vm.fifo)
    <3>1. vm.fifo \in Seq(Frames) /\ Distinct(vm.fifo)
      BY <2>2, VmTyped DEF ListInv
    <3> QED
      BY <3>1 DEF IsInjective, Distinct
  <2>11. ASSUME NEW p \in A, NEW d \in PdIdxs, vm.pd[p][d].pres
         PROVE  LET t == vm.pd[p][d].base IN
                /\ vm.iv[t].valid = "PAGE_TAB" /\ vm.iv[t].pid = p
                /\ vm.iv[t].ref = Cardinality({v \in PagesOf(p) : PdIdx(v) = d})
                /\ vm.iv[t].ref > 0
    <3> DEFINE t == vm.pd[p][d].base
               P == Pages(vm, p, d)
    <3>1. /\ vm.iv[t].valid = "PAGE_TAB" /\ vm.iv[t].pid = p
          /\ vm.iv[t].ref = Cardinality(P) /\ P # {}
      <4>1. HasTab(vm, p, d) /\ Tab(vm, p, d) = t /\ <<p, d>> # << >>
        BY <2>11 DEF HasTab, Tab
      <4> HIDE DEF t, P
      <4>2. /\ vm.iv[Tab(vm, p, d)].valid = "PAGE_TAB" /\ vm.iv[Tab(vm, p, d)].pid = p
            /\ vm.iv[Tab(vm, p, d)].ref = Cardinality(Pages(vm, p, d))
            /\ Pages(vm, p, d) # {}
        BY <2>3, <4>1 DEF TabInv
      <4> QED
        BY <4>1, <4>2 DEF P
    <3>2. P = {v \in PagesOf(p) : PdIdx(v) = d}
      BY <2>5, <2>6 DEF Pages
    <3>3. Cardinality(P) > 0
      <4>1. IsFiniteSet(P) /\ Cardinality(P) \in Nat
        BY PagesFinite
      <4>2. Cardinality(P) # 0
        BY <3>1, <4>1, FS_EmptySet
      <4> QED
        BY <4>1, <4>2
    <3> QED
      BY <3>1, <3>2, <3>3
  <2> QED
    BY <2>7, <2>8, <2>9, <2>10, <2>11
<1> QED
  BY <1>1, PagerInvariance, PTL

\* On the same condition: a process finds in each of its pages what it last wrote
\* there, whether the page stayed in memory or was replaced.
THEOREM DataKept == Spec /\ []FaultsApart => []DataIntact
<1>1. TypeInv /\ PagerInv => DataIntact
  <2> SUFFICES ASSUME TypeInv, PagerInv, Up, NEW p \in Alive, NEW v \in Heap(p),
                      written[p][v] # NONE
               PROVE  IF Present(vm, p, v)
                      THEN vm.mem[Pte(vm, p, v).base] = written[p][v]
                      ELSE vm.disk[Place(vm, p, v)] = written[p][v]
    BY DEF DataIntact
  <2>1. HeldInv(vm, Alive, sys.hsize, written)
    BY DEF PagerInv, AgreeInv, SoundInv
  <2>2. v \in 0..(sys.hsize[p] - 1)
    BY SystemTyped DEF Heap
  <2> QED
    BY <2>1, <2>2 DEF HeldInv, Base
<1> QED
  BY <1>1, PagerInvariance, PTL

----------------------------------------------------------------------------
\* The system does not stop.

\* kill takes frames off the list one by one, from the oldest on.
LEMMA UnlinkSteps ==
  ASSUME NEW S, NEW q \in Seq(S), NEW F
  PROVE  \E g : /\ Unlink(q, F) = g[Len(q)]
                /\ g[0] = << >>
                /\ \A i \in 1..Len(q) :
                      g[i] = IF q[i] \in F THEN g[i - 1] ELSE Append(g[i - 1], q[i])
<1> DEFINE N == Len(q)
           g == CHOOSE h : IsLeft(h, q, F, N)
<1>1. N \in Nat
  BY LenProperties
<1>2. Unlink(q, F) = g[N]
  BY DEF Unlink, IsLeft
<1>3. IsLeft(g, q, F, N)
  <2>1. \E h : IsLeft(h, q, F, N)
    <3> HIDE DEF N
    <3> QED
      BY <1>1, LeftExists
  <2> QED
    BY <2>1
<1> HIDE DEF g
<1>4. /\ g[0] = << >>
      /\ \A i \in 1..N : g[i] = IF q[i] \in F THEN g[i - 1] ELSE Append(g[i - 1], q[i])
  <2> HIDE DEF N
  <2>1. 0 \in 0..N /\ \A i \in 1..N : i \in 0..N /\ i # 0
    BY <1>1
  <2> QED
    BY <1>3, <2>1 DEF IsLeft
<1> QED
  BY <1>2, <1>4

\* Either something goes or the list stays as it is.
LEMMA UnlinkLength ==
  ASSUME NEW S, NEW q \in Seq(S), NEW F
  PROVE  /\ Len(Unlink(q, F)) <= Len(q)
         /\ Len(Unlink(q, F)) = Len(q) => Unlink(q, F) = q
<1> DEFINE N == Len(q)
<1>1. N \in Nat /\ \A i \in 1..N : q[i] \in S
  BY LenProperties
<1>2. PICK g : /\ Unlink(q, F) = g[N] /\ g[0] = << >>
               /\ \A i \in 1..N : g[i] = IF q[i] \in F THEN g[i - 1]
                                         ELSE Append(g[i - 1], q[i])
  BY UnlinkSteps
<1> DEFINE J(i) == /\ g[i] \in Seq(S) /\ Len(g[i]) <= i
                   /\ Len(g[i]) = i => \A j \in 1..i : g[i][j] = q[j]
           T == {i \in 0..N : ~J(i)}
<1> HIDE DEF N
<1>3. J(0)
  BY <1>2
<1>4. ASSUME NEW i \in 1..N, J(i - 1) PROVE J(i)
  <2> DEFINE h == g[i - 1]
             e == q[i]
  <2>1. i \in Nat /\ i - 1 \in Nat /\ e \in S /\ h \in Seq(S) /\ Len(h) \in Nat
    BY <1>1, <1>4, LenProperties
  <2>2. CASE e \in F
    <3>1. g[i] = h
      BY <1>2, <2>2
    <3> QED
      BY <1>4, <2>1, <3>1
  <2>3. CASE e \notin F
    <3>1. g[i] = Append(h, e)
      BY <1>2, <2>3
    <3>2. Len(h) <= i - 1 /\ (Len(h) = i - 1 => \A j \in 1..(i - 1) : h[j] = q[j])
      BY <1>4
    <3> HIDE DEF h
    <3>3. /\ Append(h, e) \in Seq(S) /\ Len(Append(h, e)) = Len(h) + 1
          /\ \A j \in 1..Len(h) : Append(h, e)[j] = h[j]
          /\ Append(h, e)[Len(h) + 1] = e
      BY <2>1, AppendProperties
    <3> HIDE DEF e
    <3>4. ASSUME Len(g[i]) = i, NEW j \in 1..i PROVE g[i][j] = q[j]
      BY <2>1, <3>1, <3>2, <3>3, <3>4 DEF e
    <3> QED
      BY <2>1, <3>1, <3>2, <3>3, <3>4
  <2> QED
    BY <2>2, <2>3
<1> HIDE DEF J
<1>5. J(N)
  <2>1. CASE T = {}
    BY <1>1, <2>1
  <2>2. CASE T # {}
    <3> DEFINE k == Min(T)
    <3>1. k \in T /\ \A y \in T : k <= y
      <4>1. T \subseteq Nat
        BY <1>1
      <4> HIDE DEF T
      <4> QED
        BY <2>2, <4>1, LeastNat
    <3> HIDE DEF k
    <3>2. k \in 0..N /\ ~J(k) /\ k # 0
      BY <1>3, <3>1
    <3>3. k \in 1..N /\ k - 1 \in 0..N /\ ~(k <= k - 1)
      BY <1>1, <3>2
    <3>4. k - 1 \notin T
      <4> HIDE DEF T
      <4> QED
        BY <3>1, <3>3
    <3>5. J(k - 1)
      BY <3>3, <3>4
    <3> QED
      BY <1>4, <3>2, <3>3, <3>5
  <2> QED
    BY <2>1, <2>2
<1>6. /\ g[N] \in Seq(S) /\ Len(g[N]) <= N
      /\ Len(g[N]) = N => \A j \in 1..N : g[N][j] = q[j]
  BY <1>5 DEF J
<1>7. Len(g[N]) = N => g[N] = q
  BY <1>6, SeqEqual DEF N
<1> QED
  BY <1>2, <1>6, <1>7 DEF N

\* When the oldest goes, the rest is what is left.
LEMMA UnlinkFirst ==
  ASSUME NEW S, NEW q \in Seq(S), Distinct(q), q # << >>
  PROVE  Unlink(q, {Head(q)}) = Tail(q)
<1> DEFINE N == Len(q)
           F == {Head(q)}
<1>1. /\ N \in Nat /\ N >= 1 /\ Head(q) = q[1] /\ \A i \in 1..N : q[i] \in S
      /\ Tail(q) \in Seq(S) /\ Len(Tail(q)) = N - 1
      /\ \A i \in 1..(N - 1) : Tail(q)[i] = q[i + 1]
  BY LenProperties, HeadTailProperties, EmptySeq
<1>2. PICK g : /\ Unlink(q, F) = g[N] /\ g[0] = << >>
               /\ \A i \in 1..N : g[i] = IF q[i] \in F THEN g[i - 1]
                                         ELSE Append(g[i - 1], q[i])
  BY UnlinkSteps
<1>d. \A i \in 1..N : q[i] \in F <=> i = 1
  BY <1>1 DEF Distinct
<1> DEFINE J(i) == /\ g[i] \in Seq(S) /\ Len(g[i]) = i - 1
                   /\ \A j \in 1..(i - 1) : g[i][j] = q[j + 1]
           T == {i \in 1..N : ~J(i)}
<1> HIDE DEF N, F
<1>3. J(1)
  <2>1. 1 \in 1..N /\ g[1] = << >>
    BY <1>1, <1>2, <1>d
  <2> QED
    BY <2>1
<1>4. ASSUME NEW i \in 2..N, J(i - 1) PROVE J(i)
  <2> DEFINE h == g[i - 1]
             e == q[i]
  <2>1. /\ i \in Nat /\ i - 1 \in Nat /\ e \in S /\ h \in Seq(S) /\ Len(h) = i - 2
        /\ \A j \in 1..(i - 2) : h[j] = q[j + 1]
    BY <1>1, <1>4
  <2>0. i \in 1..N /\ i # 1
    BY <1>1
  <2>2. g[i] = Append(h, e)
    <3>1. q[i] \notin F
      BY <1>d, <2>0
    <3> QED
      BY <1>2, <2>0, <3>1
  <2> HIDE DEF h
  <2>3. /\ Append(h, e) \in Seq(S) /\ Len(Append(h, e)) = Len(h) + 1
        /\ \A j \in 1..Len(h) : Append(h, e)[j] = h[j]
        /\ Append(h, e)[Len(h) + 1] = e
    BY <2>1, AppendProperties
  <2> HIDE DEF e
  <2>4. ASSUME NEW j \in 1..(i - 1) PROVE g[i][j] = q[j + 1]
    BY <2>1, <2>2, <2>3, <2>4 DEF e
  <2> QED
    BY <2>1, <2>2, <2>3, <2>4
<1> HIDE DEF J
<1>5. J(N)
  <2>1. CASE T = {}
    BY <1>1, <2>1
  <2>2. CASE T # {}
    <3> DEFINE k == Min(T)
    <3>1. k \in T /\ \A y \in T : k <= y
      <4>1. T \subseteq Nat
        BY <1>1
      <4> HIDE DEF T
      <4> QED
        BY <2>2, <4>1, LeastNat
    <3> HIDE DEF k
    <3>2. k \in 1..N /\ ~J(k) /\ k # 1
      BY <1>3, <3>1
    <3>3. k \in 2..N /\ k - 1 \in 1..N /\ ~(k <= k - 1)
      BY <1>1, <3>2
    <3>4. k - 1 \notin T
      <4> HIDE DEF T
      <4> QED
        BY <3>1, <3>3
    <3>5. J(k - 1)
      BY <3>3, <3>4
    <3> QED
      BY <1>4, <3>2, <3>3, <3>5
  <2> QED
    BY <2>1, <2>2
<1>6. /\ g[N] \in Seq(S) /\ Len(g[N]) = N - 1
      /\ \A j \in 1..(N - 1) : g[N][j] = q[j + 1]
  BY <1>5 DEF J
<1>7. g[N] = Tail(q)
  BY <1>1, <1>6, SeqEqual
<1> QED
  BY <1>2, <1>7 DEF F
----------------------------------------------------------------------------
\* Why the pager panics.

\* A place for the page directory of each process, and one for each page table.
Slots(n) ==
    {e \in Procs \X (PdIdxs \cup {-1}) :
        e[2] = -1 \/ \E v \in 0..(n[e[1]] - 1) : e[2] = PdIdx(v)}

\* There are more frames than directories and tables of all heaps.
TablesFit ==
    /\ IsFiniteSet(Procs)
    /\ \A s \in Systems :
          Cardinality({f \in Frames : f <= s.nframes}) > Cardinality(Slots(s.hsize))

\* A process has one page directory.
DirInv(s) ==
    \A f, g \in Frames :
        s.iv[f].valid = "PAGE_DIR" /\ s.iv[g].valid = "PAGE_DIR" /\ s.iv[f].pid = s.iv[g].pid
            => f = g

\* A frame with a page table, other than those in X, is in its directory.
TableInv(s, X) ==
    \A f \in Frames \ X : s.iv[f].valid = "PAGE_TAB" =>
        \E d \in PdIdxs : HasTab(s, s.iv[f].pid, d) /\ Tab(s, s.iv[f].pid, d) = f

\* The hooks h have noted the pages in the frames of q, in that order, or more.
Noted(q, iv, h) ==
    /\ Len(q) <= Len(h)
    /\ Len(q) = Len(h) => \A i \in 1..Len(q) : h[i] = <<iv[q[i]].pid, iv[q[i]].vpn>>

\* The check of the hooks is made.
Watched == sys.policy = "FIFO" /\ PolicyTesting

HookInv(s) == Watched => Noted(s.fifo, s.iv, s.hooks)

\* The frames with a directory or a table, other than those in X, are where they belong.
Tidy(s, X) == DirInv(s) /\ TableInv(s, X)

\* What explains a panic: the disk ends before a page of a process in A, the hooks
\* expect more than is on the list, the hand is not on it.
Short(s, A, n) == \E p \in A : \E v \in 0..(n[p] - 1) : ~OnDisk(Place(s, p, v))
Behind(s) == Watched /\ Len(s.fifo) < Len(s.hooks)
Lost(s) == sys.policy = "GCA" /\ FreeFrames(s) = {} /\ s.hand \notin {HEAD} \cup Range(s.fifo)

\* The step from s to t did not panic for another reason.
Excused(s, t, A, n) == t.panic => Short(s, A, n) \/ Behind(t) \/ Lost(t)

\* The directory entries of c are of a page of the heap.
InHeap(c, A, n) == \A p, d : c = <<p, d>> => p \in A /\ \E v \in 0..(n[p] - 1) : d = PdIdx(v)

\* There are finitely many of these places.
LEMMA SlotsFinite ==
  ASSUME IsFiniteSet(Procs), NEW n
  PROVE  IsFiniteSet(Slots(n)) /\ Cardinality(Slots(n)) \in Nat
<1>1. PdIdxs \subseteq Vpns /\ IsFiniteSet(Vpns)
  <2>1. MaxHeapSize \in Nat /\ PageTabSize \in Nat \ {0}
    BY PagingAssumption
  <2>2. IsFiniteSet(Vpns)
    BY <2>1, FS_Interval DEF Vpns
  <2>3. ASSUME NEW v \in Vpns PROVE PdIdx(v) \in Vpns
    <3> DEFINE d == PdIdx(v)
               k == PageTabSize
    <3>1. v \in Nat /\ d \in Nat /\ v = k * d + PtIdx(v) /\ PtIdx(v) \in Nat
      BY <2>1 DEF Vpns, PdIdx, PtIdx
    <3> HIDE DEF d
    <3>2. k * d >= d
      BY <2>1, <3>1
    <3>3. d <= v
      BY <2>1, <3>1, <3>2
    <3> QED
      BY <2>1, <3>1, <3>3 DEF Vpns, d
  <2> QED
    BY <2>2, <2>3 DEF PdIdxs
<1>2. IsFiniteSet(PdIdxs \cup {-1})
  BY <1>1, FS_Subset, FS_Singleton, FS_Union
<1>3. IsFiniteSet(Procs \X (PdIdxs \cup {-1}))
  BY <1>2, FS_Product
<1>4. Slots(n) \subseteq Procs \X (PdIdxs \cup {-1})
  BY DEF Slots
<1> QED
  BY <1>3, <1>4, FS_Subset, FS_CardinalityType

\* If there are more frames than directories and tables, a page is on the list when
\* no frame is free.
LEMMA VictimThere ==
  ASSUME NEW s \in VmType, NEW A \in SUBSET Procs, NEW n, NEW c, Usable(s, A, n, {}, c),
         InHeap(c, A, n), \A q \in A : n[q] \in Nat, Tidy(s, {}), FreeFrames(s) = {},
         IsFiniteSet(Procs),
         Cardinality({f \in Frames : f <= sys.nframes}) > Cardinality(Slots(n))
  PROVE  s.fifo # << >>
<1> DEFINE G == {f \in Frames : f <= sys.nframes}
<1> SUFFICES ASSUME s.fifo = << >> PROVE FALSE
  OBVIOUS
<1>1. /\ ListInv(s, {}) /\ OwnInv(s, A) /\ MapInv(s, A, n, {}) /\ TabInv(s, A, {}, c)
      /\ DirInv(s) /\ TableInv(s, {})
  BY DEF Usable, MapsInv, Tidy
<1>2. ASSUME NEW f \in G
      PROVE  /\ s.iv[f].valid \in {"PAGE_DIR", "PAGE_TAB"} /\ s.iv[f].pid \in A
  <2>1. s.iv[f].valid # "PAGE"
    <3>1. ~Has(s.fifo, f)
      BY DEF Has
    <3> QED
      BY <1>1, <3>1 DEF ListInv
  <2>2. s.iv[f].valid # "NULL_PAGE"
    BY DEF FreeFrames
  <2>3. s.iv[f].valid \in {"NULL_PAGE", "PAGE_DIR", "PAGE_TAB", "PAGE"}
    BY EntriesTyped DEF IvEntry
  <2> QED
    BY <1>1, <2>1, <2>2, <2>3 DEF OwnInv
<1>3. ASSUME NEW p \in A, NEW d \in PdIdxs, HasTab(s, p, d)
      PROVE  <<p, d>> \in Slots(n)
  <2>1. \E v \in 0..(n[p] - 1) : d = PdIdx(v)
    <3>1. CASE <<p, d>> = c
      BY <3>1 DEF InHeap
    <3>2. CASE <<p, d>> # c
      <4>1. Pages(s, p, d) # {}
        BY <1>1, <1>3, <3>2 DEF TabInv
      <4>2. PICK v \in Vpns : Present(s, p, v) /\ PdIdx(v) = d
        BY <4>1 DEF Pages
      <4>3. v < n[p] /\ v \in Nat /\ n[p] \in Nat
        BY <1>1, <4>2, PageNumbers DEF MapInv
      <4>4. v \in 0..(n[p] - 1)
        BY <4>3
      <4> QED
        BY <4>2, <4>4
    <3> QED
      BY <3>1, <3>2
  <2> QED
    BY <2>1 DEF Slots
<1> DEFINE E(f) == CHOOSE d \in PdIdxs : HasTab(s, s.iv[f].pid, d) /\ Tab(s, s.iv[f].pid, d) = f
           h == [f \in G |-> <<s.iv[f].pid, IF s.iv[f].valid = "PAGE_DIR" THEN -1 ELSE E(f)>>]
<1>4. ASSUME NEW f \in G, s.iv[f].valid = "PAGE_TAB"
      PROVE  E(f) \in PdIdxs /\ HasTab(s, s.iv[f].pid, E(f)) /\ Tab(s, s.iv[f].pid, E(f)) = f
  BY <1>1, <1>4 DEF TableInv
<1> HIDE DEF E
<1>5. -1 \notin PdIdxs
  <2>1. \A v \in Vpns : PdIdx(v) # -1
    <3> TAKE v \in Vpns
    <3>1. v \in Nat /\ PageTabSize \in Nat \ {0}
      BY PageNumbers, PagingAssumption
    <3> QED
      BY <3>1 DEF PdIdx
  <2> QED
    BY <2>1 DEF PdIdxs
<1>6. ASSUME NEW f \in G PROVE h[f] \in Slots(n)
  <2>1. CASE s.iv[f].valid = "PAGE_DIR"
    <3>1. h[f] = <<s.iv[f].pid, -1>> /\ s.iv[f].pid \in Procs
      BY <1>2, <2>1
    <3> HIDE DEF h
    <3> QED
      BY <3>1 DEF Slots
  <2>2. CASE s.iv[f].valid = "PAGE_TAB"
    <3>1. h[f] = <<s.iv[f].pid, E(f)>> /\ s.iv[f].pid \in A
      BY <1>2, <2>2
    <3> QED
      BY <1>3, <1>4, <2>2, <3>1
  <2> QED
    BY <1>2, <2>1, <2>2
<1>7. ASSUME NEW f \in G, NEW g \in G, h[f] = h[g] PROVE f = g
  <2>0. f \in Frames /\ g \in Frames /\ s.iv[f].pid = s.iv[g].pid
    BY <1>7
  <2>1. CASE s.iv[f].valid = "PAGE_DIR" /\ s.iv[g].valid = "PAGE_DIR"
    BY <1>1, <2>0, <2>1 DEF DirInv
  <2>2. CASE s.iv[f].valid = "PAGE_TAB" /\ s.iv[g].valid = "PAGE_TAB"
    <3>1. E(f) = E(g)
      BY <1>7, <2>2
    <3> QED
      BY <1>4, <2>0, <2>2, <3>1
  <2>3. CASE s.iv[f].valid = "PAGE_DIR" /\ s.iv[g].valid = "PAGE_TAB"
    BY <1>4, <1>5, <1>7, <2>3
  <2>4. CASE s.iv[f].valid = "PAGE_TAB" /\ s.iv[g].valid = "PAGE_DIR"
    BY <1>4, <1>5, <1>7, <2>4
  <2> QED
    BY <1>2, <2>1, <2>2, <2>3, <2>4
<1>8. h \in Injection(G, Slots(n))
  <2>1. h \in [G -> Slots(n)]
    BY <1>6
  <2> QED
    BY <1>7, <2>1 DEF Injection, IsInjective
<1>9. Cardinality(G) <= Cardinality(Slots(n)) /\ IsFiniteSet(G)
  <2> HIDE DEF h, G
  <2> QED
    BY <1>8, SlotsFinite, FS_Injection
<1>10. Cardinality(G) \in Nat /\ Cardinality(Slots(n)) \in Nat
  BY <1>9, SlotsFinite, FS_CardinalityType
<1> QED
  BY <1>9, <1>10

\* The page of a living process has a place, unless the disk ends before it.
LEMMA PlaceOrShort ==
  ASSUME NEW s, NEW A, NEW n, A \subseteq Procs, n \in [Procs -> Nat],
         StoreInv(s, A, n), NEW p \in A, NEW v \in 0..(n[p] - 1)
  PROVE  HasPlace(s, p, v) \/ Short(s, A, n)
BY PlaceNumber DEF Short

\* Nothing but bstab and bsmap decides where the pages lie.
LEMMA ShortKept ==
  ASSUME NEW s, NEW t, Kept(s, t), NEW A, NEW n, StoreInv(s, A, n)
  PROVE  Short(s, A, n) <=> Short(t, A, n)
<1>1. t.bsmap = s.bsmap
  BY DEF Kept, StoreInv
<1> QED
  BY <1>1, PlaceSame DEF Short

\* A page table is still in its directory if neither was touched.
LEMMA TableThere ==
  ASSUME NEW s, NEW t, NEW X, TableInv(s, X), NEW f \in Frames, f \notin X,
         s.iv[f].valid = "PAGE_TAB", t.iv[f].pid = s.iv[f].pid,
         t.pd[s.iv[f].pid] = s.pd[s.iv[f].pid]
  PROVE  \E d \in PdIdxs : HasTab(t, t.iv[f].pid, d) /\ Tab(t, t.iv[f].pid, d) = f
<1>1. PICK d \in PdIdxs : HasTab(s, s.iv[f].pid, d) /\ Tab(s, s.iv[f].pid, d) = f
  BY DEF TableInv
<1>2. HasTab(t, t.iv[f].pid, d) /\ Tab(t, t.iv[f].pid, d) = f
  BY <1>1 DEF HasTab, Tab
<1> QED
  BY <1>2

\* The page in frame f goes: under FIFO the one that came first.  It has a place unless
\* the disk is short, and the hooks agree unless they are behind.
LEMMA EvictCalm ==
  ASSUME NEW s \in VmType, NEW A \in SUBSET Procs, NEW n \in [Procs -> Nat], NEW c,
         Usable(s, A, n, {}, c), StoreInv(s, A, n), Tidy(s, {}), HookInv(s), ~s.panic,
         NEW f \in Frames, s.iv[f].valid = "PAGE",
         sys.policy = "FIFO" => s.fifo # << >> /\ f = Head(s.fifo), NEW u, u = Evict(s, f)
  PROVE  /\ ~u.panic => Tidy(u, {}) /\ HookInv(u)
         /\ u.panic => Short(s, A, n) \/ (Watched /\ Len(u.fifo) + 1 < Len(u.hooks))
<1> DEFINE p == s.iv[f].pid
           v == s.iv[f].vpn
           g == TabOf(s, p, v)
           q == s.fifo
<1>1. /\ ListInv(s, {}) /\ MapsInv(s, A, n, {}, c) /\ OwnInv(s, A) /\ TabInv(s, A, {}, c)
      /\ DirInv(s) /\ TableInv(s, {}) /\ q \in Seq(Frames) /\ Distinct(q)
      /\ s.hooks \in Seq(Procs \X Vpns)
  BY VmTyped DEF Usable, MapsInv, ListInv, Tidy
<1>2. Watched => /\ Tail(q) \in Seq(Frames) /\ Len(Tail(q)) = Len(q) - 1
                 /\ \A x : Has(Tail(q), x) <=> Has(q, x) /\ x # f
                 /\ Unlink(q, {f}) = Tail(q)
  BY <1>1, TailMembers, UnlinkFirst DEF Watched
<1>3. /\ p \in A /\ v \in Vpns /\ v < n[p] /\ g \in Frames /\ g # f
      /\ s.iv[g].valid = "PAGE_TAB" /\ s.iv[g].pid = p
      /\ PdIdx(v) \in PdIdxs /\ g = Tab(s, p, PdIdx(v))
  <2>1. /\ s \in VmType /\ A \in SUBSET Procs /\ MapsInv(s, A, n, {}, c)
        /\ f \in Frames /\ s.iv[f].valid = "PAGE"
    BY <1>1
  <2>2. p = s.iv[f].pid /\ v = s.iv[f].vpn /\ g = TabOf(s, p, v)
    OBVIOUS
  <2> HIDE DEF p, v, g
  <2> QED
    BY ONLY <2>1, <2>2, PageOfFrame
<1>4. /\ u \in VmType /\ Evicted(s, u, f, p, v, g)
      /\ \E r \in VmType : /\ u = hook_pswap_out(r, p, v) /\ r.hooks = s.hooks
                           /\ r.panic = write_bs(s, p, v, f).panic
  <2>1. p \in Procs
    BY <1>3
  <2>2. p = s.iv[f].pid /\ v = s.iv[f].vpn /\ g = TabOf(s, p, v)
    OBVIOUS
  <2>3. /\ Distinct(s.fifo) /\ f \in Frames /\ v \in Vpns /\ g \in Frames
        /\ s.iv[g].valid = "PAGE_TAB"
    BY <1>1, <1>3
  <2> HIDE DEF p, v, g
  <2> DEFINE w == Evict(s, f)
  <2>4. /\ w \in VmType /\ Evicted(s, w, f, p, v, g)
        /\ \E r \in VmType : /\ w = hook_pswap_out(r, p, v) /\ r.hooks = s.hooks
                             /\ r.panic = write_bs(s, p, v, f).panic
    BY ONLY s \in VmType, <2>1, <2>2, <2>3, EvictEffect
  <2>5. u = w
    OBVIOUS
  <2> HIDE DEF w
  <2> QED
    BY <2>4, <2>5
<1>5. write_bs(s, p, v, f).panic => Short(s, A, n)
  <2>1. v \in 0..(n[p] - 1)
    <3>1. n[p] \in Nat /\ v \in Nat /\ v < n[p]
      BY <1>3, PageNumbers
    <3> HIDE DEF p, v
    <3> QED
      BY ONLY <3>1
  <2>2. HasPlace(s, p, v) \/ Short(s, A, n)
    <3> HIDE DEF p, v
    <3>1. A \subseteq Procs
      OBVIOUS
    <3> QED
      BY <1>3, <2>1, <3>1, PlaceOrShort
  <2>3. HasPlace(s, p, v) => write_bs(s, p, v, f).panic = s.panic
    BY DEF write_bs, VmType
  <2> QED
    BY <2>2, <2>3
<1>6. /\ u.fifo = Unlink(q, {f})
      /\ \A x \in Frames : x # g => u.iv[x] = s.iv[x]
      /\ u.iv[g].pid = s.iv[g].pid
      /\ u.iv[g].valid = IF s.iv[g].ref = 1 THEN "NULL_PAGE" ELSE s.iv[g].valid
      /\ \A x \in Procs : \A e \in PdIdxs :
            /\ u.pd[x][e].base = s.pd[x][e].base
            /\ <<x, e>> # <<p, PdIdx(v)>> => u.pd[x][e] = s.pd[x][e]
      /\ u.pd[p][PdIdx(v)].pres <=> s.pd[p][PdIdx(v)].pres /\ s.iv[g].ref # 1
  BY <1>4 DEF Evicted, Unmaps, Uncounts
<1>7. ASSUME Watched, Len(s.hooks) = Len(q)
      PROVE  /\ s.hooks # << >> /\ Head(s.hooks) = <<p, v>>
             /\ \A i \in 1..(Len(q) - 1) : /\ Tail(s.hooks)[i] = s.hooks[i + 1]
                                           /\ Tail(q)[i] = q[i + 1]
             /\ \A i \in 1..Len(q) : s.hooks[i] = <<s.iv[q[i]].pid, s.iv[q[i]].vpn>>
  <2>1. Len(q) \in Nat /\ Len(q) >= 1 /\ Head(q) = q[1]
        /\ \A i \in 1..(Len(q) - 1) : Tail(q)[i] = q[i + 1]
    BY <1>1, <1>7, LenProperties, HeadTailProperties, EmptySeq DEF Watched
  <2>2. s.hooks # << >>
    BY <1>1, <1>7, <2>1, EmptySeq
  <2>3. /\ Head(s.hooks) = s.hooks[1]
        /\ \A i \in 1..(Len(s.hooks) - 1) : Tail(s.hooks)[i] = s.hooks[i + 1]
    BY <1>1, <2>2, HeadTailProperties
  <2>4. \A i \in 1..Len(q) : s.hooks[i] = <<s.iv[q[i]].pid, s.iv[q[i]].vpn>>
    BY <1>7, <2>1 DEF HookInv, Noted
  <2>5. s.hooks[1] = <<p, v>>
    <3>1. 1 \in 1..Len(q) /\ q[1] = f
      BY <1>7, <2>1 DEF Watched
    <3> QED
      BY <2>4, <3>1
  <2> HIDE DEF q
  <2> QED
    BY <1>7, <2>1, <2>2, <2>3, <2>4, <2>5
<1>8. /\ u.panic => Short(s, A, n) \/ (Watched /\ Len(q) # Len(s.hooks) /\ u.hooks = s.hooks)
      /\ ~u.panic /\ Watched => s.hooks # << >> /\ u.hooks = Tail(s.hooks)
  <2>1. PICK r \in VmType : /\ u = hook_pswap_out(r, p, v) /\ r.hooks = s.hooks
                            /\ r.panic = write_bs(s, p, v, f).panic
    BY <1>4
  <2> HIDE DEF p, v, q
  <2>2. CASE Watched /\ s.hooks # << >> /\ Head(s.hooks) = <<p, v>>
    <3>1. u = [r EXCEPT !.hooks = Tail(@)]
      BY <2>1, <2>2 DEF hook_pswap_out, Watched
    <3> QED
      BY <1>5, <2>1, <2>2, <3>1 DEF VmType
  <2>3. CASE Watched /\ ~(s.hooks # << >> /\ Head(s.hooks) = <<p, v>>)
    <3>1. u = Panic(r)
      BY <2>1, <2>3 DEF hook_pswap_out, Watched
    <3>2. u.panic /\ u.hooks = s.hooks
      BY <2>1, <3>1 DEF Panic, VmType
    <3> QED
      BY <1>7, <2>3, <3>2
  <2>4. CASE ~Watched
    <3>1. u = r
      BY <2>1, <2>4 DEF hook_pswap_out, Watched
    <3> QED
      BY <1>5, <2>1, <2>4, <3>1
  <2> QED
    BY <2>2, <2>3, <2>4
<1> HIDE DEF p, v, g
<1>9. \A x \in Frames : /\ u.iv[x].pid = s.iv[x].pid
                        /\ u.iv[x].valid \in {"PAGE_DIR", "PAGE_TAB"} =>
                               u.iv[x].valid = s.iv[x].valid
  BY <1>6
<1>10. DirInv(u)
  <2> SUFFICES ASSUME NEW x \in Frames, NEW y \in Frames, u.iv[x].valid = "PAGE_DIR",
                      u.iv[y].valid = "PAGE_DIR", u.iv[x].pid = u.iv[y].pid
               PROVE  x = y
    BY DEF DirInv
  <2>1. s.iv[x].valid = "PAGE_DIR" /\ s.iv[y].valid = "PAGE_DIR" /\ s.iv[x].pid = s.iv[y].pid
    BY <1>9
  <2>2. DirInv(s)
    BY <1>1
  <2> QED
    BY <2>1, <2>2 DEF DirInv
<1>11. TableInv(u, {})
  <2> SUFFICES ASSUME NEW x \in Frames, u.iv[x].valid = "PAGE_TAB"
               PROVE  \E d \in PdIdxs : HasTab(u, u.iv[x].pid, d) /\ Tab(u, u.iv[x].pid, d) = x
    BY DEF TableInv
  <2> DEFINE a == s.iv[x].pid
  <2>1. s.iv[x].valid = "PAGE_TAB" /\ u.iv[x].pid = a /\ a \in Procs
    BY <1>1, <1>9 DEF OwnInv
  <2>2. PICK d \in PdIdxs : HasTab(s, a, d) /\ Tab(s, a, d) = x
    BY <1>1, <2>1 DEF TableInv
  <2> HIDE DEF a
  <2>3. CASE <<a, d>> = <<p, PdIdx(v)>>
    <3>1. a = p /\ d = PdIdx(v) /\ x = g
      BY <1>3, <2>2, <2>3
    <3>2. s.iv[g].ref # 1
      BY <1>6, <3>1
    <3>3. s.pd[p][PdIdx(v)].pres
      BY <2>2, <3>1 DEF HasTab
    <3>4. u.pd[p][PdIdx(v)].pres
      BY <1>6, <3>2, <3>3
    <3>5. u.pd[p][PdIdx(v)].base = x
      BY <1>3, <1>6, <2>1, <2>2, <3>1 DEF Tab
    <3> QED
      BY <2>1, <3>1, <3>4, <3>5 DEF HasTab, Tab
  <2>4. CASE <<a, d>> # <<p, PdIdx(v)>>
    <3>1. u.pd[a][d] = s.pd[a][d]
      BY <1>6, <2>1, <2>4
    <3>2. HasTab(u, a, d) /\ Tab(u, a, d) = x
      BY <2>2, <3>1 DEF HasTab, Tab
    <3> QED
      BY <2>1, <3>2
  <2> QED
    BY <2>3, <2>4
<1>12. ASSUME Watched, ~u.panic PROVE Noted(u.fifo, u.iv, u.hooks)
  <2>1. /\ u.fifo = Tail(q) /\ u.hooks = Tail(s.hooks) /\ Len(q) \in Nat
        /\ Len(Tail(q)) = Len(q) - 1 /\ Len(Tail(s.hooks)) = Len(s.hooks) - 1
        /\ Len(s.hooks) \in Nat /\ Len(q) <= Len(s.hooks)
    BY <1>1, <1>2, <1>6, <1>8, <1>12, LenProperties, HeadTailProperties DEF HookInv, Noted
  <2>2. ASSUME Len(s.hooks) = Len(q), NEW i \in 1..(Len(q) - 1)
        PROVE  Tail(s.hooks)[i] = <<u.iv[Tail(q)[i]].pid, u.iv[Tail(q)[i]].vpn>>
    <3> DEFINE x == Tail(q)[i]
    <3>1. Has(Tail(q), x)
      BY <2>1 DEF Has
    <3>2. Has(q, x) /\ x \in Frames
      <4>1. x \in Frames
        BY <1>2, <1>12, <2>1, ElementOfSeq
      <4> QED
        BY <1>2, <1>12, <3>1, <4>1
    <3>3. s.iv[x].valid = "PAGE"
      BY <1>1, <3>2 DEF ListInv
    <3>4. u.iv[x] = s.iv[x]
      BY <1>3, <1>6, <3>2, <3>3
    <3>5. x = q[i + 1] /\ Tail(s.hooks)[i] = s.hooks[i + 1] /\ i + 1 \in 1..Len(q)
      BY <1>7, <1>12, <2>1, <2>2
    <3> HIDE DEF x, q
    <3>6. s.hooks[i + 1] = <<s.iv[q[i + 1]].pid, s.iv[q[i + 1]].vpn>>
      BY <1>7, <1>12, <2>2, <3>5
    <3> QED
      BY <3>4, <3>5, <3>6 DEF x
  <2> DEFINE a == Tail(q)
             b == Tail(s.hooks)
             m == Len(q)
             k == Len(s.hooks)
  <2>3. /\ u.fifo = a /\ u.hooks = b /\ m \in Nat /\ k \in Nat /\ m <= k
        /\ Len(a) = m - 1 /\ Len(b) = k - 1
        /\ k = m => \A i \in 1..(m - 1) : b[i] = <<u.iv[a[i]].pid, u.iv[a[i]].vpn>>
    BY <2>1, <2>2
  <2> HIDE DEF a, b, m, k
  <2> QED
    BY ONLY <2>3 DEF Noted
<1>13. ASSUME Watched, Len(q) # Len(s.hooks), u.hooks = s.hooks
       PROVE  Len(u.fifo) + 1 < Len(u.hooks)
  <2>1. /\ Len(u.fifo) = Len(q) - 1 /\ Len(q) \in Nat /\ Len(s.hooks) \in Nat
        /\ Len(q) <= Len(s.hooks)
    BY <1>1, <1>2, <1>6, <1>13, LenProperties DEF HookInv, Noted
  <2> QED
    BY <1>13, <2>1
<1> QED
  BY <1>8, <1>10, <1>11, <1>12, <1>13 DEF Tidy, HookInv

\* A frame that holds neither a directory nor a table is given away.
LEMMA TakeCalm ==
  ASSUME NEW s \in VmType, NEW f \in Frames, Tidy(s, {}), HookInv(s), ListInv(s, {f}),
         s.iv[f].valid \notin {"PAGE_DIR", "PAGE_TAB"},
         NEW pid, NEW vpn, NEW purpose \in Purposes,
         purpose = "PAGE_DIR" =>
             \A g \in Frames : s.iv[g].valid # "NULL_PAGE" => s.iv[g].pid # pid,
         NEW t, Taken(s, t, f, pid, vpn, purpose)
  PROVE  /\ Tidy(t, {f}) /\ t.hooks = s.hooks /\ t.panic = s.panic
         /\ Watched => Noted(s.fifo, t.iv, t.hooks)
         /\ ~Has(s.fifo, f)
<1>1. /\ t.hooks = s.hooks /\ t.panic = s.panic /\ t.pd = s.pd
      /\ \A g \in Frames : g # f => t.iv[g] = s.iv[g]
      /\ t.iv[f].valid = purpose /\ t.iv[f].pid = pid
  BY DEF Taken, But, Fields
<1>2. DirInv(s) /\ TableInv(s, {})
  BY DEF Tidy
<1>3. ~Has(s.fifo, f)
  BY DEF ListInv
<1>4. DirInv(t)
  <2> SUFFICES ASSUME NEW g \in Frames, NEW h \in Frames, t.iv[g].valid = "PAGE_DIR",
                      t.iv[h].valid = "PAGE_DIR", t.iv[g].pid = t.iv[h].pid
               PROVE  g = h
    BY DEF DirInv
  <2>1. CASE g # f /\ h # f
    BY <1>1, <1>2, <2>1 DEF DirInv
  <2>2. CASE g = f /\ h # f
    BY <1>1, <2>2
  <2>3. CASE g # f /\ h = f
    BY <1>1, <2>3
  <2> QED
    BY <2>1, <2>2, <2>3
<1>5. TableInv(t, {f})
  <2> SUFFICES ASSUME NEW g \in Frames \ {f}, t.iv[g].valid = "PAGE_TAB"
               PROVE  \E d \in PdIdxs : HasTab(t, t.iv[g].pid, d) /\ Tab(t, t.iv[g].pid, d) = g
    BY DEF TableInv
  <2> DEFINE none == {}
  <2>1. g \in Frames /\ g \notin none
    OBVIOUS
  <2>2. t.iv[g].pid = s.iv[g].pid
    BY <1>1
  <2>3. TableInv(s, none)
    BY <1>2
  <2>4. s.iv[g].valid = "PAGE_TAB" /\ t.pd[s.iv[g].pid] = s.pd[s.iv[g].pid]
    BY <1>1
  <2> HIDE DEF none
  <2> QED
    BY ONLY <2>1, <2>2, <2>3, <2>4, TableThere
<1>6. ASSUME Watched PROVE Noted(s.fifo, t.iv, t.hooks)
  <2>1. Noted(s.fifo, s.iv, s.hooks) /\ s.fifo \in Seq(Frames)
    BY <1>6, VmTyped DEF HookInv
  <2>2. ASSUME NEW i \in 1..Len(s.fifo)
        PROVE  t.iv[s.fifo[i]] = s.iv[s.fifo[i]]
    <3>1. Has(s.fifo, s.fifo[i]) /\ s.fifo[i] \in Frames
      BY <2>1, ElementOfSeq DEF Has
    <3>2. s.fifo[i] # f
      BY <1>3, <3>1
    <3> QED
      BY <1>1, <3>1, <3>2
  <2> QED
    BY <1>1, <2>1, <2>2 DEF Noted
<1> QED
  BY <1>1, <1>2, <1>3, <1>4, <1>5, <1>6 DEF Tidy

\* Frame f of t has been found and given away.
Got(t, f, purpose) ==
    /\ Tidy(t, {f})
    /\ \E q \in Seq(Frames) : /\ t.fifo = IF purpose = "PAGE" THEN Append(q, f) ELSE q
                              /\ ~Has(q, f)
                              /\ Watched => Noted(q, t.iv, t.hooks)

\* get_free_frame finds a frame, or panics for one of the reasons.
LEMMA FrameCalm ==
  ASSUME TablesFit, sys \in Systems,
         NEW s \in VmType, NEW A \in SUBSET Procs, NEW n \in [Procs -> Nat], n = sys.hsize,
         \A q \in A : n[q] <= MaxHeapSize, NEW c, Usable(s, A, n, {}, c), InHeap(c, A, n),
         StoreInv(s, A, n), NEW wr, HeldInv(s, A, n, wr),
         FreeFrames(s) = {} /\ ~NoVictim(s) => Spares(s, Victim(s), c),
         Tidy(s, {}), HookInv(s), ~s.panic,
         NEW pid \in Procs, NEW vpn \in Vpns, NEW purpose \in Purposes,
         purpose = "PAGE_DIR" => pid \notin A
  PROVE  LET t == get_free_frame(s, pid, vpn, purpose) IN
         /\ ~t.panic => Got(t, FrameFor(s), purpose)
         /\ Excused(s, t, A, n)
<1> DEFINE f == FrameFor(s)
           t == get_free_frame(s, pid, vpn, purpose)
<1>1. /\ OwnInv(s, A) /\ ListInv(s, {}) /\ MapsInv(s, A, n, {}, c) /\ s.fifo \in Seq(Frames)
      /\ sys.policy \in {"FIFO", "GCA"}
  BY PagingAssumption, VmTyped DEF Usable, MapsInv
<1>2. 0 \notin Frames /\ Frames \subseteq Nat
  BY PagingAssumption
<1>3. purpose = "PAGE_DIR" =>
          \A g \in Frames : s.iv[g].valid # "NULL_PAGE" => s.iv[g].pid # pid
  BY <1>1 DEF OwnInv
<1>4. CASE FreeFrames(s) # {}
  <2>1. f \in Frames /\ s.iv[f].valid = "NULL_PAGE"
    <3>1. FreeFrames(s) \subseteq Nat
      BY <1>2 DEF FreeFrames
    <3>2. f \in FreeFrames(s)
      BY <1>4, <3>1, LeastNat DEF FrameFor
    <3> QED
      BY <3>2 DEF FreeFrames
  <2>2. t = Take(s, f, pid, vpn, purpose)
    BY <1>2, <1>4, <2>1 DEF get_free_frame, NONE
  <2> HIDE DEF f, t
  <2>3. t \in VmType /\ Taken(s, t, f, pid, vpn, purpose)
    BY <2>1, <2>2, TakeEffect
  <2>4. ListInv(s, {f})
    BY <1>1, <2>1, FreeUsable DEF Usable
  <2>5. /\ Tidy(t, {f}) /\ t.panic = s.panic /\ ~Has(s.fifo, f)
        /\ Watched => Noted(s.fifo, t.iv, t.hooks)
    <3>1. s.iv[f].valid \notin {"PAGE_DIR", "PAGE_TAB"} /\ f \in Frames
      BY <2>1
    <3>2. Taken(s, t, f, pid, vpn, purpose) /\ Tidy(s, {}) /\ HookInv(s)
      BY <2>3
    <3> QED
      BY ONLY s \in VmType, purpose \in Purposes, <1>3, <2>4, <3>1, <3>2, TakeCalm
  <2>6. t.fifo = IF purpose = "PAGE" THEN Append(s.fifo, f) ELSE s.fifo
    BY <2>3 DEF Taken
  <2> QED
    BY <1>1, <2>5, <2>6 DEF Got, Excused, f, t
<1>5. ASSUME FreeFrames(s) = {} PROVE s.fifo # << >>
  <2>1. \A q \in A : n[q] \in Nat
    OBVIOUS
  <2>2. IsFiniteSet(Procs)
        /\ Cardinality({g \in Frames : g <= sys.nframes}) > Cardinality(Slots(n))
    BY DEF TablesFit
  <2> QED
    BY <1>5, <2>1, <2>2, VictimThere
<1>6. CASE FreeFrames(s) = {} /\ NoVictim(s)
  <2>1. t = Panic(s)
    BY <1>6 DEF get_free_frame, FrameFor
  <2>2. sys.policy = "GCA" /\ s.hand \notin {HEAD} \cup Range(s.fifo)
    <3>1. HEAD \notin Frames /\ TAIL \notin Frames /\ HEAD # TAIL
      BY <1>2 DEF HEAD, TAIL
    <3>2. Range(s.fifo) \subseteq Frames
      BY <1>1 DEF Range
    <3> QED
      BY <1>5, <1>6, <3>1, <3>2 DEF NoVictim
  <2>3. t.panic /\ But(s, t, {"panic"})
    BY <2>1, PanicTyped
  <2> HIDE DEF t
  <2>4. Lost(t)
    BY <1>6, <2>2, <2>3 DEF But, Fields, Lost, FreeFrames
  <2> QED
    BY <2>3, <2>4 DEF Excused, t
<1>7. CASE FreeFrames(s) = {} /\ ~NoVictim(s)
  <2> DEFINE r == IF sys.policy = "GCA" THEN GcaScan(s) ELSE s
             u == Evict(r, f)
  <2>1. /\ f \in Frames /\ s.iv[f].valid = "PAGE" /\ f = Victim(s)
        /\ sys.policy = "FIFO" => r = s /\ s.fifo # << >> /\ f = Head(s.fifo)
        /\ r \in VmType /\ Usable(r, A, n, {}, c) /\ HeldInv(r, A, n, wr)
        /\ StoreInv(r, A, n) /\ SameMaps(s, r, A) /\ r.iv = s.iv /\ r.pd = s.pd
        /\ r.panic = s.panic
    <3>1. CASE sys.policy = "GCA"
      <4>1. f = GcaVictim(s) /\ r = GcaScan(s) /\ f = Victim(s) /\ sys.policy # "FIFO"
        BY <1>7, <3>1 DEF FrameFor, Victim
      <4>2. f \in Frames /\ s.iv[f].valid = "PAGE" /\ r.panic = s.panic
        BY <1>7, <3>1, <4>1, ScanEffect DEF But, Fields
      <4> HIDE DEF r, f
      <4> QED
        BY <1>7, <3>1, <4>1, <4>2, ScanUsable
    <3>2. CASE sys.policy = "FIFO"
      <4>1. f = Head(s.fifo) /\ r = s /\ f = Victim(s) /\ s.fifo # << >>
        BY <1>7, <3>2 DEF FrameFor, Victim, NoVictim
      <4>2. f \in Frames /\ Has(s.fifo, f)
        BY <1>1, <4>1, TailMembers DEF ListInv
      <4>3. SameMaps(s, s, A)
        BY DEF SameMaps
      <4> HIDE DEF r, f
      <4> QED
        BY <1>1, <4>1, <4>2, <4>3 DEF ListInv
    <3> QED
      BY <1>1, <3>1, <3>2
  <2>2. t = Take(u, f, pid, vpn, purpose)
    BY <1>2, <1>7, <2>1 DEF get_free_frame, NONE
  <2>3. Kept(s, r)
    BY KeptByMoves DEF Kept
  <2>4. Spares(r, f, c)
    <3> SUFFICES ASSUME NEW q, NEW d, c = <<q, d>>, LastOf(r, f, q, d) PROVE FALSE
      BY DEF Spares
    <3> HIDE DEF r, f
    <3>1. q \in A
      BY <1>1, <2>1 DEF LastOf, OwnInv
    <3>2. Pages(r, q, d) = Pages(s, q, d)
      BY <2>1, <3>1, SamePages
    <3>3. LastOf(s, f, q, d)
      BY <2>1, <3>2 DEF LastOf
    <3> QED
      BY <1>7, <2>1, <3>3 DEF Spares
  <2> HIDE DEF r, f, t
  <2>5. r.iv[f].valid = "PAGE" /\ ~r.panic
    BY <2>1
  <2>6. u \in VmType /\ Usable(u, A, n, {f}, c) /\ u.iv[f] = s.iv[f]
    <3> HIDE DEF u
    <3>1. u \in VmType /\ Emptied(r, u, f, A, n, wr, c)
      BY <2>1, <2>4, <2>5, EvictUsable DEF u
    <3> QED
      BY <2>1, <3>1 DEF Emptied
  <2>7. Tidy(r, {}) /\ HookInv(r)
    <3>1. Tidy(r, {})
      BY <2>1 DEF Tidy, DirInv, TableInv, HasTab, Tab
    <3>2. HookInv(r)
      BY <2>1 DEF HookInv, Watched
    <3> QED
      BY <3>1, <3>2
  <2>8. /\ ~u.panic => Tidy(u, {}) /\ HookInv(u)
        /\ u.panic => Short(r, A, n) \/ (Watched /\ Len(u.fifo) + 1 < Len(u.hooks))
    <3>1. sys.policy = "FIFO" => r.fifo # << >> /\ f = Head(r.fifo)
      BY <2>1
    <3> QED
      BY <2>1, <2>5, <2>7, <3>1, EvictCalm
  <2> HIDE DEF u
  <2>9. t \in VmType /\ Taken(u, t, f, pid, vpn, purpose)
    BY <2>1, <2>2, <2>6, TakeEffect
  <2>10. /\ t.panic = u.panic /\ t.hooks = u.hooks /\ u.fifo \in Seq(Frames)
         /\ t.fifo = IF purpose = "PAGE" THEN Append(u.fifo, f) ELSE u.fifo
    BY <2>6, <2>9, VmTyped DEF Taken, But, Fields
  <2>11. ASSUME ~t.panic PROVE Got(t, f, purpose)
    <3>1. purpose = "PAGE_DIR" =>
            \A g \in Frames : u.iv[g].valid # "NULL_PAGE" => u.iv[g].pid # pid
      BY <2>6 DEF Usable, MapsInv, OwnInv
    <3>2. ListInv(u, {f}) /\ u.iv[f].valid \notin {"PAGE_DIR", "PAGE_TAB"}
      BY <2>1, <2>6 DEF Usable
    <3>3. Tidy(u, {}) /\ HookInv(u)
      BY <2>8, <2>10, <2>11
    <3>4. /\ Tidy(t, {f}) /\ ~Has(u.fifo, f)
          /\ Watched => Noted(u.fifo, t.iv, t.hooks)
      BY <2>1, <2>6, <2>9, <3>1, <3>2, <3>3, TakeCalm
    <3> QED
      BY <2>10, <3>4 DEF Got
  <2>12. ASSUME t.panic PROVE Short(s, A, n) \/ Behind(t)
    <3>1. CASE Short(r, A, n)
      BY <2>3, <3>1, ShortKept
    <3>2. CASE Watched /\ Len(u.fifo) + 1 < Len(u.hooks)
      <4>1. Len(u.fifo) \in Nat /\ Len(t.fifo) <= Len(u.fifo) + 1 /\ Len(t.fifo) \in Nat
        BY <2>1, <2>10, AppendProperties, LenProperties
      <4>2. Len(u.hooks) \in Nat
        BY <2>6, VmTyped, LenProperties
      <4> QED
        BY <2>10, <3>2, <4>1, <4>2 DEF Behind
    <3> QED
      BY <2>8, <2>10, <2>12, <3>1, <3>2
  <2> QED
    BY <2>11, <2>12 DEF Excused, f, t
<1> QED
  BY <1>4, <1>6, <1>7

\* create_pagetable finds a frame, or panics for one of the reasons.
LEMMA TableCalm ==
  ASSUME TablesFit, sys \in Systems,
         NEW s \in VmType, NEW A \in SUBSET Procs, NEW n \in [Procs -> Nat], n = sys.hsize,
         \A q \in A : n[q] <= MaxHeapSize, Usable(s, A, n, {}, << >>),
         StoreInv(s, A, n), NEW wr, HeldInv(s, A, n, wr),
         Tidy(s, {}), HookInv(s), ~s.panic,
         NEW p \in A, NEW d \in PdIdxs, ~HasTab(s, p, d),
         NEW t, t = create_pagetable(s, p, d)
  PROVE  /\ ~t.panic => Tidy(t, {}) /\ HookInv(t)
         /\ Excused(s, t, A, n)
<1> DEFINE f == FrameFor(s)
           u == get_free_frame(s, p, 0, "PAGE_TAB")
           x == [u EXCEPT !.pd[p][d] = [pres |-> TRUE, base |-> f]]
<1>1. p \in Procs /\ 0 \in Vpns /\ "PAGE_TAB" \in Purposes /\ "PAGE_TAB" # "PAGE_DIR"
  BY PagingAssumption DEF Vpns, Purposes
<1>2. Spares(s, Victim(s), << >>) /\ InHeap(<< >>, A, n) /\ sys.policy \in {"FIFO", "GCA"}
  BY PagingAssumption DEF Spares, InHeap
<1>3. (~u.panic => Got(u, f, "PAGE_TAB")) /\ Excused(s, u, A, n)
  BY <1>1, <1>2, FrameCalm
<1>4. create_pagetable(s, p, d) = IF u.panic THEN u ELSE x
  BY DEF create_pagetable
<1>5. u \in VmType /\ (~u.panic => Framed(s, u, f, A, n, wr, << >>, p, 0, "PAGE_TAB"))
  BY <1>1, <1>2, FrameFound
<1> SUFFICES ASSUME ~u.panic
             PROVE  Tidy(t, {}) /\ HookInv(t) /\ ~t.panic
  <2> HIDE DEF x, u, f
  <2> QED
    BY <1>3, <1>4 DEF Excused
<1>6. Got(u, f, "PAGE_TAB") /\ Tidy(u, {f})
  BY <1>3 DEF Got
<1>7. f \in Frames /\ u.iv[f].valid = "PAGE_TAB" /\ u.iv[f].pid = p /\ TabsKept(s, u, << >>)
      /\ OwnInv(u, A \cup {p})
  BY <1>5, <1>6 DEF Framed, Given
<1>8. t = x
  BY <1>4
<1> HIDE DEF u, f
<1>9. t \in VmType /\ Tables(u, t, f, p, d)
  BY <1>1, <1>5, <1>7, <1>8, TableEffect
<1>10. /\ t.iv = u.iv /\ t.fifo = u.fifo /\ t.hooks = u.hooks /\ t.panic = u.panic
       /\ \A q \in Procs : \A e \in PdIdxs : <<q, e>> # <<p, d>> => t.pd[q][e] = u.pd[q][e]
       /\ HasTab(t, p, d) /\ Tab(t, p, d) = f
  BY <1>9 DEF Tables, But, Fields
<1>11. DirInv(t) /\ ~t.panic
  BY <1>6, <1>10 DEF Tidy, DirInv
<1>12. TableInv(t, {})
  <2> SUFFICES ASSUME NEW g \in Frames, t.iv[g].valid = "PAGE_TAB"
               PROVE  \E e \in PdIdxs : HasTab(t, t.iv[g].pid, e) /\ Tab(t, t.iv[g].pid, e) = g
    BY DEF TableInv
  <2>1. CASE g = f
    BY <1>7, <1>10, <2>1
  <2>2. CASE g # f
    <3> DEFINE a == u.iv[g].pid
    <3>1. t.iv[g].pid = a /\ u.iv[g].valid = "PAGE_TAB" /\ a \in Procs
      BY <1>7, <1>10 DEF OwnInv
    <3>2. PICK e \in PdIdxs : HasTab(u, a, e) /\ Tab(u, a, e) = g
      BY <1>6, <2>2, <3>1 DEF Tidy, TableInv
    <3> HIDE DEF a
    <3>3. <<a, e>> # <<p, d>>
      <4>1. HasTab(s, a, e)
        BY <1>7, <3>1, <3>2 DEF TabsKept
      <4> QED
        BY <4>1
    <3>4. HasTab(t, a, e) /\ Tab(t, a, e) = g
      BY <1>10, <3>1, <3>2, <3>3 DEF HasTab, Tab
    <3> QED
      BY <3>1, <3>4
  <2> QED
    BY <2>1, <2>2
<1>13. HookInv(t)
  <2>1. PICK q \in Seq(Frames) : u.fifo = q /\ (Watched => Noted(q, u.iv, u.hooks))
    BY <1>1, <1>6 DEF Got
  <2> QED
    BY <1>10, <2>1 DEF HookInv
<1> QED
  BY <1>11, <1>12, <1>13 DEF Tidy

\* myPageFault finds a frame for the page, one for its page table if there is none, and
\* the page on the disk, or panics for one of the reasons.
LEMMA FaultCalm ==
  ASSUME TablesFit, sys \in Systems,
         NEW s \in VmType, NEW A \in SUBSET Procs, NEW n \in [Procs -> Nat], n = sys.hsize,
         \A q \in A : n[q] <= MaxHeapSize, NEW wr, SoundInv(s, A, n, wr),
         StoreInv(s, A, n), Tidy(s, {}), HookInv(s), ~s.panic,
         NEW p \in A, NEW v \in 0..(n[p] - 1),
         HasTab(s, p, PdIdx(v)) /\ FreeFrames(s) = {} /\ ~NoVictim(s) =>
             ~LastOf(s, Victim(s), p, PdIdx(v)),
         NEW t, t = ServeFault(s, p, v)
  PROVE  /\ ~t.panic => Tidy(t, {}) /\ HookInv(t)
         /\ Excused(s, t, A, n)
<1> DEFINE d == PdIdx(v)
           k == PtIdx(v)
           c == <<p, d>>
           s1 == IF HasTab(s, p, d) THEN s ELSE create_pagetable(s, p, d)
           tab == Tab(s1, p, d)
           f == FrameFor(s1)
           s2 == get_free_frame(s1, p, v, "PAGE")
           s3 == read_bs(s2, p, v, f)
           h == hook_pfault(s3.hooks, p, v)
           z == [s3 EXCEPT !.pt[tab][k] = [pres |-> TRUE, base |-> f, use |-> 0],
                           !.iv[Tab(s3, p, d)].ref = @ + 1,
                           !.hooks = h]
<1>1. /\ p \in Procs /\ v \in Vpns /\ d \in PdIdxs /\ k \in PtIdxs /\ "PAGE" \in Purposes
      /\ v < n[p] /\ n[p] \in Nat /\ "PAGE" # "PAGE_DIR"
  <2>1. n[p] \in Nat /\ n[p] <= MaxHeapSize /\ MaxHeapSize \in Nat /\ p \in Procs
    BY PagingAssumption
  <2>2. v \in Vpns /\ v < n[p]
    BY <2>1 DEF Vpns
  <2> QED
    BY <2>1, <2>2, PageNumbers DEF Purposes
<1>2. ServeFault(s, p, v) = IF s1.panic THEN s1 ELSE IF s2.panic THEN s2
                            ELSE IF s3.panic THEN s3 ELSE z
  BY DEF ServeFault, HasTab, Tab
<1>3. /\ s1 \in VmType
      /\ ~s1.panic => Tabled(s, s1, A, n, wr, p, d)
      /\ ~s1.panic /\ FreeFrames(s1) = {} /\ ~NoVictim(s1) => Spares(s1, Victim(s1), c)
  <2> HIDE DEF s1, d, c
  <2>1. d = PdIdx(v) /\ c = <<p, d>>
        /\ s1 = IF HasTab(s, p, d) THEN s ELSE create_pagetable(s, p, d)
    BY DEF s1, d, c
  <2>2. sys.policy \in {"FIFO", "GCA"}
    BY PagingAssumption
  <2> QED
    BY <1>1, <2>1, <2>2, TableReady
<1>4. /\ ~s1.panic => Tidy(s1, {}) /\ HookInv(s1)
      /\ Excused(s, s1, A, n) /\ Kept(s, s1)
  <2>1. CASE HasTab(s, p, d)
    <3>1. s1 = s
      BY <2>1
    <3> HIDE DEF s1
    <3> QED
      BY <3>1 DEF Excused, Kept
  <2>2. CASE ~HasTab(s, p, d)
    <3>1. s1 = create_pagetable(s, p, d)
      BY <2>2
    <3>2. Usable(s, A, n, {}, << >>) /\ HeldInv(s, A, n, wr)
      BY DEF SoundInv, Usable
    <3> HIDE DEF s1, d
    <3>3. Kept(s, s1)
      <4> DEFINE g == FrameFor(s)
                 r == get_free_frame(s, p, 0, "PAGE_TAB")
                 x == [r EXCEPT !.pd[p][d] = [pres |-> TRUE, base |-> g]]
      <4>1. Kept(s, r)
        BY KeptByFrame
      <4>2. Kept(r, x)
        BY DEF Kept, StoreFields
      <4>3. s1 = IF r.panic THEN r ELSE x
        BY <3>1 DEF create_pagetable
      <4> HIDE DEF r, x
      <4> QED
        BY <4>1, <4>2, <4>3, KeptOn
    <3> QED
      BY <1>1, <2>2, <3>1, <3>2, <3>3, TableCalm
  <2> QED
    BY <2>1, <2>2
<1> HIDE DEF s1
<1>a. CASE s1.panic
  <2>1. t = s1
    BY <1>2, <1>a
  <2> QED
    BY <1>4, <1>a, <2>1
<1>5. SUFFICES ASSUME ~s1.panic
               PROVE  (~t.panic => Tidy(t, {}) /\ HookInv(t)) /\ Excused(s, t, A, n)
  BY <1>a
<1>6. /\ Usable(s1, A, n, {}, c) /\ HeldInv(s1, A, n, wr) /\ StoreInv(s1, A, n)
      /\ HasTab(s1, p, d) /\ InHeap(c, A, n)
  BY <1>1, <1>3, <1>5 DEF Tabled, InHeap
<1>7. FreeFrames(s1) = {} /\ ~NoVictim(s1) => Spares(s1, Victim(s1), c)
  BY <1>3, <1>5
<1>8. /\ ~s2.panic => Got(s2, f, "PAGE")
      /\ Excused(s1, s2, A, n) /\ Kept(s1, s2)
  <2>1. Kept(s1, s2)
    BY KeptByFrame
  <2> HIDE DEF c, d
  <2> QED
    BY <1>1, <1>3, <1>4, <1>5, <1>6, <1>7, <2>1, FrameCalm
<1>9. /\ s2 \in VmType
      /\ ~s2.panic => Framed(s1, s2, f, A, n, wr, c, p, v, "PAGE") /\ StoreInv(s2, A, n)
  <2>1. sys.policy \in {"FIFO", "GCA"}
    BY PagingAssumption
  <2> HIDE DEF c, d
  <2> QED
    BY <1>1, <1>3, <1>6, <1>7, <2>1, FrameFound
<1> HIDE DEF s2, f
<1>b. Short(s, A, n) <=> Short(s1, A, n)
  BY <1>4, ShortKept
<1>c. CASE s2.panic
  <2>1. t = s2
    BY <1>2, <1>5, <1>c
  <2> QED
    BY <1>8, <1>b, <1>c, <2>1 DEF Excused
<1>d. SUFFICES ASSUME ~s2.panic
               PROVE  (~t.panic => Tidy(t, {}) /\ HookInv(t)) /\ Excused(s, t, A, n)
  BY <1>c
<1>10. ~s2.panic /\ Tidy(s2, {f})
  BY <1>8, <1>d DEF Got
<1>11. /\ f \in Frames /\ Given(s2, A, n, f, c, p) /\ StoreInv(s2, A, n)
       /\ s2.iv[f].valid = "PAGE" /\ s2.iv[f].pid = p /\ s2.iv[f].vpn = v
       /\ TabsKept(s1, s2, c)
  BY <1>9, <1>10 DEF Framed
<1>12. /\ HasTab(s2, p, d) /\ Tab(s2, p, d) = tab /\ tab \in Frames \ {f}
       /\ s2.iv[tab].valid = "PAGE_TAB" /\ ListInv(s2, {})
  <2>1. HasTab(s2, p, d) /\ Tab(s2, p, d) = tab
    BY <1>1, <1>6, <1>11 DEF TabsKept
  <2>2. TabInv(s2, A, {f}, c) /\ ListInv(s2, {})
    BY <1>11 DEF Given
  <2> QED
    BY <1>1, <2>1, <2>2 DEF TabInv
<1>e. HasPlace(s2, p, v) \/ Short(s2, A, n)
  <2>1. A \subseteq Procs
    OBVIOUS
  <2> QED
    BY <1>11, <2>1, PlaceOrShort
<1>f. Short(s2, A, n) => Short(s, A, n)
  BY <1>6, <1>8, <1>b, ShortKept
<1>g. CASE ~HasPlace(s2, p, v)
  <2>1. s3 = Panic(s2) /\ s3.panic
    BY <1>9, <1>g, PanicTyped DEF read_bs
  <2>2. t = s3
    BY <1>2, <1>5, <1>d, <2>1
  <2> QED
    BY <1>e, <1>f, <1>g, <2>1, <2>2 DEF Excused
<1>13. SUFFICES ASSUME HasPlace(s2, p, v)
                PROVE  Tidy(t, {}) /\ HookInv(t) /\ ~t.panic
  <2> HIDE DEF s3
  <2> QED
    BY <1>g DEF Excused
<1>14. /\ ~s3.panic /\ s3 \in VmType /\ s3.iv = s2.iv /\ s3.pd = s2.pd
       /\ s3.fifo = s2.fifo /\ s3.hooks = s2.hooks
  <2>1. s3 \in VmType
    BY <1>1, <1>9, <1>11, ReadTyped
  <2>2. s3 = [s2 EXCEPT !.mem[f] = qrds_read(s2.disk, Place(s2, p, v))]
    BY <1>13 DEF read_bs
  <2> QED
    BY <1>9, <1>10, <2>1, <2>2 DEF VmType
<1>15. t = z
  BY <1>2, <1>5, <1>10, <1>14
<1> HIDE DEF s3
<1>16. Tab(s3, p, d) = tab
  BY <1>12, <1>14 DEF Tab
<1>17. h \in Seq(Procs \X Vpns)
  <2>1. s3.hooks \in Seq(Procs \X Vpns) /\ <<p, v>> \in Procs \X Vpns
    BY <1>1, <1>14, VmTyped
  <2> QED
    BY <2>1, AppendMembers DEF hook_pfault
<1>18. t.hooks = h /\ t \in VmType /\ Enters(s3, t, tab, k, f)
  <2> DEFINE y == [s3 EXCEPT !.pt[tab][k] = [pres |-> TRUE, base |-> f, use |-> 0],
                             !.iv[tab].ref = @ + 1,
                             !.hooks = h]
  <2>1. t = y
    BY <1>15, <1>16
  <2> HIDE DEF h, tab, k
  <2>2. y.hooks = h
    BY <1>14 DEF VmType
  <2>3. f \in Frames /\ tab \in Frames /\ k \in PtIdxs /\ s3 \in VmType
    BY <1>1, <1>11, <1>12, <1>14
  <2>4. y \in VmType /\ Enters(s3, y, tab, k, f)
    BY <1>17, <2>3, EnterEffect
  <2> HIDE DEF y
  <2> QED
    BY <2>1, <2>2, <2>4
<1> HIDE DEF z, tab, k
<1>19. /\ t.fifo = s2.fifo /\ t.pd = s2.pd /\ ~t.panic
       /\ \A g \in Frames : g # tab => t.iv[g] = s2.iv[g]
       /\ t.iv[tab].valid = s2.iv[tab].valid /\ t.iv[tab].pid = s2.iv[tab].pid
  BY <1>14, <1>18 DEF Enters, But, Fields
<1>20. DirInv(t)
  <2>1. \A g \in Frames : t.iv[g].valid = s2.iv[g].valid /\ t.iv[g].pid = s2.iv[g].pid
    BY <1>19
  <2> QED
    BY <1>10, <2>1 DEF Tidy, DirInv
<1>21. TableInv(t, {})
  <2> SUFFICES ASSUME NEW g \in Frames, t.iv[g].valid = "PAGE_TAB"
               PROVE  \E e \in PdIdxs : HasTab(t, t.iv[g].pid, e) /\ Tab(t, t.iv[g].pid, e) = g
    BY DEF TableInv
  <2>1. t.iv[g].valid = s2.iv[g].valid /\ t.iv[g].pid = s2.iv[g].pid
    BY <1>19
  <2>2. g \in Frames /\ g \notin {f}
    BY <1>11, <2>1
  <2>3. TableInv(s2, {f})
    BY <1>10 DEF Tidy
  <2>4. s2.iv[g].valid = "PAGE_TAB" /\ t.pd[s2.iv[g].pid] = s2.pd[s2.iv[g].pid]
    BY <1>19, <2>1
  <2> QED
    BY ONLY <2>1, <2>2, <2>3, <2>4, TableThere
<1>22. ASSUME Watched PROVE Noted(t.fifo, t.iv, t.hooks)
  <2>1. PICK q \in Seq(Frames) :
          /\ s2.fifo = Append(q, f) /\ ~Has(q, f) /\ Noted(q, s2.iv, s2.hooks)
    BY <1>8, <1>d, <1>22 DEF Got
  <2> DEFINE g == s2.hooks
             e == <<p, v>>
  <2>2. /\ t.fifo = Append(q, f) /\ t.hooks = Append(g, e) /\ g \in Seq(Procs \X Vpns)
        /\ e \in Procs \X Vpns
    BY <1>1, <1>9, <1>14, <1>18, <1>19, <1>22, <2>1, VmTyped DEF hook_pfault, Watched
  <2>3. t.iv[f].pid = p /\ t.iv[f].vpn = v
    BY <1>11, <1>12, <1>19
  <2>4. ASSUME NEW i \in 1..Len(q) PROVE t.iv[q[i]] = s2.iv[q[i]]
    <3>1. q[i] \in Frames /\ Has(q, q[i])
      BY <2>1, ElementOfSeq DEF Has
    <3>2. Has(Append(q, f), q[i])
      BY <1>11, <2>1, <3>1, AppendMembers
    <3>3. s2.iv[q[i]].valid = "PAGE"
      BY <1>12, <2>1, <3>1, <3>2 DEF ListInv
    <3> QED
      BY <1>12, <1>19, <3>1, <3>3
  <2>5. /\ Len(q) \in Nat /\ Len(g) \in Nat
        /\ Len(Append(q, f)) = Len(q) + 1 /\ Len(Append(g, e)) = Len(g) + 1
        /\ \A i \in 1..Len(q) : Append(q, f)[i] = q[i]
        /\ \A i \in 1..Len(g) : Append(g, e)[i] = g[i]
        /\ Append(q, f)[Len(q) + 1] = f /\ Append(g, e)[Len(g) + 1] = e
    BY <1>11, <2>1, <2>2, AppendProperties, LenProperties, SMTT(60)
  <2>6. Len(q) <= Len(g) /\ (Len(q) = Len(g) =>
           \A i \in 1..Len(q) : g[i] = <<t.iv[q[i]].pid, t.iv[q[i]].vpn>>)
    BY <2>1, <2>4 DEF Noted
  <2> DEFINE a == Append(q, f)
             b == Append(g, e)
             m == Len(q)
  <2>7. Len(g) = m => \A i \in 1..(m + 1) : b[i] = <<t.iv[a[i]].pid, t.iv[a[i]].vpn>>
    <3> SUFFICES ASSUME Len(g) = m, NEW i \in 1..(m + 1)
                 PROVE  b[i] = <<t.iv[a[i]].pid, t.iv[a[i]].vpn>>
      OBVIOUS
    <3>1. CASE i = m + 1
      BY <2>3, <2>5, <3>1
    <3>2. CASE i # m + 1
      <4>1. i \in 1..m
        BY <2>5, <3>2
      <4>2. a[i] = q[i] /\ b[i] = g[i]
        BY <2>5, <4>1
      <4> HIDE DEF a, b, g
      <4> QED
        BY <2>6, <4>1, <4>2
    <3> QED
      BY <3>1, <3>2
  <2>8. /\ t.fifo = a /\ t.hooks = b /\ m \in Nat /\ Len(g) \in Nat /\ m <= Len(g)
        /\ Len(a) = m + 1 /\ Len(b) = Len(g) + 1
    BY <2>2, <2>5, <2>6
  <2> HIDE DEF a, b, m, g, e
  <2> QED
    BY <2>7, <2>8 DEF Noted
<1> QED
  BY <1>19, <1>20, <1>21, <1>22 DEF Tidy, HookInv

\* kill frees directories, tables and pages together, and only shortens the list.
LEMMA KillCalm ==
  ASSUME NEW s \in VmType, NEW A, NEW n, NEW wr, SoundInv(s, A, n, wr), Tidy(s, {}),
         HookInv(s), NEW p, NEW t, Freed(s, t, p)
  PROVE  Tidy(t, {}) /\ HookInv(t) /\ t.panic = s.panic
<1> DEFINE F == {f \in Frames : s.iv[f].pid = p}
           q == s.fifo
<1>1. /\ t.hooks = s.hooks /\ t.panic = s.panic /\ t.pd = s.pd /\ t.fifo = Unlink(q, F)
      /\ \A f \in Frames : t.iv[f] = IF s.iv[f].pid = p THEN NullIv ELSE s.iv[f]
  BY DEF Freed, But, Fields
<1>2. /\ q \in Seq(Frames) /\ Distinct(q) /\ DirInv(s) /\ TableInv(s, {})
      /\ s.hooks \in Seq(Procs \X Vpns)
  BY VmTyped DEF SoundInv, ListInv, Tidy
<1>3. \A f \in Frames : t.iv[f].valid # "NULL_PAGE" => t.iv[f] = s.iv[f] /\ f \notin F
  BY <1>1 DEF NullIv
<1>4. DirInv(t)
  BY <1>2, <1>3 DEF DirInv
<1>5. TableInv(t, {})
  <2> SUFFICES ASSUME NEW f \in Frames, t.iv[f].valid = "PAGE_TAB"
               PROVE  \E d \in PdIdxs : HasTab(t, t.iv[f].pid, d) /\ Tab(t, t.iv[f].pid, d) = f
    BY DEF TableInv
  <2> DEFINE none == {}
  <2>1. t.iv[f] = s.iv[f] /\ f \in Frames /\ f \notin none
    BY <1>3
  <2>2. t.iv[f].pid = s.iv[f].pid
    BY <2>1
  <2>3. TableInv(s, none)
    BY <1>2
  <2>4. s.iv[f].valid = "PAGE_TAB" /\ t.pd[s.iv[f].pid] = s.pd[s.iv[f].pid]
    BY <1>1, <2>1
  <2>5. f \in Frames /\ f \notin none
    BY <2>1
  <2> HIDE DEF none
  <2> QED
    BY ONLY <2>2, <2>3, <2>4, <2>5, TableThere
<1>6. ASSUME Watched PROVE Noted(t.fifo, t.iv, t.hooks)
  <2>1. Len(Unlink(q, F)) <= Len(q) /\ (Len(Unlink(q, F)) = Len(q) => Unlink(q, F) = q)
        /\ \A x : Has(Unlink(q, F), x) <=> Has(q, x) /\ x \notin F
    <3> HIDE DEF F, q
    <3> QED
      BY <1>2, UnlinkLength, UnlinkMembers
  <2>2. Noted(q, s.iv, s.hooks)
    BY <1>6 DEF HookInv
  <2>3. ASSUME Unlink(q, F) = q, NEW i \in 1..Len(q) PROVE t.iv[q[i]] = s.iv[q[i]]
    <3>1. q[i] \in Frames /\ Has(q, q[i])
      BY <1>2, ElementOfSeq DEF Has
    <3>2. q[i] \notin F
      BY <2>1, <2>3, <3>1
    <3> QED
      BY <1>1, <3>1, <3>2
  <2>4. Len(q) \in Nat /\ Len(s.hooks) \in Nat /\ Len(Unlink(q, F)) \in Nat
    <3>1. Unlink(q, F) \in Seq(Frames)
      <4> HIDE DEF F, q
      <4> QED
        BY <1>2, UnlinkMembers
    <3> HIDE DEF F, q
    <3> QED
      BY <1>2, <3>1, LenProperties
  <2> DEFINE a == Unlink(q, F)
  <2>5. /\ t.fifo = a /\ t.hooks = s.hooks /\ Len(a) <= Len(q) /\ (Len(a) = Len(q) => a = q)
        /\ Len(q) <= Len(s.hooks) /\ Len(a) \in Nat
        /\ Len(q) = Len(s.hooks) =>
               \A i \in 1..Len(q) : s.hooks[i] = <<s.iv[q[i]].pid, s.iv[q[i]].vpn>>
    BY <1>1, <2>1, <2>2, <2>4 DEF Noted
  <2>6. a = q => \A i \in 1..Len(q) : t.iv[q[i]] = s.iv[q[i]]
    BY <2>3
  <2> HIDE DEF a, q, F
  <2>7. CASE Len(a) = Len(s.hooks)
    <3>1. a = q /\ Len(q) = Len(s.hooks)
      BY <2>4, <2>5, <2>7
    <3> QED
      BY <2>5, <2>6, <3>1 DEF Noted
  <2>8. CASE Len(a) # Len(s.hooks)
    BY <2>4, <2>5, <2>8 DEF Noted
  <2> QED
    BY <2>7, <2>8
<1> QED
  BY <1>1, <1>2, <1>4, <1>5, <1>6 DEF Tidy, HookInv

\* The state t is s, but for what does not matter here.
LEMMA SameCalm ==
  ASSUME NEW s, NEW t, Tidy(s, {}), HookInv(s), t.iv = s.iv, t.fifo = s.fifo, t.pd = s.pd,
         t.hooks = s.hooks
  PROVE  Tidy(t, {}) /\ HookInv(t)
BY DEF Tidy, HookInv, DirInv, TableInv, HasTab, Tab

----------------------------------------------------------------------------
\* Everything is where it belongs in s, or its panic is explained.
Settled(s, A, n) ==
    IF s.panic THEN Short(s, A, n) \/ Behind(s) \/ Lost(s) ELSE Tidy(s, {}) /\ HookInv(s)

CalmInv == IF Up THEN Tidy(vm, {}) /\ HookInv(vm) ELSE DiskShort \/ HooksBehind \/ HandLost

LEMMA CalmNext ==
  ASSUME sys' = sys, Settled(vm', Alive', sys.hsize)
  PROVE  CalmInv'
<1>1. CASE vm'.panic
  <2>1. Short(vm', Alive', sys.hsize) => DiskShort'
    BY DEF Short, DiskShort, Heap
  <2>2. Behind(vm') => HooksBehind'
    BY DEF Behind, Watched, HooksBehind
  <2>3. Lost(vm') => HandLost'
    BY DEF Lost, HandLost, FreeFrames
  <2> QED
    BY <1>1, <2>1, <2>2, <2>3 DEF Settled, CalmInv, Up
<1>2. CASE ~vm'.panic
  BY <1>2 DEF Settled, CalmInv, Up, HookInv, Watched, Tidy, DirInv, TableInv, HasTab, Tab, Noted
<1> QED
  BY <1>1, <1>2

\* vcreate: a frame is found for the directory, or the panic is explained, and the
\* stores of the heap are nobody else's.
LEMMA vcreateCalm ==
  ASSUME TablesFit, TypeInv, DiskInv, PagerInv, CalmInv, NEW p \in Procs, vcreate(p)
  PROVE  Settled(vm', Alive', sys.hsize)
<1> DEFINE A == Alive
           n == sys.hsize
           f == FrameFor(vm)
           s == get_free_frame(vm, p, 0, "PAGE_DIR")
           z == MapHeap(s, p)
           t == vm'
<1>1. /\ n \in [Procs -> Nat] /\ A \in SUBSET Procs /\ n[p] \in Nat /\ sys \in Systems
      /\ \A q \in A : n[q] <= MaxHeapSize
      /\ sys.policy \in {"FIFO", "GCA"}
  BY SystemTyped DEF TypeInv
<1>2. /\ Up /\ pc[p] = "none" /\ t = [z EXCEPT !.pd[p] = [d \in PdIdxs |-> NoPde]]
      /\ pc' = [pc EXCEPT ![p] = "user"]
  BY DEF vcreate
<1>3. p \in Procs \ A /\ Alive' = A \cup {p}
  BY <1>2 DEF Alive, TypeInv
<1>4. /\ vm \in VmType /\ SoundInv(vm, A, n, written) /\ StoreInv(vm, A, n)
      /\ Usable(vm, A, n, {}, << >>) /\ HeldInv(vm, A, n, written)
      /\ Tidy(vm, {}) /\ HookInv(vm) /\ ~vm.panic
  BY <1>2 DEF PagerInv, AgreeInv, DiskInv, SoundInv, Usable, CalmInv, Up
<1>5. /\ Spares(vm, Victim(vm), << >>) /\ InHeap(<< >>, A, n) /\ 0 \in Vpns
      /\ "PAGE_DIR" \in Purposes /\ "PAGE_DIR" # "PAGE"
  BY PagingAssumption DEF Spares, InHeap, Vpns, Purposes
<1> HIDE DEF A, n
<1>6. (~s.panic => Got(s, f, "PAGE_DIR")) /\ Excused(vm, s, A, n) /\ Kept(vm, s)
  <2>1. Kept(vm, s)
    BY KeptByFrame
  <2>2. n = sys.hsize
    BY DEF n
  <2> HIDE DEF s, f
  <2>3. (~s.panic => Got(s, f, "PAGE_DIR")) /\ Excused(vm, s, A, n)
    BY <1>1, <1>3, <1>4, <1>5, <2>2, FrameCalm DEF s, f
  <2> QED
    BY <2>1, <2>3
<1>7. /\ s \in VmType
      /\ ~s.panic => Framed(vm, s, f, A, n, written, << >>, p, 0, "PAGE_DIR")
  BY <1>1, <1>4, <1>5, FrameFound
<1>8. Short(vm, A, n) => Short(s, A, n)
  BY <1>4, <1>6, ShortKept
<1> HIDE DEF s, f
<1>9. Remapped(s, z, p)
  <2>1. Pieces(p) \in Nat
    BY <1>1, PiecesOfHeap DEF n
  <2> QED
    BY <1>7, <2>1, MapHeapEffect
<1> HIDE DEF z
<1>10. PICK x, y : /\ z = [s EXCEPT !.bstab = x, !.bsmap = y]
                   /\ \A b \in Stores : Spared(s.bsmap[b], y[b], p)
  BY <1>9 DEF Remapped
<1>11. /\ t.iv = s.iv /\ t.fifo = s.fifo /\ t.hooks = s.hooks /\ t.panic = s.panic
       /\ t.hand = s.hand /\ t.bsmap = y
       /\ \A q \in Procs : q # p => t.pd[q] = s.pd[q]
  <2>1. /\ z.iv = s.iv /\ z.fifo = s.fifo /\ z.hooks = s.hooks /\ z.panic = s.panic
        /\ z.pd = s.pd /\ z.hand = s.hand /\ z.bsmap = y
        /\ {"iv", "fifo", "hooks", "panic", "pd", "hand", "bsmap"} \subseteq DOMAIN z
    BY <1>7, <1>10 DEF VmType
  <2>2. s.pd \in [Procs -> [PdIdxs -> PdEntry]]
    BY <1>7, VmTyped
  <2> QED
    BY <1>2, <2>1, <2>2
<1>12. ASSUME s.panic PROVE Settled(t, A \cup {p}, n)
  <2>1. Short(s, A, n) => Short(t, A \cup {p}, n)
    <3> SUFFICES ASSUME NEW q \in A, NEW v \in 0..(n[q] - 1), ~OnDisk(Place(s, q, v))
                 PROVE  ~OnDisk(Place(t, q, v))
      BY DEF Short
    <3>1. q \in Procs /\ q # p /\ q # 0
      BY <1>1, <1>3, PagingAssumption
    <3>2. \A b \in Stores : Maps(t, b, q, v) <=> Maps(s, b, q, v)
      BY <1>10, <1>11, <3>1 DEF Spared, Maps
    <3>3. Store(t, q, v) = Store(s, q, v)
      BY <3>2 DEF Store
    <3> DEFINE c == Store(s, q, v)
    <3>4. c \in Stores /\ Maps(s, c, q, v)
      <4>1. A \subseteq Procs /\ StoreInv(s, A, n)
        BY <1>1, <1>4, <1>6, StoreInvKept
      <4> QED
        BY <1>1, <4>1, PlacesApart
    <3> HIDE DEF c
    <3>5. t.bsmap[c] = s.bsmap[c]
      BY <1>10, <1>11, <3>1, <3>4 DEF Maps, Spared
    <3> QED
      BY <3>3, <3>5 DEF Place, Offset, c
  <2>2. Behind(s) => Behind(t)
    BY <1>11 DEF Behind
  <2>3. Lost(s) => Lost(t)
    BY <1>11 DEF Lost, FreeFrames
  <2> QED
    BY <1>6, <1>8, <1>11, <1>12, <2>1, <2>2, <2>3 DEF Excused, Settled
<1>13. ASSUME ~s.panic PROVE Tidy(t, {}) /\ HookInv(t)
  <2>1. /\ DirInv(s) /\ TableInv(s, {f})
        /\ Watched => Noted(s.fifo, s.iv, s.hooks)
    BY <1>5, <1>6, <1>13 DEF Got, Tidy
  <2>2. /\ f \in Frames /\ s.iv[f].valid = "PAGE_DIR"
        /\ \A g \in Frames \ {f} : s.iv[g].valid # "NULL_PAGE" => s.iv[g].pid \in A
    BY <1>7, <1>13 DEF Framed, Given
  <2>3. DirInv(t)
    BY <1>11, <2>1 DEF DirInv
  <2>4. TableInv(t, {})
    <3> SUFFICES ASSUME NEW g \in Frames, t.iv[g].valid = "PAGE_TAB"
                 PROVE  \E d \in PdIdxs : HasTab(t, t.iv[g].pid, d) /\ Tab(t, t.iv[g].pid, d) = g
      BY DEF TableInv
    <3>1. s.iv[g].valid = "PAGE_TAB" /\ g # f /\ t.iv[g].pid = s.iv[g].pid
      BY <1>11, <2>2
    <3>2. s.iv[g].pid \in Procs /\ s.iv[g].pid # p
      BY <1>1, <1>3, <2>2, <3>1
    <3>3. t.pd[s.iv[g].pid] = s.pd[s.iv[g].pid]
      BY <1>11, <3>2
    <3>4. TableInv(s, {f}) /\ g \in Frames /\ g \notin {f}
      BY <2>1, <3>1
    <3> QED
      BY ONLY <3>1, <3>3, <3>4, TableThere
  <2> QED
    BY <1>11, <2>1, <2>3, <2>4 DEF Tidy, HookInv
<1>14. Settled(t, A \cup {p}, n)
  BY <1>11, <1>12, <1>13 DEF Settled
<1> QED
  BY <1>3, <1>14 DEF n

\* Every step finds the frame and the place it needs, and the page that goes is the one
\* the hooks expect, or the panic is explained.
LEMMA CalmStep ==
  ASSUME TablesFit, TypeInv, GateInv, DiskInv, PagerInv, CalmInv, TableSpared, [Next]_vars
  PROVE  CalmInv'
<1> DEFINE n == sys.hsize
           Goal == Settled(vm', Alive', n)
<1>1. sys' = sys /\ sys \in Systems
  BY DEF Next, Handler, vcreate, kill, read, write, fault, enterHandler, myPageFault,
         leaveHandler, preempt, idle, vars, TypeInv
<1>2. CASE ~Up
  <2>1. UNCHANGED vars
    BY <1>2 DEF Next, Handler, vcreate, kill, read, write, fault, enterHandler, myPageFault,
                leaveHandler, preempt, idle, At
  <2> QED
    BY <1>2, <2>1 DEF CalmInv, Up, vars, DiskShort, HooksBehind, HandLost, FreeFrames, Alive,
                      Heap
<1>3. CASE Up
  <2>1. /\ n \in [Procs -> Nat] /\ Alive \in SUBSET Procs
        /\ \A q \in Alive : n[q] <= MaxHeapSize
        /\ \A q \in Procs : Heap(q) = 0..(n[q] - 1)
    BY SystemTyped
  <2>2. /\ vm \in VmType /\ SoundInv(vm, Alive, n, written) /\ StoreInv(vm, Alive, n)
        /\ Tidy(vm, {}) /\ HookInv(vm) /\ ~vm.panic
    BY <1>3 DEF PagerInv, AgreeInv, DiskInv, CalmInv, Up
  <2> HIDE DEF n
  <2>3. ASSUME vm'.iv = vm.iv, vm'.fifo = vm.fifo, vm'.pd = vm.pd, vm'.hooks = vm.hooks,
               vm'.panic = vm.panic
        PROVE  Goal
    <3>1. Tidy(vm', {}) /\ HookInv(vm')
      BY <2>2, <2>3, SameCalm
    <3> QED
      BY <2>2, <2>3, <3>1 DEF Settled
  <2>4. ASSUME NEW p \in Procs, kill(p) PROVE Goal
    <3>1. vm' = FreeFramesOf(vm, p) /\ Distinct(vm.fifo)
      BY <2>2, <2>4 DEF kill, SoundInv, ListInv
    <3>2. Freed(vm, vm', p)
      BY <2>2, <3>1, KillEffect
    <3>3. Tidy(vm', {}) /\ HookInv(vm') /\ vm'.panic = vm.panic
      BY <2>2, <3>2, KillCalm
    <3> QED
      BY <2>2, <3>3 DEF Settled
  <2>5. ASSUME NEW s \in VmType, NEW v, NEW bits, s.iv = vm.iv, s.fifo = vm.fifo, s.pd = vm.pd,
               s.hooks = vm.hooks, s.panic = vm.panic,
               vm' \in {s, SetUse(s, currpid, v, bits)}
        PROVE  Goal
    <3>1. /\ vm'.iv = s.iv /\ vm'.fifo = s.fifo /\ vm'.pd = s.pd /\ vm'.hooks = s.hooks
          /\ vm'.panic = s.panic
      BY <2>5 DEF SetUse, VmType
    <3> QED
      BY <2>3, <2>5, <3>1
  <2>6. ASSUME NEW v \in Vpns, read(v) PROVE Goal
    BY <2>2, <2>5, <2>6 DEF read
  <2>7. ASSUME NEW v \in Vpns, NEW d \in Vals, write(v, d) PROVE Goal
    <3> DEFINE s == [vm EXCEPT !.mem[Pte(vm, currpid, v).base] = d]
    <3>1. vm' \in {s, SetUse(s, currpid, v, 2)}
      BY <2>7 DEF write
    <3>2. /\ s.iv = vm.iv /\ s.fifo = vm.fifo /\ s.pd = vm.pd /\ s.hooks = vm.hooks
          /\ s.panic = vm.panic
      BY <2>2 DEF VmType
    <3>3. s \in VmType
      BY <2>2 DEF VmType
    <3> HIDE DEF s
    <3> QED
      BY <2>5, <3>1, <3>2, <3>3
  <2>8. ASSUME myPageFault PROVE Goal
    <3>1. /\ At("handle") /\ currpid \in Procs /\ currpid \in Alive
          /\ vm' = IF cr2 \in Heap(currpid) THEN ServeFault(vm, currpid, cr2) ELSE vm
      BY <2>8 DEF myPageFault, At, Alive
    <3>2. CASE cr2 \in Heap(currpid)
      <4>1. vm' = ServeFault(vm, currpid, cr2) /\ cr2 \in 0..(n[currpid] - 1)
        BY <2>1, <3>1, <3>2
      <4>2. HasTab(vm, currpid, PdIdx(cr2)) /\ FreeFrames(vm) = {} /\ ~NoVictim(vm) =>
                ~LastOf(vm, Victim(vm), currpid, PdIdx(cr2))
        BY <3>1, <3>2 DEF TableSpared
      <4>3. /\ ~vm'.panic => Tidy(vm', {}) /\ HookInv(vm')
            /\ Excused(vm, vm', Alive, n)
        <5>1. n = sys.hsize
          BY DEF n
        <5> QED
          BY <1>1, <2>1, <2>2, <3>1, <4>1, <4>2, <5>1, FaultCalm
      <4>4. Kept(vm, vm')
        BY <4>1, KeptByFault
      <4>5. Short(vm, Alive, n) => Short(vm', Alive, n)
        BY <2>2, <4>4, ShortKept
      <4>6. Alive' = Alive
        BY <2>8, AliveKept
      <4> QED
        BY <4>3, <4>5, <4>6 DEF Excused, Settled
    <3>3. CASE cr2 \notin Heap(currpid)
      BY <2>3, <3>1, <3>3
    <3> QED
      BY <3>2, <3>3
  <2>9. ASSUME \/ \E v \in Vpns : fault(v)
               \/ enterHandler \/ leaveHandler \/ idle \/ UNCHANGED vars
               \/ \E p \in Procs \cup {MAIN} : preempt(p)
        PROVE  Goal
    <3>1. vm' = vm
      BY <2>9 DEF fault, enterHandler, leaveHandler, idle, preempt, vars
    <3> QED
      BY <2>3, <3>1
  <2>10. \A p \in Procs : vcreate(p) => Goal
    BY vcreateCalm DEF n
  <2>11. \A v \in Vpns : \A d \in Vals \ {0} : write(v, d) => Goal
    BY <2>7
  <2>12. Goal
    BY <2>4, <2>6, <2>8, <2>9, <2>10, <2>11 DEF Next, Handler
  <2> QED
    BY <1>1, <2>12, CalmNext DEF n
<1> QED
  BY <1>2, <1>3

\* PanicsExplained: whatever is created, killed, faulted on and replaced under either
\* policy, and however short the disk is, the pager panics only because the disk ends
\* before a heap, the hooks were not told of a kill, or the hand of GCA is lost.  There
\* are more frames than page directories and tables, and the two defects of the handler
\* have not struck.
THEOREM PanicsAreExplained ==
  ASSUME TablesFit
  PROVE  Spec /\ []FaultsApart => []PanicsExplained
<1>1. Init => CalmInv
  <2>1. ASSUME Init PROVE Up /\ Tidy(vm, {}) /\ HookInv(vm)
    <3>1. /\ \A f \in Frames : vm.iv[f] = NullIv
          /\ vm.fifo = << >> /\ vm.hooks = << >> /\ vm.panic = FALSE
      BY <2>1 DEF Init
    <3>2. \A f \in Frames : vm.iv[f].valid = "NULL_PAGE"
      BY <3>1 DEF NullIv
    <3> QED
      BY <3>1, <3>2 DEF Up, Tidy, HookInv, DirInv, TableInv, Noted
  <2> QED
    BY <2>1 DEF CalmInv
<1>2. TypeInv /\ GateInv /\ DiskInv /\ PagerInv /\ CalmInv /\ TableSpared /\ [Next]_vars
         => CalmInv'
  BY CalmStep
<1>3. Spec => [](TypeInv /\ DiskInv)
  BY DiskInvariance
<1>4. Spec /\ []FaultsApart => [](TypeInv /\ PagerInv)
  BY PagerInvariance
<1>5. Init => TypeInv /\ GateInv
  BY GateInit
<1>6. TypeInv /\ GateInv /\ [Next]_vars => TypeInv' /\ GateInv'
  BY GateStep
<1>7. FaultsApart => TableSpared
  BY DEF FaultsApart
<1>8. CalmInv => PanicsExplained
  BY DEF CalmInv, PanicsExplained
<1> QED
  BY <1>1, <1>2, <1>3, <1>4, <1>5, <1>6, <1>7, <1>8, PTL DEF Spec
=============================================================================

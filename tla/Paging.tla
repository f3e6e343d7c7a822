------------------------------- MODULE Paging -------------------------------
(***************************************************************************)
(* Demand paging of the per-process virtual heaps: the inverted page table *)
(* ivptab, page directories and page tables, the replacement list with its *)
(* FIFO and GCA policies, the backing stores bsmap maps heaps to, and the  *)
(* page-fault handler (system/initialize.c, vcreate.c, kill.c,             *)
(* pagefault.S), for the QEMU build, where the disk never blocks.          *)
(*                                                                         *)
(* Everything between disable() and restore() is one step.  The handler is *)
(* entered through a trap gate, so interrupts are still enabled when it    *)
(* waits for pgf_frame_sem and when it signals it; those are the points    *)
(* "enter", "handle" and "release" of pc, at which the clock may preempt   *)
(* the process if sys.windows holds                                        *)
(*                                                                         *)
(* The processor, the memory and the disk are external: CR2 is the address *)
(* of the last fault, an access sets the accessed and dirty bits of a page *)
(* table entry unless the TLB already had them set.                        *)
(***************************************************************************)
EXTENDS BackingStore, Sequences, SequencesExt

CONSTANTS
    Procs,          \* process identifiers of the paged processes
    Frames,         \* frames left after sysinit, in ascending order
    MaxHeapSize,    \* hsize at most
    PageTabSize,    \* entries of a page table (PAGETABSIZE)
    Vals,           \* contents of a page; 0 is what the disk holds at first
    PolicyTesting,  \* is POLICY_TESTING set in hooks.c?
    Systems         \* what is run, a set of records: the policy given to srpolicy, how
                    \* many of the Frames there are, the bound on how often each process
                    \* is created, its hsize, and whether the clock may interrupt the
                    \* handler outside disable

ASSUME PagingAssumption ==
    /\ Procs \subseteq Nat \ {0}
    /\ Frames \subseteq Nat \ {0} /\ IsFiniteSet(Frames)
    /\ MaxHeapSize \in Nat \ {0}
    /\ PageTabSize \in Nat \ {0}
    /\ 0 \in Vals
    /\ PolicyTesting \in BOOLEAN
    /\ Systems \subseteq [policy : {"FIFO", "GCA"}, nframes : Nat, lives : [Procs -> Nat],
                        windows : BOOLEAN, hsize : [Procs -> 0..MaxHeapSize]]

MAIN == 0           \* the process that creates the others; it never faults
Vpns == 0..(MaxHeapSize - 1)
PdIdx(vpn) == vpn \div PageTabSize
PtIdx(vpn) == vpn % PageTabSize
PdIdxs == {PdIdx(v) : v \in Vpns}
HEAD == -1          \* fifo_hand points at fifo_head
TAIL == -2          \* ... at fifo_tail
NONE == 0

VARIABLES
    sys,        \* the member of Systems that runs, and so currpolicy
    vm,         \* the paging state, a record:
                \*   iv      ivptab
                \*   fifo    the replacement list, oldest page first
                \*   hand    fifo_hand
                \*   pd, pt  page directories, and what is in each table frame
                \*   mem     what is in each page frame
                \*   bsmap   which store holds which pages
                \*   bstab   the page server's table of stores
                \*   disk    what is on the disk
                \*   hooks   frame_md of hooks.c
                \*   panic   panic() has been called
    pc,         \* where each process is
    currpid,    \* the running process
    semqueue,   \* processes waiting for pgf_frame_sem, in order
    semfree,    \* pgf_frame_sem is not taken
    cr2,        \* page of the last faulting address
    written,    \* history: what each process last wrote to each of its pages
    lives       \* history: how often each process has been created

Heap(p) == 0..(sys.hsize[p] - 1)
vars == <<sys, vm, pc, currpid, semqueue, semfree, cr2, written, lives>>

IvEntry == [valid : {"NULL_PAGE", "PAGE_DIR", "PAGE_TAB", "PAGE"},
            pid : Procs \cup {0}, vpn : Vpns \cup {0}, ref : Int]
\* use stands for the accessed and dirty bits: 0 (0,0), 1 (1,0), 2 (1,1).
PtEntry == [pres : BOOLEAN, base : Frames \cup {NONE}, use : 0..2]
PdEntry == [pres : BOOLEAN, base : Frames \cup {NONE}]
BsEntry == [pid : Procs \cup {0}, num : Nat, start : Nat]

NullIv == [valid |-> "NULL_PAGE", pid |-> 0, vpn |-> 0, ref |-> 0]
NoPte == [pres |-> FALSE, base |-> NONE, use |-> 0]
NoPde == [pres |-> FALSE, base |-> NONE]
NoBs == [pid |-> 0, num |-> 0, start |-> 0]

Panic(s) == [s EXCEPT !.panic = TRUE]

----------------------------------------------------------------------------
\* get_store_offset: the first store that maps the page, and the page's place
\* in it.  The code leaves both unset when there is none.
Maps(s, b, pid, vpn) ==
    /\ s.bsmap[b].pid = pid
    /\ vpn >= s.bsmap[b].start
    /\ vpn - s.bsmap[b].start < s.bsmap[b].num

HasStore(s, pid, vpn) == \E b \in Stores : Maps(s, b, pid, vpn)
Store(s, pid, vpn) == Min({b \in Stores : Maps(s, b, pid, vpn)})
Offset(s, pid, vpn) == vpn - s.bsmap[Store(s, pid, vpn)].start

HasPlace(s, pid, vpn) ==
    HasStore(s, pid, vpn)
    /\ Transferable(s.bstab, Store(s, pid, vpn), Offset(s, pid, vpn))
Place(s, pid, vpn) == PageAt(Store(s, pid, vpn), Offset(s, pid, vpn))

\* Mutant: the page is not written.
write_bsLost(s, pid, vpn, f) == s

\* write_bs and read_bs of the page in frame f; the callers panic when they fail.
write_bs(s, pid, vpn, f) ==
    IF ~HasPlace(s, pid, vpn) THEN Panic(s)
    ELSE [s EXCEPT !.disk = qrds_write(@, Place(s, pid, vpn), s.mem[f])]

read_bs(s, pid, vpn, f) ==
    IF ~HasPlace(s, pid, vpn) THEN Panic(s)
    ELSE [s EXCEPT !.mem[f] = qrds_read(s.disk, Place(s, pid, vpn))]

\* The page table frame and the entry of a page, whether present or not.
TabOf(s, pid, vpn) == s.pd[pid][PdIdx(vpn)].base
Pte(s, pid, vpn) == s.pt[TabOf(s, pid, vpn)][PtIdx(vpn)]

----------------------------------------------------------------------------
\* The GCA scan.  From the hand on, the list is walked round and round: an
\* entry (1,1) becomes (1,0), (1,0) becomes (0,0), and the first entry found
\* (0,0) is replaced.  That is the first one of the least use; each pass takes
\* one off every entry's use, the last pass only up to the victim.
HandPos(s) == IF s.hand = HEAD THEN 1
              ELSE CHOOSE i \in 1..Len(s.fifo) : s.fifo[i] = s.hand

FromHand(s) == SubSeq(s.fifo, HandPos(s), Len(s.fifo))
               \o SubSeq(s.fifo, 1, HandPos(s) - 1)

Use(s, f) == Pte(s, s.iv[f].pid, s.iv[f].vpn).use

ScanEnd(s) ==
    LET q == FromHand(s)
        least == Min({Use(s, q[i]) : i \in 1..Len(q)})
    IN  Min({i \in 1..Len(q) : Use(s, q[i]) = least})

\* What the scan leaves of the use of the page in the i-th frame it visits.
UseLeft(s, i) ==
    LET q == FromHand(s)
        least == Use(s, q[ScanEnd(s)])
    IN  Use(s, q[i]) - least - (IF i < ScanEnd(s) THEN 1 ELSE 0)

GcaVictim(s) == FromHand(s)[ScanEnd(s)]

\* The hand moves on to the entry after the victim without wrapping round: past
\* the newest page it stays on fifo_tail.
GcaScan(s) ==
    LET q == FromHand(s)
        v == GcaVictim(s)
        i == CHOOSE j \in 1..Len(s.fifo) : s.fifo[j] = v
        left == [f \in Range(q) |->
                    UseLeft(s, CHOOSE j \in 1..Len(q) : q[j] = f)]
        tab(f) == TabOf(s, s.iv[f].pid, s.iv[f].vpn)
    IN  [s EXCEPT
           !.hand = IF i = Len(s.fifo) THEN TAIL ELSE s.fifo[i + 1],
           !.pt = [t \in Frames |-> [k \in DOMAIN s.pt[t] |->
               IF \E f \in Range(q) : tab(f) = t /\ PtIdx(s.iv[f].vpn) = k
               THEN [s.pt[t][k] EXCEPT !.use =
                       left[CHOOSE f \in Range(q) :
                              tab(f) = t /\ PtIdx(s.iv[f].vpn) = k]]
               ELSE s.pt[t][k]]]]

\* There is no frame to replace in an empty list, nor from a hand on fifo_tail
\* ("should never happen").  From a hand on an entry that kill took off the list the
\* code goes on into the reset entry and NULL, which is undefined: the model stops
\* there as in a panic, and HandLost names the case.
NoVictim(s) ==
    \/ s.fifo = << >>
    \/ sys.policy = "GCA" /\ s.hand = TAIL
    \/ sys.policy = "GCA" /\ s.hand \in Frames /\ s.hand \notin Range(s.fifo)

\* Mutant: the newest page goes first.
VictimNewest(s) == Last(s.fifo)

Victim(s) == IF sys.policy = "FIFO" THEN Head(s.fifo) ELSE GcaVictim(s)

\* hook_pfault notes the page; the note is read under FIFO only.
hook_pfault(hooks, pid, vpn) ==
    IF PolicyTesting /\ sys.policy = "FIFO" THEN Append(hooks, <<pid, vpn>>) ELSE hooks

\* hook_pswap_out checks, under FIFO, that the pages go in the order in which
\* hook_pfault saw them come.
hook_pswap_out(s, pid, vpn) ==
    IF sys.policy # "FIFO" \/ ~PolicyTesting THEN s
    ELSE IF s.hooks = << >> THEN Panic(s)
    ELSE IF Head(s.hooks) # <<pid, vpn>> THEN Panic(s)
    ELSE [s EXCEPT !.hooks = Tail(@)]

\* The replacement list without the entries of the frames in F.
Unlink(q, F) ==
    LET left[i \in 0..Len(q)] ==
            IF i = 0 THEN << >>
            ELSE IF q[i] \in F THEN left[i - 1] ELSE Append(left[i - 1], q[i])
    IN  left[Len(q)]

\* Replace the page in frame f: it is always written to its store, its entry
\* is no longer present, and its page table goes with its last page.
Evict(s0, f) ==
    LET pid == s0.iv[f].pid
        vpn == s0.iv[f].vpn
        tab == TabOf(s0, pid, vpn)
        s1 == write_bs(s0, pid, vpn, f)
        s2 == [s1 EXCEPT !.fifo = Unlink(@, {f}),
                         !.pt[tab][PtIdx(vpn)].pres = FALSE]
        s3 == IF s2.iv[tab].valid # "PAGE_TAB" THEN Panic(s2)
              ELSE [s2 EXCEPT !.iv[tab].ref = @ - 1]
        s4 == IF s3.iv[tab].ref # 0 THEN s3
              ELSE [s3 EXCEPT !.pd[pid][PdIdx(vpn)].pres = FALSE,
                              !.iv[tab].valid = "NULL_PAGE"]
    IN  hook_pswap_out(s4, pid, vpn)

\* Mutant: only a frame that holds a page is in use.
FreeFramesNoTables(s) == {f \in Frames : f <= sys.nframes /\ s.iv[f].valid # "PAGE"}

FreeFrames(s) == {f \in Frames : f <= sys.nframes /\ s.iv[f].valid = "NULL_PAGE"}

\* Give frame f to pid for purpose; a page goes to the new end of the list.
\* What the frame held before, page or table, is overwritten.
Take(s, f, pid, vpn, purpose) ==
    [s EXCEPT !.iv[f] = [valid |-> purpose, pid |-> pid,
                         vpn |-> IF purpose = "PAGE" THEN vpn ELSE @.vpn,
                         ref |-> @.ref],
              !.fifo = IF purpose = "PAGE" THEN Append(@, f) ELSE @,
              !.mem[f] = 0,
              !.pt[f] = [k \in DOMAIN @ |-> NoPte]]

\* get_free_frame_number: the frame it returns, NONE if it panics instead, and
\* the state after it.
FrameFor(s) ==
    IF FreeFrames(s) # {} THEN Min(FreeFrames(s))
    ELSE IF NoVictim(s) THEN NONE
    ELSE Victim(s)

get_free_frame(s, pid, vpn, purpose) ==
    LET f == FrameFor(s) IN
    IF f = NONE THEN Panic(s)
    ELSE IF FreeFrames(s) # {} THEN Take(s, f, pid, vpn, purpose)
    ELSE LET s1 == IF sys.policy = "GCA" THEN GcaScan(s) ELSE s
         IN  Take(Evict(s1, f), f, pid, vpn, purpose)

\* create_pagetable: an empty table for directory entry d of pid.
create_pagetable(s, pid, d) ==
    LET f == FrameFor(s)
        s1 == get_free_frame(s, pid, 0, "PAGE_TAB")
    IN  IF s1.panic THEN s1
        ELSE [s1 EXCEPT !.pd[pid][d] = [pres |-> TRUE, base |-> f]]

\* The body of myPageFault for page vpn of pid.  The table entry is looked up
\* before the frame is obtained, and written after it.
ServeFault(s0, pid, vpn) ==
    LET d == PdIdx(vpn)
        s1 == IF s0.pd[pid][d].pres THEN s0 ELSE create_pagetable(s0, pid, d)
        tab == s1.pd[pid][d].base
        f == FrameFor(s1)
        s2 == get_free_frame(s1, pid, vpn, "PAGE")
        s3 == read_bs(s2, pid, vpn, f)
    IN  IF s1.panic THEN s1
        ELSE IF s2.panic THEN s2
        ELSE IF s3.panic THEN s3
        ELSE [s3 EXCEPT
                !.pt[tab][PtIdx(vpn)] = [pres |-> TRUE, base |-> f, use |-> 0],
                !.iv[s3.pd[pid][d].base].ref = @ + 1,
                !.hooks = hook_pfault(@, pid, vpn)]

----------------------------------------------------------------------------
\* bs_mapping: a store for n pages of the heap from page start on.
bs_mapping(s, pid, n, start) ==
    LET b == StoreFor(s.bstab, n)
    IN  IF n = 0 THEN s
        ELSE [s EXCEPT !.bstab = allocate_bs(@, n),
                       !.bsmap[b] = IF @.pid # 0 THEN @
                                    ELSE [pid |-> pid, num |-> n, start |-> start]]

\* vcreate's loop over bs_mapping: the heap is cut into pieces of at most
\* PagesPerStore pages.
Pieces(p) == (sys.hsize[p] + PagesPerStore - 1) \div PagesPerStore

MapPiece(s, p, k) ==
    LET start == (k - 1) * PagesPerStore
    IN  bs_mapping(s, p, Min({PagesPerStore, sys.hsize[p] - start}), start)

MapHeap(s, p) ==
    LET mapped[k \in 0..Pieces(p)] ==
            IF k = 0 THEN s ELSE MapPiece(mapped[k - 1], p, k)
    IN  mapped[Pieces(p)]

\* kill: each page of the process is written to its store and taken off the
\* list; fifo_hand and the hooks are not told.  write_bs cannot fail here, as a page
\* that is in memory has been read from the same place.
FreeFramesOf(s, p) ==
    LET mine(f) == s.iv[f].pid = p
        saved(i) == {f \in Frames : /\ mine(f) /\ s.iv[f].valid = "PAGE"
                                    /\ Place(s, p, s.iv[f].vpn) = i}
    IN  [s EXCEPT
           !.disk = [i \in DOMAIN @ |->
                       IF saved(i) = {} THEN @[i] ELSE s.mem[Max(saved(i))]],
           !.fifo = Unlink(@, {f \in Frames : mine(f)}),
           !.iv = [f \in Frames |-> IF mine(f) THEN NullIv ELSE s.iv[f]],
           !.bstab = [b \in Stores |-> IF s.bsmap[b].pid = p THEN deallocate_bs(@[b])
                                       ELSE @[b]],
           !.bsmap = [b \in Stores |-> IF @[b].pid = p THEN NoBs ELSE @[b]]]

----------------------------------------------------------------------------
Present(s, p, vpn) == s.pd[p][PdIdx(vpn)].pres /\ Pte(s, p, vpn).pres

Init ==
    /\ sys \in Systems
    /\ vm = [iv |-> [f \in Frames |-> NullIv],
             fifo |-> << >>,
             hand |-> HEAD,
             pd |-> [p \in Procs |-> [d \in PdIdxs |-> NoPde]],
             pt |-> [f \in Frames |-> [k \in 0..(PageTabSize - 1) |-> NoPte]],
             mem |-> [f \in Frames |-> 0],
             bsmap |-> [b \in Stores |-> NoBs],
             bstab |-> psinit,
             disk |-> qrds_init,
             hooks |-> << >>,
             panic |-> FALSE]
    /\ pc = [p \in Procs |-> "none"]
    /\ currpid = MAIN
    /\ semqueue = << >>
    /\ semfree = TRUE
    /\ cr2 = 0
    /\ written = [p \in Procs |-> [v \in Heap(p) |-> NONE]]
    /\ lives = [p \in Procs |-> 0]

Up == ~vm.panic
Runnable(at) == {MAIN} \cup {p \in Procs : at[p] \notin {"none", "blocked"}}
At(point) == Up /\ currpid \in Procs /\ pc[currpid] = point

\* vcreate of process p by the main process, and the resume that follows.
\* There are enough stores: allocate_bs's SYSERR is not tested, so without one the
\* code writes outside bsmap, which is undefined.
vcreate(p) ==
    /\ Up /\ currpid = MAIN
    /\ pc[p] = "none"
    /\ Cardinality(Allocatable(vm.bstab, 1)) >= Pieces(p)
    /\ lives[p] < sys.lives[p]
    /\ lives' = [lives EXCEPT ![p] = @ + 1]
    /\ LET s == get_free_frame(vm, p, 0, "PAGE_DIR") IN
       vm' = [MapHeap(s, p) EXCEPT
                !.pd[p] = [d \in PdIdxs |-> NoPde]]
    /\ pc' = [pc EXCEPT ![p] = "user"]
    /\ written' = [written EXCEPT ![p] = [v \in Heap(p) |-> NONE]]
    /\ UNCHANGED <<sys, currpid, semqueue, semfree, cr2>>

\* The queue of pgf_frame_sem without p.
Unwait(p) == RemoveAt(semqueue, CHOOSE i \in 1..Len(semqueue) : semqueue[i] = p)

\* kill of p, by itself when its program ends or by the main process wherever
\* p is.  A wait for pgf_frame_sem is undone; a semaphore p holds stays taken.
kill(p) ==
    /\ Up
    /\ \/ currpid = MAIN /\ pc[p] # "none"
       \/ currpid = p /\ pc[p] = "user"
    /\ vm' = FreeFramesOf(vm, p)
    /\ pc' = [pc EXCEPT ![p] = "none"]
    /\ semqueue' = IF pc[p] = "blocked" THEN Unwait(p) ELSE semqueue
    /\ IF currpid = MAIN THEN UNCHANGED currpid
       ELSE currpid' \in Runnable(pc')
    /\ UNCHANGED <<semfree, cr2, written, lives, sys>>

\* The user program reads or writes a page that is present.  The bits of the
\* entry matter to GCA only; a cached entry may hide the access.
SetUse(s, p, vpn, bits) ==
    IF sys.policy = "GCA"
    THEN [s EXCEPT !.pt[TabOf(s, p, vpn)][PtIdx(vpn)].use = Max({@, bits})]
    ELSE s

read(vpn) ==
    /\ At("user") /\ vpn \in Heap(currpid)
    /\ Present(vm, currpid, vpn)
    /\ vm' \in {vm, SetUse(vm, currpid, vpn, 1)}
    /\ UNCHANGED <<pc, currpid, semqueue, semfree, cr2, written, lives, sys>>

write(vpn, val) ==
    /\ At("user") /\ vpn \in Heap(currpid)
    /\ Present(vm, currpid, vpn)
    /\ LET s == [vm EXCEPT !.mem[Pte(vm, currpid, vpn).base] = val] IN
       vm' \in {s, SetUse(s, currpid, vpn, 2)}
    /\ written' = [written EXCEPT ![currpid][vpn] = val]
    /\ UNCHANGED <<pc, currpid, semqueue, semfree, cr2, lives, sys>>

\* The user program touches a page that is not present: exception 14.
fault(vpn) ==
    /\ At("user") /\ vpn \in Heap(currpid)
    /\ ~Present(vm, currpid, vpn)
    /\ cr2' = vpn
    /\ pc' = [pc EXCEPT ![currpid] = "enter"]
    /\ UNCHANGED <<vm, currpid, semqueue, semfree, written, lives, sys>>

\* wait(pgf_frame_sem)
enterHandler ==
    /\ At("enter")
    /\ \/ /\ semfree
          /\ semfree' = FALSE
          /\ pc' = [pc EXCEPT ![currpid] = "handle"]
          /\ UNCHANGED <<currpid, semqueue>>
       \/ /\ ~semfree
          /\ semqueue' = Append(semqueue, currpid)
          /\ pc' = [pc EXCEPT ![currpid] = "blocked"]
          /\ currpid' \in Runnable(pc')
          /\ UNCHANGED semfree
    /\ UNCHANGED <<vm, cr2, written, lives, sys>>

\* disable() to restore(): the address is read from CR2 only now.  An address
\* outside the heap of the process is ignored.
myPageFault ==
    /\ At("handle")
    /\ vm' = IF cr2 \in Heap(currpid) THEN ServeFault(vm, currpid, cr2) ELSE vm
    /\ pc' = [pc EXCEPT ![currpid] = "release"]
    /\ UNCHANGED <<currpid, semqueue, semfree, cr2, written, lives, sys>>

\* Mutant: the release does not wake the process that waits.
ReleaseUnheard ==
    /\ semfree' = TRUE
    /\ pc' = [pc EXCEPT ![currpid] = "user"]
    /\ UNCHANGED <<semqueue, currpid>>

\* signal(pgf_frame_sem) and the return to the faulting instruction; the
\* process that is released may run at once.
Release ==
    \/ /\ semqueue = << >>
       /\ semfree' = TRUE
       /\ pc' = [pc EXCEPT ![currpid] = "user"]
       /\ UNCHANGED <<semqueue, currpid>>
    \/ /\ semqueue # << >>
       /\ semqueue' = Tail(semqueue)
       /\ pc' = [pc EXCEPT ![currpid] = "user", ![Head(semqueue)] = "handle"]
       /\ currpid' \in {currpid, Head(semqueue)}
       /\ UNCHANGED semfree

leaveHandler ==
    /\ At("release")
    /\ Release
    /\ UNCHANGED <<vm, cr2, written, lives, sys>>

\* The clock, or a sleep, gives the CPU to another process.
preempt(p) ==
    /\ Up
    /\ (currpid \in Procs /\ pc[currpid] # "user") => sys.windows
    /\ p \in Runnable(pc) \ {currpid}
    /\ currpid' = p
    /\ UNCHANGED <<vm, pc, semqueue, semfree, cr2, written, lives, sys>>

\* The main process does something else; panic stops the system.
idle == (currpid = MAIN \/ vm.panic) /\ UNCHANGED vars

Handler == enterHandler \/ myPageFault \/ leaveHandler

Next ==
    \/ \E p \in Procs : vcreate(p) \/ kill(p)
    \/ \E v \in Vpns : read(v) \/ fault(v) \/ \E d \in Vals \ {0} : write(v, d)
    \/ Handler
    \/ \E p \in Procs \cup {MAIN} : preempt(p)
    \/ idle

Spec == Init /\ [][Next]_vars

----------------------------------------------------------------------------
VmType == [iv : [Frames -> IvEntry],
           fifo : Seq(Frames),
           hand : Frames \cup {HEAD, TAIL},
           pd : [Procs -> [PdIdxs -> PdEntry]],
           pt : [Frames -> [0..(PageTabSize - 1) -> PtEntry]],
           mem : [Frames -> Vals],
           bsmap : [Stores -> BsEntry],
           bstab : [Stores -> [isopen : BOOLEAN, isallocated : BOOLEAN,
                               usecount : Int, npages : Nat]],
           disk : [0..(DiskPages - 1) -> Vals],
           hooks : Seq(Procs \X Vpns),
           panic : BOOLEAN]

TypeOK ==
    /\ sys \in Systems
    /\ vm \in VmType
    /\ pc \in [Procs -> {"none", "user", "enter", "blocked", "handle", "release"}]
    /\ currpid \in Procs \cup {MAIN}
    /\ semqueue \in Seq(Procs)
    /\ semfree \in BOOLEAN
    /\ cr2 \in Vpns
    /\ \A p \in Procs : written[p] \in [Heap(p) -> Vals]
    /\ \A p \in Procs : lives[p] \in 0..sys.lives[p]

Alive == {p \in Procs : pc[p] # "none"}
PagesOf(p) == {v \in Heap(p) : Present(vm, p, v)}

\* The inverted page table, the page tables and the replacement list agree.
\* Each page that is present is in a frame ivptab gives to it, each frame that
\* holds a page is mapped by the entry of that page and is on the list once,
\* and a page table lives as long as it has pages and counts them.
FrameInv ==
    TypeOK /\ (Up =>
    /\ \A p \in Alive : \A v \in PagesOf(p) :
          LET f == Pte(vm, p, v).base IN
          vm.iv[f].valid = "PAGE" /\ vm.iv[f].pid = p /\ vm.iv[f].vpn = v
    /\ \A f \in Frames : vm.iv[f].valid = "PAGE" =>
          LET p == vm.iv[f].pid  v == vm.iv[f].vpn IN
          p \in Alive /\ v \in PagesOf(p) /\ Pte(vm, p, v).base = f
    /\ Range(vm.fifo) = {f \in Frames : vm.iv[f].valid = "PAGE"}
    /\ IsInjective(vm.fifo)
    /\ \A p \in Alive : \A d \in PdIdxs : vm.pd[p][d].pres =>
          LET t == vm.pd[p][d].base IN
          /\ vm.iv[t].valid = "PAGE_TAB" /\ vm.iv[t].pid = p
          /\ vm.iv[t].ref = Cardinality({v \in PagesOf(p) : PdIdx(v) = d})
          /\ vm.iv[t].ref > 0)

\* A process finds in each of its pages what it last wrote there, whether the
\* page is in memory or has been replaced.
DataIntact ==
    Up => \A p \in Alive : \A v \in Heap(p) :
        written[p][v] # NONE =>
            IF Present(vm, p, v)
            THEN vm.mem[Pte(vm, p, v).base] = written[p][v]
            ELSE vm.disk[Place(vm, p, v)] = written[p][v]

\* Every page of a living process is in a store that is open and long enough, its place
\* there is no other page's, and a store is allocated exactly while it is mapped.
\* Whether the disk reaches to that place is not said: the disk holds fewer stores than
\* paging.h promises.
StoresDisjoint ==
    Up =>
    /\ \A p \in Alive : \A v \in Heap(p) :
          HasStore(vm, p, v) /\ InStore(vm.bstab, Store(vm, p, v), Offset(vm, p, v))
    /\ \A p, q \in Alive : \A v \in Heap(p), w \in Heap(q) :
          Place(vm, p, v) = Place(vm, q, w) => p = q /\ v = w
    /\ \A b \in Stores : vm.bstab[b].isallocated <=> vm.bsmap[b].pid # 0

\* kill has taken a process that held pgf_frame_sem.
Abandoned == ~semfree /\ \A p \in Procs : pc[p] \notin {"handle", "release"}

\* At most one process is between wait and signal of pgf_frame_sem, the others are
\* queued behind it, and a fault waits only while another is served, or for ever
\* behind a process that was killed inside the handler.
HandlerExclusive ==
    LET inside == {p \in Procs : pc[p] \in {"handle", "release"}} IN
    /\ Cardinality(inside) <= 1
    /\ semqueue # << >> => inside # {} \/ Abandoned
    /\ semfree => inside = {}
    /\ Range(semqueue) = {p \in Procs : pc[p] = "blocked"}

\* The disk ends before a page of a living process.
DiskShort == \E p \in Alive : \E v \in Heap(p) : ~OnDisk(Place(vm, p, v))

\* hook_pswap_out still expects pages that kill has taken off the list.
HooksBehind == sys.policy = "FIFO" /\ PolicyTesting /\ Len(vm.fifo) < Len(vm.hooks)

\* No frame is free, and fifo_hand has stopped at fifo_tail or on an entry that is not
\* in the list any more.
HandLost ==
    sys.policy = "GCA" /\ FreeFrames(vm) = {} /\ vm.hand \notin {HEAD} \cup Range(vm.fifo)

\* The pager panics for these reasons only: the disk is too short for the heaps, the
\* hooks were not told of a kill, or the hand is lost.  Otherwise a victim is found,
\* goes in the order the policy says, counts down a page table and reaches its store:
\* the branches that "should never happen" and "fifo error" are not taken.
PanicsExplained == Up \/ DiskShort \/ HooksBehind \/ HandLost
=============================================================================

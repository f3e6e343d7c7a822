------------------------------- MODULE Memory -------------------------------
(***************************************************************************)
(* The kernel's heap and what lives on it: blocks and stacks of the        *)
(* callers, buffer pools (mkbufpool, getbuf, freebuf), and the nodes that  *)
(* describe the virtual heap of a process made by vcreate.                 *)
(*                                                                         *)
(* Every call runs with interrupts disabled and is one step, but getbuf,   *)
(* which gives up the processor in wait: the process that freebuf releases *)
(* takes its buffer when it runs again, and may be killed before.          *)
(*                                                                         *)
(* Callers free what they hold, or something that is free already; a       *)
(* process that is killed takes with it what it holds.                     *)
(***************************************************************************)
EXTENDS Heap, FiniteSets

CONSTANTS
    Procs,          \* the processes that use buffers
    Requests,       \* sizes asked for, in bytes
    VRequests,      \* sizes asked of the virtual heap
    PoolRequests,   \* pairs <<bufsiz, numbufs>>
    NBPOOLS,        \* entries of buftab
    NSEM,           \* semaphores left for buffer pools
    Loads           \* sets of what is used together: "blocks", "stacks", "virtual"
                    \* (the virtual heap) and "pools"

BP_MINB == 8
BP_MAXB == 8192
BP_MAXN == 2048

\* mkbufpool's size of a buffer, with the word for the pool's number in front.
Rounded4(n) == ((n + 3) \div 4) * 4
BufSize(bufsiz) == Rounded4(bufsiz) + 4

ASSUME MemoryAssumption ==
    /\ \A n \in Requests \cup VRequests : n \in Nat /\ n + 7 < 2^Width
    /\ PoolRequests \subseteq Int \X Int
    /\ \A r \in PoolRequests :
          r[1] <= BP_MAXB /\ r[2] <= BP_MAXN => r[2] * BufSize(r[1]) + 7 < 2^Width
    /\ IsFiniteSet(Procs)
    /\ {NBPOOLS, NSEM} \subseteq Nat
    /\ Loads \subseteq SUBSET {"blocks", "stacks", "virtual", "pools"}

VARIABLES
    load,       \* the member of Loads that runs
    mem,        \* memlist
    held,       \* blocks the callers have, as getmem gave them
    stacks,     \* stacks the callers have, as getstk gave them
    vheap,      \* vmemlist of the process with a virtual heap
    vheld,      \* blocks of the virtual heap its program has
    buftab,     \* the buffer pools made so far
    proc,       \* what each process is doing: "run", or "wait" or "ready" in
                \* getbuf, on which pool, and the buffers it has
    nsem,       \* semaphores left
    up,         \* no pointer SYSERR has been written through
    refused,    \* history: units of the request to the heap just refused, or 0
    vrefused,   \* history: the same of the virtual heap
    lost,       \* history: units of the heap nothing refers to any more
    orphans     \* history: buffers, and units of a pool's semaphore, that went
                \* with a killed process

vars == <<load, mem, held, stacks, vheap, vheld, buftab, proc, nsem, up, refused, vrefused,
          lost, orphans>>

Block(addr, nbytes) == [addr |-> addr, nbytes |-> nbytes]

\* The 8-byte units of n bytes from a on.
UnitsOf(a, n) == (a \div 8)..((a + n) \div 8 - 1)
FreeUnits(list) == UNION {UnitsOf(list[i].addr, list[i].len) : i \in DOMAIN list}
Room(nbytes) == roundmb(nbytes) \div 8

LostNode(node) == IF node = INTAB THEN {} ELSE UnitsOf(node, roundmb(VMEMBLK))

Running == [at |-> "run", pool |-> 0, bufs |-> {}]

Init ==
    /\ load \in Loads
    /\ mem = meminit
    /\ held = {} /\ stacks = {}
    /\ vheap = NewVHeap
    /\ vheld = {}
    /\ buftab = << >>
    /\ proc = [p \in Procs |-> Running]
    /\ nsem = NSEM
    /\ up = TRUE
    /\ refused = 0 /\ vrefused = 0
    /\ lost = {}
    /\ orphans = [bufs |-> {}, units |-> [i \in 1..NBPOOLS |-> 0]]

Quiet == refused' = 0 /\ vrefused' = 0

----------------------------------------------------------------------------
\* getmem and getstk, called by anyone.
GetMem(n) ==
    /\ up
    /\ LET got == getmem(mem, n) IN
       /\ mem' = got.mem
       /\ held' = IF got.addr = SYSERR THEN held ELSE held \cup {Block(got.addr, n)}
       /\ refused' = IF got.addr = SYSERR THEN Room(n) ELSE 0
    /\ vrefused' = 0
    /\ UNCHANGED <<stacks, vheap, vheld, buftab, proc, nsem, up, lost, orphans>>

GetStk(n) ==
    /\ up
    /\ LET got == getstk(mem, n) IN
       /\ mem' = got.mem
       /\ stacks' = IF got.addr = SYSERR THEN stacks ELSE stacks \cup {Block(got.addr, n)}
       /\ refused' = IF got.addr = SYSERR THEN Room(n) ELSE 0
    /\ vrefused' = 0
    /\ UNCHANGED <<held, vheap, vheld, buftab, proc, nsem, up, lost, orphans>>

\* A block its holder frees, or one that is free already or below the heap.
Freeable(b) ==
    \/ b \in held
    \/ UnitsOf(b.addr, roundmb(b.nbytes)) \subseteq
          FreeUnits(mem.list) \cup UnitsOf(0, minheap)

FreeMem(b) ==
    /\ up
    /\ Freeable(b)
    /\ mem' = freemem(mem, b.addr, b.nbytes).mem
    /\ held' = held \ {b}
    /\ Quiet
    /\ UNCHANGED <<stacks, vheap, vheld, buftab, proc, nsem, up, lost, orphans>>

FreeStk(b) ==
    /\ up
    /\ b \in stacks
    /\ mem' = freestk(mem, b.addr, b.nbytes).mem
    /\ stacks' = stacks \ {b}
    /\ Quiet
    /\ UNCHANGED <<held, vheap, vheld, buftab, proc, nsem, up, lost, orphans>>

----------------------------------------------------------------------------
\* vgetmem and vfreemem, called by the process with the virtual heap.
VGetMem(n) ==
    /\ up
    /\ LET got == vgetmem(vheap, n) IN
       /\ vheap' = got.vm
       /\ vheld' = IF got.addr = SYSERR THEN vheld ELSE vheld \cup {Block(got.addr, n)}
       /\ vrefused' = IF got.addr = SYSERR THEN Room(n) ELSE 0
       /\ lost' = lost \cup LostNode(got.unlinked)
    /\ refused' = 0
    /\ UNCHANGED <<mem, held, stacks, buftab, proc, nsem, up, orphans>>

VFreeable(b) ==
    \/ b \in vheld
    \/ UnitsOf(b.addr, roundmb(b.nbytes)) \subseteq
          FreeUnits(vheap.list) \cup UnitsOf(0, vmin)

\* getmem's answer is not looked at: without memory for a node the fields of the
\* block go to address SYSERR.
VFreeMem(b) ==
    /\ up
    /\ VFreeable(b)
    /\ vheld' = vheld \ {b}
    /\ up' = (VOutside(b.addr, b.nbytes) \/ getmem(mem, VMEMBLK).addr # SYSERR)
    /\ IF VOutside(b.addr, b.nbytes) \/ ~up'
       THEN /\ refused' = IF up' THEN 0 ELSE Room(VMEMBLK)
            /\ UNCHANGED <<mem, vheap, lost>>
       ELSE LET res == vfreemem(mem, vheap, b.addr, b.nbytes) IN
            /\ mem' = res.mem
            /\ vheap' = res.vm
            /\ lost' = lost \cup LostNode(res.unlinked)
            /\ refused' = 0
    /\ vrefused' = 0
    /\ UNCHANGED <<held, stacks, buftab, proc, nsem, orphans>>

\* The process is killed and another is made in its entry: vcreate sets up the
\* list anew, and the nodes of the old one are lost.
vcreate ==
    /\ up
    /\ vheap # NewVHeap \/ vheld # {}
    /\ vheap' = NewVHeap
    /\ vheld' = {}
    /\ lost' = lost \cup UNION {LostNode(vheap.list[i].node) : i \in DOMAIN vheap.list}
    /\ Quiet
    /\ UNCHANGED <<mem, held, stacks, buftab, proc, nsem, up, orphans>>

----------------------------------------------------------------------------
\* mkbufpool: the buffers, each with a word in front for the pool's number, lie
\* one after the other; without a semaphore their memory is not given back.
BadPool(bufsiz, numbufs) ==
    \/ bufsiz < BP_MINB \/ bufsiz > BP_MAXB
    \/ numbufs < 1 \/ numbufs > BP_MAXN
    \/ Len(buftab) >= NBPOOLS

BuffersFrom(addr, size, num) == [k \in 1..num |-> addr + (k - 1) * size]

mkbufpool(bufsiz, numbufs) ==
    LET size == BufSize(bufsiz)
        got == getmem(mem, numbufs * size)
    IN
    /\ up
    /\ IF BadPool(bufsiz, numbufs)
       THEN refused' = 0 /\ UNCHANGED <<mem, buftab, nsem, lost>>
       ELSE IF got.addr = SYSERR
       THEN refused' = Room(numbufs * size) /\ UNCHANGED <<mem, buftab, nsem, lost>>
       ELSE /\ refused' = 0
            /\ mem' = got.mem
            /\ nsem' = IF nsem = 0 THEN 0 ELSE nsem - 1
            /\ lost' = IF nsem > 0 THEN lost
                       ELSE lost \cup UnitsOf(got.addr, roundmb(numbufs * size))
            /\ buftab' = IF nsem = 0 THEN buftab
                         ELSE Append(buftab,
                                [addr |-> got.addr, size |-> size, num |-> numbufs,
                                 bpnext |-> BuffersFrom(got.addr, size, numbufs),
                                 count |-> numbufs, queue |-> << >>])
    /\ vrefused' = 0
    /\ UNCHANGED <<held, stacks, vheap, vheld, proc, up, orphans>>

\* Unlink the pool's first buffer and write the pool's number in front of it.
FirstTaken(pool) == [pool EXCEPT !.bpnext = Tail(@)]
Buffer(pool, i) == [addr |-> Head(pool.bpnext), pool |-> i]

\* getbuf up to wait, which returns at once or not.
getbuf(p, i) ==
    /\ up
    /\ proc[p].at = "run"
    /\ i \in DOMAIN buftab
    /\ IF buftab[i].count > 0
       THEN /\ buftab' = [buftab EXCEPT ![i] = [FirstTaken(buftab[i]) EXCEPT !.count = @ - 1]]
            /\ proc' = [proc EXCEPT ![p].bufs = @ \cup {Buffer(buftab[i], i)}]
       ELSE /\ buftab' = [buftab EXCEPT ![i].count = @ - 1,
                                        ![i].queue = Append(@, p)]
            /\ proc' = [proc EXCEPT ![p].at = "wait", ![p].pool = i]
    /\ Quiet
    /\ UNCHANGED <<mem, held, stacks, vheap, vheld, nsem, up, lost, orphans>>

\* ... and from wait on, when the process released by freebuf runs.
GotBuf(p) ==
    /\ up
    /\ proc[p].at = "ready"
    /\ LET i == proc[p].pool IN
       /\ buftab' = [buftab EXCEPT ![i] = FirstTaken(buftab[i])]
       /\ proc' = [proc EXCEPT ![p] =
                     [Running EXCEPT !.bufs = proc[p].bufs \cup {Buffer(buftab[i], i)}]]
    /\ Quiet
    /\ UNCHANGED <<mem, held, stacks, vheap, vheld, nsem, up, lost, orphans>>

\* freebuf: the buffer goes to the pool whose number is in front of it, and
\* signal releases the first process that waits.
freebuf(p, b) ==
    LET pool == buftab[b.pool] IN
    /\ up
    /\ proc[p].at = "run"
    /\ b \in proc[p].bufs
    /\ buftab' = [buftab EXCEPT
                    ![b.pool].bpnext = << b.addr >> \o @,
                    ![b.pool].count = @ + 1,
                    ![b.pool].queue = IF pool.count < 0 THEN Tail(@) ELSE @]
    /\ proc' = [q \in Procs |->
                  IF q = p THEN [proc[p] EXCEPT !.bufs = @ \ {b}]
                  ELSE IF pool.count < 0 /\ q = Head(pool.queue)
                  THEN [proc[q] EXCEPT !.at = "ready"] ELSE proc[q]]
    /\ Quiet
    /\ UNCHANGED <<mem, held, stacks, vheap, vheld, nsem, up, lost, orphans>>

\* getitem: p leaves the queue it is in.
Without(queue, p) == RemoveAt(queue, CHOOSE k \in DOMAIN queue : queue[k] = p)

\* kill of a process, and a new one in its place.  One that waits gives back its
\* unit of the semaphore; one that was released does not.
Kill(p) ==
    LET i == proc[p].pool IN
    /\ up
    /\ proc[p] # Running
    /\ buftab' = IF proc[p].at = "wait"
                 THEN [buftab EXCEPT ![i].count = @ + 1, ![i].queue = Without(@, p)]
                 ELSE buftab
    /\ orphans' = [bufs |-> orphans.bufs \cup proc[p].bufs,
                   units |-> [j \in DOMAIN orphans.units |-> orphans.units[j] +
                        IF proc[p].at = "ready" /\ j = i THEN 1 ELSE 0]]
    /\ proc' = [proc EXCEPT ![p] = Running]
    /\ Quiet
    /\ UNCHANGED <<mem, held, stacks, vheap, vheld, nsem, up, lost>>

----------------------------------------------------------------------------
Addrs(lo, hi) == {8 * u : u \in UnitsOf(lo - 8, hi - lo + 8)}

Blocks ==
    /\ "blocks" \in load
    /\ \/ \E n \in Requests : GetMem(n)
       \/ \E a \in Addrs(minheap, maxheap), n \in Requests : FreeMem(Block(a, n))

Stacks ==
    /\ "stacks" \in load
    /\ \/ \E n \in Requests : GetStk(n)
       \/ \E b \in stacks : FreeStk(b)

VirtualHeap ==
    /\ "virtual" \in load
    /\ \/ \E n \in VRequests : VGetMem(n)
       \/ \E a \in Addrs(vmin, vmax), n \in VRequests : VFreeMem(Block(a, n))
       \/ vcreate

BufferPools ==
    /\ "pools" \in load
    /\ \/ \E r \in PoolRequests : mkbufpool(r[1], r[2])
       \/ \E p \in Procs :
            \/ \E i \in DOMAIN buftab : getbuf(p, i)
            \/ GotBuf(p)
            \/ \E b \in proc[p].bufs : freebuf(p, b)
            \/ Kill(p)

Next ==
    /\ Blocks \/ Stacks \/ VirtualHeap \/ BufferPools
    /\ UNCHANGED load

Spec == Init /\ [][Next]_vars

----------------------------------------------------------------------------
\* The list is in order, no two nodes touch, and its total is right.
ListOK(m) ==
    /\ \A i \in 1..(Len(m.list) - 1) : Top(m.list[i]) < m.list[i + 1].addr
    /\ \A i \in DOMAIN m.list : m.list[i].len > 0
    /\ m.mlength = 8 * Cardinality(FreeUnits(m.list))

\* Who has which units of the heap.
Owned ==
    {UnitsOf(b.addr, roundmb(b.nbytes)) : b \in held}
    \cup {UnitsOf(b.addr + 4 - roundmb(b.nbytes), roundmb(b.nbytes)) : b \in stacks}
    \cup {LostNode(vheap.list[i].node) : i \in DOMAIN vheap.list}
    \cup {UnitsOf(buftab[i].addr, roundmb(buftab[i].num * buftab[i].size)) :
             i \in DOMAIN buftab}
    \cup {lost}

VOwned == {UnitsOf(b.addr, roundmb(b.nbytes)) : b \in vheld}

\* Free and owned units are all there are, and no two owners share one.
Partition(units, free, owned) ==
    /\ units = free \cup UNION owned
    /\ free \cap UNION owned = {}
    /\ \A x, y \in owned : x = y \/ x \cap y = {}

\* The processes that have been released on pool i and have not run.
Released(i) == {p \in Procs : proc[p].at = "ready" /\ proc[p].pool = i}
WithUsers == orphans.bufs \cup UNION {proc[p].bufs : p \in Procs}

\* Each buffer of a pool is in its list once, or else with one user; there is a
\* buffer for every unit of the semaphore and for every process it released.
PoolOK(i) ==
    LET pool == buftab[i]
        all == Range(BuffersFrom(pool.addr, pool.size, pool.num))
        out == {b.addr : b \in {c \in WithUsers : c.pool = i}}
    IN  /\ Partition(all, Range(pool.bpnext), {out})
        /\ Len(pool.bpnext) = Cardinality(Range(pool.bpnext))
        /\ Len(pool.bpnext) = Max({pool.count, 0}) + Cardinality(Released(i))
                              + orphans.units[i]
        /\ Len(pool.queue) = Max({-pool.count, 0})

\* The free lists are in order and joined, each unit of the heap is free or has
\* one owner, and the same holds for the virtual heap and for the buffers of
\* every pool, whatever the order of calls, kills and refused requests.
HeapInv ==
    /\ ListOK(mem) /\ ListOK(vheap)
    /\ Partition(UnitsOf(minheap, maxheap - minheap), FreeUnits(mem.list), Owned)
    /\ up => Partition(UnitsOf(vmin, vmax - vmin), FreeUnits(vheap.list), VOwned)
    /\ \A i \in DOMAIN buftab : PoolOK(i)
    /\ \A p, q \in Procs : p # q => proc[p].bufs \cap proc[q].bufs = {}

Kernel == INSTANCE Allocator WITH Lowest <- minheap \div 8, Highest <- maxheap \div 8 - 1,
             free <- FreeUnits(mem.list), refused <- refused
Virtual == INSTANCE Allocator WITH Lowest <- vmin \div 8, Highest <- vmax \div 8 - 1,
             free <- FreeUnits(vheap.list), refused <- vrefused

\* Both heaps keep the promise of an allocator: what is given was free, what is
\* taken back had been given, and a request is refused only when no run of free
\* memory is long enough for it.
IsAllocator == Kernel!Spec /\ Virtual!Spec
=============================================================================

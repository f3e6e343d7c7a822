-------------------------------- MODULE Heap --------------------------------
(***************************************************************************)
(* The free-storage lists: the kernel's heap (getmem, getstk, freemem) and *)
(* the virtual heap of a process (vgetmem, vfreemem), as operators on the  *)
(* list.  A list is the sequence of its nodes in order; a node of the      *)
(* kernel's list lies in the block it describes, one of a virtual heap in  *)
(* the kernel's heap, at the address `node'.                               *)
(***************************************************************************)
EXTENDS Integers, Sequences, SequencesExt

CONSTANTS
    Width,              \* bits of a uint32
    minheap, maxheap,   \* the kernel's heap
    vmin, vmax          \* vminheap.vaddr and vmaxheap.vaddr

SYSERR == -1
INTAB == 0              \* a node that lies in the process table (vminheap)
VMEMBLK == 12           \* sizeof(struct vmemblk)

\* The linker script puts the end of the image, where the heap begins, at a
\* multiple of the page size, and vcreate puts vminheap at one.
ASSUME HeapAssumption ==
    /\ Width \in Nat /\ VMEMBLK + 7 < 2^Width
    /\ {minheap, maxheap, vmin, vmax} \subseteq 1..(2^Width - 1)
    /\ minheap < maxheap /\ vmin < vmax
    /\ \A a \in {minheap, maxheap, vmin, vmax} : a % 8 = 0

\* Requests are rounded to multiples of 8 in 32-bit arithmetic.
roundmb(n) == (((7 + n) % 2^Width) \div 8) * 8

Node(addr, len) == [addr |-> addr, len |-> len]
Top(b) == b.addr + b.len

\* memlist: its nodes, and the total that the head of the list keeps.
meminit == [list |-> << Node(minheap, maxheap - minheap) >>,
            mlength |-> maxheap - minheap]

\* Mutant: a block that would fit exactly is passed over.
LongEnoughLonger(list, n) == {i \in DOMAIN list : list[i].len > n}

LongEnough(list, n) == {i \in DOMAIN list : list[i].len >= n}

\* What an allocation returns, and the list it leaves.
Result(addr, mem) == [addr |-> addr, mem |-> mem]
Refused(mem) == Result(SYSERR, mem)

\* getmem: the first block that is long enough; the caller gets its low end.
getmem(mem, nbytes) ==
    LET n == roundmb(nbytes)
        i == Min(LongEnough(mem.list, n))
        b == mem.list[i]
    IN  IF nbytes = 0 \/ LongEnough(mem.list, n) = {} THEN Refused(mem)
        ELSE Result(b.addr,
               [list |-> IF b.len = n THEN RemoveAt(mem.list, i)
                         ELSE ReplaceAt(mem.list, i, Node(b.addr + n, b.len - n)),
                mlength |-> mem.mlength - n])

\* getstk: the last block that is long enough; the caller gets its high end,
\* and the address of the highest word in it.
getstk(mem, nbytes) ==
    LET n == roundmb(nbytes)
        i == Max(LongEnough(mem.list, n))
        b == mem.list[i]
    IN  IF nbytes = 0 \/ LongEnough(mem.list, n) = {} THEN Refused(mem)
        ELSE Result(Top(b) - 4,
               [list |-> IF b.len = n THEN RemoveAt(mem.list, i)
                         ELSE ReplaceAt(mem.list, i, Node(b.addr, b.len - n)),
                mlength |-> mem.mlength - n])

\* Where a block of n bytes at a would come in a list: after the k-th node.
Before(list, a) == Cardinality({i \in DOMAIN list : list[i].addr < a})

\* Does it overlap the node before or the node after its place?
Overlaps(list, a, n) ==
    LET k == Before(list, a)
    IN  \/ k > 0 /\ a < Top(list[k])
        \/ k < Len(list) /\ a + n > list[k + 1].addr

\* Mutant: blocks are joined with the one before only.
InsertedLeft(list, new) ==
    LET k == Before(list, new.addr)
        left == k > 0 /\ Top(list[k]) = new.addr
    IN  IF left THEN ReplaceAt(list, k, [list[k] EXCEPT !.len = @ + new.len])
        ELSE InsertAt(list, k + 1, new)

\* The list with the block `new' in its place, joined with the node before it
\* and then with the node after it where they are adjacent.
Inserted(list, new) ==
    LET k == Before(list, new.addr)
        left == k > 0 /\ Top(list[k]) = new.addr
        right == k < Len(list) /\ Top(new) = list[k + 1].addr
        below == SubSeq(list, 1, IF left THEN k - 1 ELSE k)
        above == SubSeq(list, IF right THEN k + 2 ELSE k + 1, Len(list))
        grown == [(IF left THEN list[k] ELSE new) EXCEPT !.len =
                     (IF left THEN list[k].len ELSE 0) + new.len
                     + (IF right THEN list[k + 1].len ELSE 0)]
    IN  below \o << grown >> \o above

\* freemem: what it returns and the list it leaves.
freemem(mem, a, nbytes) ==
    LET n == roundmb(nbytes)
    IN  IF nbytes = 0 \/ a < minheap \/ a > maxheap \/ Overlaps(mem.list, a, n)
        THEN Refused(mem)
        ELSE Result(a, [list |-> Inserted(mem.list, Node(a, n)),
                        mlength |-> mem.mlength + n])

\* freestk of the stack whose highest word is at p.
freestk(mem, p, len) == freemem(mem, p - roundmb(len) + 4, roundmb(len))

----------------------------------------------------------------------------
VNode(addr, len, node) == [addr |-> addr, len |-> len, node |-> node]

\* The virtual heap vcreate makes: one block, whose node is vminheap.
NewVHeap == [list |-> << VNode(vmin, vmax - vmin, INTAB) >>,
             mlength |-> vmax - vmin]

\* vgetmem, which also tells the node it unlinked and did not free.
vgetmem(vm, nbytes) ==
    LET n == roundmb(nbytes)
        i == Min(LongEnough(vm.list, n))
        b == vm.list[i]
    IN  IF nbytes = 0 \/ LongEnough(vm.list, n) = {}
        THEN [addr |-> SYSERR, vm |-> vm, unlinked |-> INTAB]
        ELSE [addr |-> b.addr,
              vm |-> [list |-> IF b.len = n THEN RemoveAt(vm.list, i)
                               ELSE ReplaceAt(vm.list, i,
                                       [b EXCEPT !.addr = @ + n, !.len = @ - n]),
                      mlength |-> vm.mlength - n],
              unlinked |-> IF b.len = n THEN b.node ELSE INTAB]

\* vfreemem's first checks, before it takes memory for a node.
VOutside(a, nbytes) == nbytes = 0 \/ a < vmin \/ a >= vmax

\* The node comes from the kernel's heap; it is freed again only when the block
\* joins the one before it.  A node is lost when the block overlaps a free one,
\* and when the block after it is joined: that one's node.  After the last block
\* the code looks at a node at address NULL; that nothing there looks like the end
\* of a block is assumed.
vfreemem(mem, vm, a, nbytes) ==
    LET n == roundmb(nbytes)
        got == getmem(mem, VMEMBLK)
        k == Before(vm.list, a)
        left == k > 0 /\ Top(vm.list[k]) = a
        right == k < Len(vm.list) /\ a + n = vm.list[k + 1].addr
    IN  IF Overlaps(vm.list, a, n)
        THEN [mem |-> got.mem, vm |-> vm, unlinked |-> got.addr]
        ELSE [mem |-> IF left THEN freemem(got.mem, got.addr, VMEMBLK).mem ELSE got.mem,
              vm |-> [list |-> Inserted(vm.list, VNode(a, n, got.addr)),
                      mlength |-> vm.mlength + n],
              unlinked |-> IF right THEN vm.list[k + 1].node ELSE INTAB]
=============================================================================

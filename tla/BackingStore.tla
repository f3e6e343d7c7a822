---------------------------- MODULE BackingStore ----------------------------
(***************************************************************************)
(* The page server's table of backing stores (paging/*_bs.c, psinit.c) and *)
(* the disk under it, which in the QEMU build is an array in memory        *)
(* (device/qrds).  The calls come from vcreate, the page-fault handler and *)
(* kill, which run with interrupts disabled, so nobody ever waits for      *)
(* bs_sem.  The eight blocks of a page are always moved together and are   *)
(* one element of the disk here.                                           *)
(***************************************************************************)
EXTENDS Integers, FiniteSets, FiniteSetsExt

CONSTANTS
    NStores,            \* MAX_ID + 1
    PagesPerStore,      \* MAX_PAGES_PER_BS
    RdPagesPerBs,       \* RD_PAGES_PER_BS, the distance of two stores on the disk
    DiskPages           \* QRDISK_MAX_BUFF, in pages

ASSUME BackingStoreAssumption ==
    /\ NStores \in Nat /\ PagesPerStore \in Nat \ {0} /\ DiskPages \in Nat
    /\ RdPagesPerBs \in Nat /\ RdPagesPerBs >= PagesPerStore

Stores == 0..(NStores - 1)
NOSTORE == -1           \* SYSERR

\* psinit: bstab.
psinit == [b \in Stores |->
             [isopen |-> FALSE, isallocated |-> FALSE, usecount |-> 0, npages |-> 0]]

\* get_bs: refused for no pages, for too many, and for a store that is open.
Gettable(e, n) == n \in 1..PagesPerStore /\ ~e.isopen
get_bs(e, n) == [e EXCEPT !.isopen = TRUE, !.npages = n]

\* Mutant: every store is taken for free.
AllocatableAll(bstab, n) == Stores

\* allocate_bs: the first store that is not allocated and can be opened.
Allocatable(bstab, n) == {b \in Stores : ~bstab[b].isallocated /\ Gettable(bstab[b], n)}

StoreFor(bstab, n) ==
    IF Allocatable(bstab, n) = {} THEN NOSTORE ELSE Min(Allocatable(bstab, n))

allocate_bs(bstab, n) ==
    LET b == StoreFor(bstab, n) IN
    IF b = NOSTORE THEN bstab
    ELSE [bstab EXCEPT ![b] = [get_bs(@, n) EXCEPT !.isallocated = TRUE, !.usecount = 0]]

release_bs(e) == IF e.isopen THEN [e EXCEPT !.isopen = FALSE, !.npages = 0] ELSE e

\* deallocate_bs: only a store that is allocated and that nobody has open.
deallocate_bs(e) ==
    IF ~e.isallocated \/ e.usecount > 0 THEN e
    ELSE [release_bs(e) EXCEPT !.isallocated = FALSE, !.usecount = 0]

----------------------------------------------------------------------------
\* The disk: outside the array qrds_read and qrds_write panic.
qrds_init == [i \in 0..(DiskPages - 1) |-> 0]
OnDisk(i) == i < DiskPages
qrds_read(disk, i) == disk[i]
qrds_write(disk, i, data) == [disk EXCEPT ![i] = data]

\* read_bs and write_bs: the page must be one of an open store.  Where it lies:
InStore(bstab, b, page) == bstab[b].isopen /\ page < bstab[b].npages
PageAt(b, page) == b * RdPagesPerBs + page
Transferable(bstab, b, page) == InStore(bstab, b, page) /\ OnDisk(PageAt(b, page))
=============================================================================

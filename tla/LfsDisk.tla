------------------------------ MODULE LfsDisk -------------------------------
(***************************************************************************)
(* The disk under the local file system (device/ram) and the functions of  *)
(* device/lfs that work on its blocks: the directory, the index blocks     *)
(* with the lists they form, and the data blocks.  They run with lf_mutex  *)
(* held (all but lfflush in lflclose, see Lfs), so that each is a function *)
(* from one state of the disk, the directory in memory and one open file   *)
(* to the next:                                                            *)
(*    w = [disk, lf, f, panic]                                             *)
(* panic is TRUE from the moment a list of free blocks is found empty.     *)
(***************************************************************************)
EXTENDS SemOps, FiniteSets

CONSTANTS
    BLKSIZ,     \* LF_BLKSIZ: bytes in a data block
    IBLEN,      \* LF_IBLEN: data blocks to an index block
    NIB, NDB,   \* how many index and data blocks the disk has
    ISECT       \* how many index blocks share a sector of the disk

INULL == -1
DNULL == -1
IDATA == BLKSIZ * IBLEN
IBlocks == 0..(NIB - 1)
DBlocks == 0..(NDB - 1)

\* ib2sect: the index blocks that are in one sector with ib.
Sector(ib) == {k \in IBlocks : k \div ISECT = ib \div ISECT}

lfibclear(offset) ==
    [next |-> INULL, offset |-> offset, dba |-> [i \in 0..(IBLEN - 1) |-> DNULL]]

Filled(ch) == [i \in 0..(BLKSIZ - 1) |-> ch]

\* A data block, and one on the free list: data is not looked at there.
Block(data) == [next |-> DNULL, data |-> data]
FreeBlock(next) == [next |-> next, data |-> Filled("0")]

EmptyDir == [dfree |-> 0, ifree |-> 0, files |-> << >>]

\* lfscreate: the directory and the two lists of free blocks.
lfscreate ==
    [dir |-> EmptyDir,
     ib |-> [k \in IBlocks |->
               [lfibclear(0) EXCEPT !.next = IF k = NIB - 1 THEN INULL ELSE k + 1]],
     db |-> [k \in DBlocks |-> FreeBlock(IF k = NDB - 1 THEN DNULL ELSE k + 1)]]

----------------------------------------------------------------------------
\* The directory in memory is written, and it is clean.
DirWritten(w) ==
    [w EXCEPT !.disk.dir = w.lf.dir, !.lf.dirdirty = FALSE]

lfibput(w, ib, b) == [w EXCEPT !.disk.ib[ib] = b]

DataWritten(w) ==
    IF w.f.dbdirty
    THEN [w EXCEPT !.disk.db[w.f.dnum] = Block(w.f.dblock), !.f.dbdirty = FALSE]
    ELSE w

lfflush(w) ==
    LET w1 == IF w.lf.dirdirty THEN DirWritten(w) ELSE w
        w2 == DataWritten(w1)
    IN  IF w2.f.ibdirty
        THEN [lfibput(w2, w2.f.inum, w2.f.iblock) EXCEPT !.f.ibdirty = FALSE]
        ELSE w2

FlushIfDirty(w) == IF w.f.ibdirty \/ w.f.dbdirty THEN lfflush(w) ELSE w

\* lfiballoc takes the first free index block, w.lf.dir.ifree.
lfiballoc(w) ==
    LET ib == w.lf.dir.ifree IN
    IF ib = INULL THEN [w EXCEPT !.panic = TRUE]
    ELSE DirWritten([w EXCEPT !.lf.dir.ifree = w.disk.ib[ib].next])


\* lfdballoc takes the first free data block and fills the buffer.
lfdballoc(w) ==
    LET d == w.lf.dir.dfree IN
    IF d = DNULL THEN [w EXCEPT !.panic = TRUE]
    ELSE DirWritten([w EXCEPT !.lf.dir.dfree = w.disk.db[d].next,
                              !.f.dblock = Filled("+")])

lfdbfree(w, d) ==
    LET w1 == [w EXCEPT !.lf.dir.dfree = d,
                        !.disk.db[d] = FreeBlock(w.lf.dir.dfree)]
    IN  [w1 EXCEPT !.disk.dir = w1.lf.dir]

----------------------------------------------------------------------------
\* lfsetup: the first index block of a file that has none in memory, or whose
\* position is before the one in memory.
FirstIBlock(w) ==
    LET ib == w.lf.dir.files[w.f.ent].ilist
        Loaded == [w EXCEPT !.f.iblock = w.disk.ib[ib], !.f.inum = ib]
    IN  IF w.f.inum = INULL /\ ib = INULL
        THEN LET w1 == lfiballoc(w) IN
             IF w1.panic THEN w1
             ELSE [w1 EXCEPT !.lf.dir.files[w.f.ent].ilist = w.lf.dir.ifree,
                             !.f.iblock = lfibclear(0), !.f.ibdirty = TRUE,
                             !.f.inum = w.lf.dir.ifree]
        ELSE IF w.f.inum = INULL \/ w.f.pos < w.f.iblock.offset THEN Loaded
        ELSE w

\* One turn of its loop: the next index block, a new one after the last.
NextIBlock(w) ==
    LET ib == w.f.iblock.next IN
    IF ib # INULL
    THEN [w EXCEPT !.f.iblock = w.disk.ib[ib], !.f.inum = ib, !.f.dnum = DNULL]
    ELSE LET w1 == lfiballoc(w)
             new == w.lf.dir.ifree
         IN  IF w1.panic THEN w1
             ELSE [lfibput(w1, w.f.inum, [w.f.iblock EXCEPT !.next = new])
                     EXCEPT !.f.inum = new, !.f.dnum = DNULL, !.f.ibdirty = TRUE,
                            !.f.iblock = lfibclear(w.f.iblock.offset + IDATA)]

RECURSIVE Advance(_)
Advance(w) ==
    IF w.panic \/ w.f.pos - (w.f.pos % IDATA) <= w.f.iblock.offset THEN w
    ELSE Advance(NextIBlock(w))

\* The data block for the position, a new one if there is none yet.
LoadData(w) ==
    LET k == (w.f.pos % IDATA) \div BLKSIZ
        d == w.f.iblock.dba[k]
        At(v, n) == [v EXCEPT !.f.dnum = n, !.f.byte = w.f.pos % BLKSIZ]
    IN  CASE w.panic -> w
          [] ~w.panic /\ d = DNULL ->
               LET w1 == lfdballoc(w)
                   new == w.lf.dir.dfree
               IN  IF w1.panic THEN w1
                   ELSE At([w1 EXCEPT !.f.iblock.dba[k] = new, !.f.ibdirty = TRUE], new)
          [] ~w.panic /\ d # DNULL /\ d # w.f.dnum ->
               At([w EXCEPT !.f.dblock = w.disk.db[d].data, !.f.dbdirty = FALSE], d)
          [] OTHER -> At(w, d)


lfsetup(w) == LoadData(Advance(FirstIBlock(FlushIfDirty(w))))

----------------------------------------------------------------------------
\* lftruncate: the data blocks of index block b are freed one by one.
FreeDataBlocks(w, b) ==
    FoldLeft(LAMBDA v, i : IF b.dba[i - 1] = DNULL THEN v ELSE lfdbfree(v, b.dba[i - 1]),
             w, [i \in 1..IBLEN |-> i])

\* From index block ib on, up to the free list ifree, which the last one joins.
RECURSIVE FreeIBlocks(_, _, _)
FreeIBlocks(w, ib, ifree) ==
    IF ib = ifree THEN w
    ELSE LET b == w.disk.ib[ib]
             next == IF b.next = INULL THEN ifree ELSE b.next
         IN  FreeIBlocks(lfibput(FreeDataBlocks(w, b), ib,
                                 [lfibclear(0) EXCEPT !.next = next]),
                         next, ifree)


lftruncate(w) ==
    IF w.lf.dir.files[w.f.ent].size = 0 THEN w
    ELSE LET w1 == FlushIfDirty(w)
             ifree == w1.lf.dir.ifree
             first == w1.lf.dir.files[w.f.ent].ilist
             w2 == [w1 EXCEPT !.f.pos = 0, !.f.inum = INULL, !.f.dnum = DNULL,
                              !.f.byte = BLKSIZ,
                              !.lf.dir.files[w.f.ent].ilist = INULL,
                              !.lf.dir.files[w.f.ent].size = 0]
         IN  [FreeIBlocks(w2, first, ifree)
                EXCEPT !.lf.dir.ifree = first, !.lf.dirdirty = TRUE]
=============================================================================

-------------------------------- MODULE Lfs ---------------------------------
(***************************************************************************)
(* The local file system (device/lfs): the master device that opens files, *)
(* and the file pseudo-devices through which processes read, write, seek,  *)
(* truncate and close them.  Interrupts stay enabled throughout, so that   *)
(* processes are kept apart by semaphores only: lfmutex of each device,    *)
(* and lf_mutex for the directory and the free lists.  What runs with      *)
(* lf_mutex held is one step.  lflclose flushes without it, and is split   *)
(* at every access to what it shares with the others.                      *)
(***************************************************************************)
EXTENDS LfsDisk

CONSTANTS
    Procs,      \* the processes
    Names,      \* names of files, none of them empty
    Byte,       \* the byte that each process writes
    Modes,      \* the mode strings given to open
    NLFL,       \* Nlfl: how many file pseudo-devices
    NUM_DIR_ENT,\* LF_NUM_DIR_ENT
    Offsets,    \* the positions processes seek to
    Counts,     \* the lengths of reads and writes
    Calls,      \* the calls each process may make
    Careful,    \* whether programs open only files that are not open
    MaxCalls    \* bound: how many calls there are in all

Slots == 1..NLFL

VARIABLES
    disk,       \* the directory, the index blocks and the data blocks
    lf,         \* Lf_data: the directory in memory and its two flags
    lf_mutex,   \* its semaphore
    lfltab,     \* the control blocks of the pseudo-devices
    lfmutex,    \* their semaphores
    call,       \* what each process is doing
    got,        \* what it has read last, or why it could not
    calls,      \* how many calls have been made
    panicked    \* the system has stopped: the disk is full

vars == <<disk, lf, lf_mutex, lfltab, lfmutex, call, got, calls, panicked>>

\* The empty string, which no file has for its name.
NoName == "none"

FreeSlot ==
    [state |-> "FREE", name |-> NoName, ent |-> 0, pos |-> 0, inum |-> INULL,
     iblock |-> lfibclear(0), dnum |-> DNULL, dblock |-> Filled("0"),
     byte |-> BLKSIZ, ibdirty |-> FALSE, dbdirty |-> FALSE]

\* sect is the sector that lfibput has read in lflclose.
Idle == [at |-> "idle", op |-> "none", slot |-> 0, left |-> 0, ch |-> "0",
         name |-> NoName, mode |-> {}, sect |-> << >>]

\* lfsinit and lflinit, on a disk that lfscreate has formatted.
Init ==
    /\ disk = lfscreate
    /\ lf = [dir |-> EmptyDir, dirpresent |-> FALSE, dirdirty |-> FALSE]
    /\ lf_mutex = semcreate(1)
    /\ lfltab = [s \in Slots |-> FreeSlot]
    /\ lfmutex = [s \in Slots |-> semcreate(1)]
    /\ call = [p \in Procs |-> Idle]
    /\ got = [p \in Procs |-> "none"]
    /\ calls = 0
    /\ panicked = FALSE

\* Process p makes another call.
May(p, op) ==
    /\ ~panicked
    /\ call[p].at = "idle"
    /\ op \in Calls[p]
    /\ calls < MaxCalls

Goto(p, c, at) == call' = [call EXCEPT ![p] = [c EXCEPT !.at = at]]

\* Process p has got the semaphore it was waiting for at this point.
At(p, at, sem) ==
    ~panicked /\ call[p].at = at /\ ~Queued(sem, p) /\ UNCHANGED calls

----------------------------------------------------------------------------
\* lfgetmode: the set of mode bits, or SYSERR as {"bad"}.
lfgetmode(m) ==
    IF \/ Cardinality(Range(m)) < Len(m)
       \/ {"o", "n"} \subseteq Range(m)
       \/ ~(Range(m) \subseteq {"r", "w", "o", "n"})
    THEN {"bad"} ELSE Range(m)

\* lfsopen compares with the names the open devices have stored.
Opened(n) == \E s \in Slots : lfltab[s].state = "USED" /\ lfltab[s].name = n

\* lfsopen looks for the file among the open ones and for a free device, and only
\* then waits for lf_mutex.
lfsopen(p, n, m) ==
    /\ May(p, "open")
    /\ LET bits == lfgetmode(m)
           unused == {s \in Slots : lfltab[s].state = "FREE"}
       IN  IF bits = {"bad"} \/ Opened(n) \/ unused = {}
           THEN UNCHANGED <<call, calls, lf_mutex>>
           ELSE /\ Goto(p, [Idle EXCEPT !.slot = Min(unused), !.name = n, !.mode = bits],
                        "open")
                /\ lf_mutex' = wait(lf_mutex, p)
                /\ calls' = calls + 1
    /\ UNCHANGED <<disk, lf, lfltab, lfmutex, got, panicked>>

Entries(dir, n) == {i \in 1..Len(dir.files) : dir.files[i].name = n}

DirFullLate(dir) == Len(dir.files) > NUM_DIR_ENT

DirFull(dir) == Len(dir.files) >= NUM_DIR_ENT

\* The control block of a file that has just been opened.  The loop that copies
\* the name never moves on in lfname: the NULLCH that ends the name is all that is
\* left there, and the device has the empty name.
Control(ent) == [FreeSlot EXCEPT !.state = "USED", !.name = NoName, !.ent = ent]

lfsopenLocked(p) ==
    /\ At(p, "open", lf_mutex)
    /\ LET c == call[p]
           dir == IF lf.dirpresent THEN lf.dir ELSE disk.dir
           found == Entries(dir, c.name)
           fails == IF found = {}
                    THEN "o" \in c.mode \/ DirFull(dir)
                    ELSE "n" \in c.mode
           grown == IF found = {} /\ ~fails
                    THEN [dir EXCEPT !.files = Append(@, [name |-> c.name, size |-> 0,
                                                          ilist |-> INULL])]
                    ELSE dir
       IN  /\ lf' = [lf EXCEPT !.dir = grown, !.dirpresent = TRUE]
           /\ IF fails THEN UNCHANGED lfltab
              ELSE lfltab' = [lfltab EXCEPT ![c.slot] =
                                Control(Min(Entries(grown, c.name)))]
    /\ lf_mutex' = signal(lf_mutex)
    /\ Goto(p, Idle, "idle")
    /\ UNCHANGED <<disk, lfmutex, got, panicked>>

----------------------------------------------------------------------------
\* Every call on a device begins with wait(lfmutex).  Processes call devices that
\* are open; they may be closed before the call gets the semaphore.
Begin(p, c, s) ==
    /\ lfltab[s].state = "USED"
    /\ calls' = calls + 1
    /\ Goto(p, [c EXCEPT !.slot = s], c.op)
    /\ lfmutex' = [lfmutex EXCEPT ![s] = wait(@, p)]
    /\ UNCHANGED <<disk, lf, lf_mutex, lfltab, got, panicked>>

\* lflgetc, or lflread of n bytes.
lflread(p, s, n) ==
    May(p, "get") /\ Begin(p, [Idle EXCEPT !.op = "get", !.left = n], s)

\* lflputc, or lflwrite of n bytes.
lflwrite(p, s, n, b) ==
    May(p, "put") /\ Begin(p, [Idle EXCEPT !.op = "put", !.left = n, !.ch = b], s)

lflseek(p, s, i) ==
    May(p, "seek") /\ Begin(p, [Idle EXCEPT !.op = "seek", !.left = i], s)

lflcontrol(p, s) ==
    May(p, "trunc") /\ Begin(p, [Idle EXCEPT !.op = "trunc"], s)

lflclose(p, s) ==
    May(p, "close") /\ Begin(p, [Idle EXCEPT !.op = "close"], s)

\* Process p has the device of its call.
Has(p, at) == At(p, at, lfmutex[call[p].slot])

File(p) == lfltab[call[p].slot]
SizeOf(f) == lf.dir.files[f.ent].size

\* The call ends with signal(lfmutex).
Finish(p) ==
    /\ lfmutex' = [lfmutex EXCEPT ![call[p].slot] = signal(@)]
    /\ Goto(p, Idle, "idle")

\* A byte is done; lflread and lflwrite call lflgetc and lflputc for the next.
FinishByte(p) ==
    IF call[p].left = 1 THEN Finish(p)
    ELSE /\ lfmutex' = [lfmutex EXCEPT ![call[p].slot] = wait(signal(@), p)]
         /\ Goto(p, [call[p] EXCEPT !.left = @ - 1], call[p].op)

NotOpen(p) ==
    /\ call[p].at \in {"get", "put", "seek", "trunc", "close"}
    /\ Has(p, call[p].at)
    /\ File(p).state # "USED"
    /\ Finish(p)
    /\ UNCHANGED <<disk, lf, lf_mutex, lfltab, got, panicked>>

\* lflgetc that keeps lfmutex at the end of the file.
OutOfFileKept(p) ==
    /\ call[p].at \in {"get", "put"}
    /\ Has(p, call[p].at)
    /\ File(p).state = "USED"
    /\ IF call[p].op = "get"
       THEN File(p).pos >= SizeOf(File(p)) /\ got' = [got EXCEPT ![p] = "EOF"]
       ELSE File(p).pos > SizeOf(File(p)) /\ UNCHANGED got
    /\ Goto(p, Idle, "idle")
    /\ UNCHANGED <<disk, lf, lf_mutex, lfltab, lfmutex, panicked>>

\* lflgetc at the end of the file, and lflputc that would leave a hole.
OutOfFile(p) ==
    /\ call[p].at \in {"get", "put"}
    /\ Has(p, call[p].at)
    /\ File(p).state = "USED"
    /\ IF call[p].op = "get"
       THEN File(p).pos >= SizeOf(File(p)) /\ got' = [got EXCEPT ![p] = "EOF"]
       ELSE File(p).pos > SizeOf(File(p)) /\ UNCHANGED got
    /\ Finish(p)
    /\ UNCHANGED <<disk, lf, lf_mutex, lfltab, panicked>>

\* lflgetc and lflputc at a byte outside the current block wait for lf_mutex ...
NeedsBlock(p) ==
    /\ call[p].at \in {"get", "put"}
    /\ Has(p, call[p].at)
    /\ File(p).state = "USED"
    /\ \/ call[p].op = "get" /\ File(p).pos < SizeOf(File(p))
       \/ call[p].op = "put" /\ File(p).pos <= SizeOf(File(p))
    /\ File(p).byte = BLKSIZ
    /\ lf_mutex' = wait(lf_mutex, p)
    /\ Goto(p, call[p], "setup")
    /\ UNCHANGED <<disk, lf, lfltab, lfmutex, got, panicked>>

World(p) == [disk |-> disk, lf |-> lf, f |-> File(p), panic |-> FALSE]

\* What the section of code under lf_mutex leaves behind.
Section(p, w) ==
    IF w.panic THEN panicked' = TRUE /\ UNCHANGED <<disk, lf, lfltab, lf_mutex>>
    ELSE /\ disk' = w.disk
         /\ lf' = w.lf
         /\ lfltab' = [lfltab EXCEPT ![call[p].slot] = w.f]
         /\ lf_mutex' = signal(lf_mutex)
         /\ UNCHANGED panicked

\* ... and run lfsetup.
Setup(p) ==
    /\ At(p, "setup", lf_mutex)
    /\ Section(p, lfsetup(World(p)))
    /\ Goto(p, call[p], call[p].op)
    /\ UNCHANGED <<lfmutex, got>>

lflgetc(p) ==
    /\ Has(p, "get")
    /\ LET f == File(p) IN
       /\ f.state = "USED"
       /\ f.pos < SizeOf(f) /\ f.byte < BLKSIZ
       /\ lfltab' = [lfltab EXCEPT ![call[p].slot].pos = @ + 1,
                                   ![call[p].slot].byte = @ + 1]
       /\ got' = [got EXCEPT ![p] = f.dblock[f.byte]]
    /\ FinishByte(p)
    /\ UNCHANGED <<disk, lf, lf_mutex, panicked>>

\* The size of a file grows when a byte is written at its end.
Grown(f) == IF f.pos >= SizeOf(f) THEN SizeOf(f) + 1 ELSE SizeOf(f)

lflputc(p) ==
    /\ Has(p, "put")
    /\ LET f == File(p) IN
       /\ f.state = "USED"
       /\ f.pos <= SizeOf(f) /\ f.byte < BLKSIZ
       /\ lf' = [lf EXCEPT !.dir.files[f.ent].size = Grown(f),
                           !.dirdirty = @ \/ f.pos >= SizeOf(f)]
       /\ lfltab' = [lfltab EXCEPT ![call[p].slot] =
                       [f EXCEPT !.dblock[f.byte] = call[p].ch, !.byte = @ + 1,
                                 !.pos = @ + 1, !.dbdirty = TRUE]]
    /\ FinishByte(p)
    /\ UNCHANGED <<disk, lf_mutex, got, panicked>>

Seek(p) ==
    /\ Has(p, "seek")
    /\ File(p).state = "USED"
    /\ IF call[p].left > SizeOf(File(p)) THEN UNCHANGED lfltab
       ELSE lfltab' = [lfltab EXCEPT ![call[p].slot].pos = call[p].left,
                                     ![call[p].slot].byte = BLKSIZ]
    /\ Finish(p)
    /\ UNCHANGED <<disk, lf, lf_mutex, got, panicked>>

\* lflcontrol(LF_CTL_TRUNC) takes lf_mutex too ...
TruncWait(p) ==
    /\ Has(p, "trunc")
    /\ File(p).state = "USED"
    /\ lf_mutex' = wait(lf_mutex, p)
    /\ Goto(p, call[p], "truncating")
    /\ UNCHANGED <<disk, lf, lfltab, lfmutex, got, panicked>>

\* ... and runs lftruncate.
Trunc(p) ==
    /\ At(p, "truncating", lf_mutex)
    /\ Section(p, lftruncate(World(p)))
    /\ Finish(p)
    /\ UNCHANGED got

----------------------------------------------------------------------------
\* lflclose: lfflush, without lf_mutex, writes the directory if it is dirty,
CloseDir(p) ==
    /\ Has(p, "close")
    /\ File(p).state = "USED"
    /\ IF lf.dirdirty THEN disk' = [disk EXCEPT !.dir = lf.dir] /\ Goto(p, call[p], "clear")
       ELSE UNCHANGED disk /\ Goto(p, call[p], "data")
    /\ UNCHANGED <<lf, lf_mutex, lfltab, lfmutex, got, panicked>>

CloseClear(p) ==
    /\ Has(p, "clear")
    /\ lf' = [lf EXCEPT !.dirdirty = FALSE]
    /\ Goto(p, call[p], "data")
    /\ UNCHANGED <<disk, lf_mutex, lfltab, lfmutex, got, panicked>>

\* the data block, and reads the sector of the index block.
CloseData(p) ==
    /\ Has(p, "data")
    /\ LET w == DataWritten(World(p)) IN
       /\ disk' = w.disk
       /\ lfltab' = [lfltab EXCEPT ![call[p].slot] = w.f]
       /\ IF w.f.ibdirty
          THEN Goto(p, [call[p] EXCEPT !.sect = [k \in Sector(w.f.inum) |-> disk.ib[k]]],
                    "sector")
          ELSE Goto(p, call[p], "free")
    /\ UNCHANGED <<lf, lf_mutex, lfmutex, got, panicked>>

\* The index block is put in its place and the sector is written back.
CloseSector(p) ==
    /\ Has(p, "sector")
    /\ LET c == call[p]
           f == File(p)
       IN  /\ disk' = [disk EXCEPT !.ib =
                         [k \in IBlocks |-> IF k = f.inum THEN f.iblock
                                            ELSE IF k \in DOMAIN c.sect THEN c.sect[k]
                                            ELSE @[k]]]
           /\ lfltab' = [lfltab EXCEPT ![c.slot].ibdirty = FALSE]
    /\ Goto(p, call[p], "free")
    /\ UNCHANGED <<lf, lf_mutex, lfmutex, got, panicked>>

\* What a free device still holds is never looked at: lfsopen sets all of it.
Close(p) ==
    /\ Has(p, "free")
    /\ lfltab' = [lfltab EXCEPT ![call[p].slot] = FreeSlot]
    /\ Finish(p)
    /\ UNCHANGED <<disk, lf, lf_mutex, got, panicked>>

----------------------------------------------------------------------------
\* A device has the file n open, or is about to.
InUse(n) ==
    \/ \E s \in Slots : lfltab[s].state = "USED" /\ lf.dir.files[lfltab[s].ent].name = n
    \/ \E p \in Procs : call[p].at = "open" /\ call[p].name = n

Enter(p) ==
    \/ \E n \in Names, m \in Modes : (Careful => ~InUse(n)) /\ lfsopen(p, n, m)
    \/ \E s \in Slots :
          \/ \E n \in Counts : lflread(p, s, n) \/ lflwrite(p, s, n, Byte[p])
          \/ \E i \in Offsets : lflseek(p, s, i)
          \/ lflcontrol(p, s)
          \/ lflclose(p, s)

\* The next step of a call that p is in.
Step(p) ==
    \/ lfsopenLocked(p)
    \/ NotOpen(p) \/ OutOfFile(p) \/ NeedsBlock(p) \/ Setup(p)
    \/ lflgetc(p) \/ lflputc(p)
    \/ Seek(p) \/ TruncWait(p) \/ Trunc(p)
    \/ CloseDir(p) \/ CloseClear(p) \/ CloseData(p) \/ CloseSector(p) \/ Close(p)

\* panic stops the system.
Halted == panicked /\ UNCHANGED vars

\* All calls have returned and there are no more.
Done ==
    /\ calls = MaxCalls
    /\ \A p \in Procs : call[p].at = "idle"
    /\ UNCHANGED vars

Next ==
    \/ \E p \in Procs : Enter(p) \/ Step(p)
    \/ Halted \/ Done

Spec == Init /\ [][Next]_vars

----------------------------------------------------------------------------
\* The blocks as an open file sees them: those in memory come before the disk.
CurI(k) ==
    LET cur == {s \in Slots : lfltab[s].state = "USED" /\ lfltab[s].inum = k}
    IN  IF cur = {} THEN disk.ib[k] ELSE lfltab[Min(cur)].iblock
CurD(k) ==
    LET cur == {s \in Slots : lfltab[s].state = "USED" /\ lfltab[s].dnum = k}
    IN  IF cur = {} THEN disk.db[k].data ELSE lfltab[Min(cur)].dblock

\* The j-th index block of a list of the current directory.
IList(first) ==
    LET f[j \in 0..NIB] ==
          IF j = 0 THEN first
          ELSE LET k == f[j - 1] IN IF k = INULL THEN INULL ELSE CurI(k).next
    IN  f
DFree ==
    LET f[j \in 0..NDB] ==
          IF j = 0 THEN lf.dir.dfree
          ELSE LET k == f[j - 1] IN IF k = DNULL THEN DNULL ELSE disk.db[k].next
    IN  f

ByteAt(il, i) ==
    LET ib == il[i \div IDATA]
        d == IF ib = INULL THEN DNULL ELSE CurI(ib).dba[(i % IDATA) \div BLKSIZ]
    IN  IF d = DNULL THEN "lost" ELSE CurD(d)[i % BLKSIZ]

Contents(e) ==
    LET il == IList(e.ilist) IN [i \in 1..e.size |-> ByteAt(il, i - 1)]

Store == INSTANCE FileStore WITH
    Bytes <- Range(Byte),
    files <- [n \in {lf.dir.files[i].name : i \in 1..Len(lf.dir.files)} |->
                Contents(lf.dir.files[Min(Entries(lf.dir, n))])],
    open <- [s \in Slots |->
               IF lfltab[s].state = "FREE" THEN [name |-> NoName, pos |-> 0]
               ELSE [name |-> lf.dir.files[lfltab[s].ent].name, pos |-> lfltab[s].pos]]

TypeOK ==
    /\ lf.dir.dfree \in DBlocks \cup {DNULL} /\ lf.dir.ifree \in IBlocks \cup {INULL}
    /\ Len(lf.dir.files) <= NUM_DIR_ENT
    /\ \A s \in Slots :
          /\ lfltab[s].byte \in 0..BLKSIZ
          /\ lfltab[s].inum \in IBlocks \cup {INULL}
          /\ lfltab[s].dnum \in DBlocks \cup {DNULL}
    /\ \A p \in Procs : got[p] \in {"none", "EOF"} \cup Range(Byte)

FileI(e) == Range(IList(e.ilist)) \ {INULL}
FileD(e) == UNION {Range(CurI(k).dba) : k \in FileI(e)} \ {DNULL}
FreeI == Range(IList(lf.dir.ifree)) \ {INULL}
FreeD == Range(DFree) \ {DNULL}



\* lfsopen: "If named file is already open, return SYSERR".  It does not hold:
\* no device stores the name of its file, and the next open of it succeeds.
OpenOnce ==
    \A s, t \in Slots :
       lfltab[s].state = "USED" /\ lfltab[t].state = "USED" /\ lfltab[s].ent = lfltab[t].ent
       => s = t


\* A call that waits for lf_mutex or lfmutex waits for a call that runs: the two are
\* taken in this order only and released on every path, early returns included.
SomebodyRuns ==
    \/ panicked
    \/ \A p \in Procs : call[p].at = "idle"
    \/ \E p \in Procs : /\ call[p].at # "idle"
                        /\ ~Queued(lf_mutex, p)
                        /\ \A s \in Slots : ~Queued(lfmutex[s], p)

\* The open files are sound: types hold, and nobody waits for a mutex that no running
\* call will release.
LfsInv == TypeOK /\ SomebodyRuns
=============================================================================

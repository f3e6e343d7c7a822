----------------------------- MODULE FileStore ------------------------------
(***************************************************************************)
(* What the local file system promises.  A file is a sequence of bytes; a  *)
(* device, while it is open, is a file and a position in it.  Reading      *)
(* gives the bytes that were written last, in their order; a file changes  *)
(* only by being written or truncated through its device.                  *)
(***************************************************************************)
EXTENDS Integers, Sequences, TLC

CONSTANTS
    Procs,      \* the processes
    Names,      \* names of files
    Slots,      \* the file pseudo-devices
    Bytes,      \* what can be written
    Offsets     \* where a device can be positioned

VARIABLES
    files,      \* the contents of every file there is
    open,       \* for each device the file it has open, and the position
    got         \* what each process has read last

vars == <<files, open, got>>

Closed == [name |-> "none", pos |-> 0]

Init ==
    /\ files = [n \in {} |-> << >>]
    /\ open = [s \in Slots |-> Closed]
    /\ got = [p \in Procs |-> "none"]

\* open finds the file or creates it empty.
Open(n, s) ==
    /\ open[s] = Closed
    /\ open' = [open EXCEPT ![s] = [name |-> n, pos |-> 0]]
    /\ files' = files @@ (n :> << >>)
    /\ UNCHANGED got

Put(s, b) ==
    /\ open[s] # Closed
    /\ open' = [open EXCEPT ![s].pos = @ + 1]
    /\ LET n == open[s].name
           k == open[s].pos + 1
       IN  files' = [files EXCEPT ![n] =
                       IF k > Len(@) THEN Append(@, b) ELSE [@ EXCEPT ![k] = b]]
    /\ UNCHANGED got

Get(p, s) ==
    /\ open[s] # Closed
    /\ open' = [open EXCEPT ![s].pos = @ + 1]
    /\ LET f == files[open[s].name]
           k == open[s].pos + 1
       IN  k <= Len(f) /\ got' = [got EXCEPT ![p] = f[k]]
    /\ UNCHANGED files

EndOfFile(p, s) ==
    /\ open[s] # Closed
    /\ got' = [got EXCEPT ![p] = "EOF"]
    /\ open[s].pos >= Len(files[open[s].name])
    /\ UNCHANGED <<files, open>>

Seek(s, i) ==
    /\ open[s] # Closed
    /\ open' = [open EXCEPT ![s].pos = i]
    /\ i <= Len(files[open[s].name])
    /\ UNCHANGED <<files, got>>

Truncate(s) ==
    /\ open[s] # Closed
    /\ open' = [open EXCEPT ![s].pos = 0]
    /\ files' = [files EXCEPT ![open[s].name] = << >>]
    /\ UNCHANGED got

Close(s) ==
    /\ open[s] # Closed
    /\ open' = [open EXCEPT ![s] = Closed]
    /\ UNCHANGED <<files, got>>

Next ==
    \E s \in Slots :
        \/ \E n \in Names : Open(n, s)
        \/ \E b \in Bytes : Put(s, b)
        \/ \E p \in Procs : Get(p, s) \/ EndOfFile(p, s)
        \/ \E i \in Offsets : Seek(s, i)
        \/ Truncate(s)
        \/ Close(s)

Spec == Init /\ [][Next]_vars
=============================================================================

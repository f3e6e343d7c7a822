------------------------------- MODULE MCTty --------------------------------
(***************************************************************************)
(* Instances of Tty for TLC.  On one line process 1 reads, looks ahead and *)
(* sets modes, with a short output buffer; on a second one processes 1 and *)
(* 2 read; on the third processes 2 and 3 write, and 3 turns the echo on   *)
(* and off, with a short input buffer.                                     *)
(***************************************************************************)
EXTENDS Tty, TLC

Uses(calls) == [p \in Procs |-> IF p \in DOMAIN calls THEN calls[p] ELSE {}]

Reading ==
    [calls |-> Uses(1 :> {"read", "next", "mode"}),
     keys |-> {"a", "b", "NEWLINE", "BACKSP", "EOFCH", "KILLCH"},
     ibuflen |-> 3, obuflen |-> 1, ebuflen |-> 2, fifo |-> 1]

Sharing ==
    [calls |-> Uses(1 :> {"read"} @@ 2 :> {"read"}),
     keys |-> {"a", "b", "NEWLINE", "EOFCH"},
     ibuflen |-> 3, obuflen |-> 1, ebuflen |-> 2, fifo |-> 1]

Writing ==
    [calls |-> Uses(2 :> {"write"} @@ 3 :> {"write", "echo"}),
     keys |-> {"a", "BACKSP", "STOPCH", "STRTCH"},
     ibuflen |-> 2, obuflen |-> 2, ebuflen |-> 4, fifo |-> 2]

Lines == {Reading, Sharing, Writing}

Messages == {<<"x", "NEWLINE">>}
=============================================================================

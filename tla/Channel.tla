------------------------------ MODULE Channel -------------------------------
(***************************************************************************)
(* What ports promise: each port, while it is open, is a first-in          *)
(* first-out channel that holds at most cap messages; clearing it drops    *)
(* them all.                                                               *)
(***************************************************************************)
EXTENDS Integers, Sequences

CONSTANTS
    Ports,      \* port identifiers
    Msgs,       \* messages
    Caps        \* sizes a port may be given

VARIABLE chan

Closed == [open |-> FALSE, cap |-> 0, msgs |-> << >>]

Init == chan = [k \in Ports |-> Closed]

Open(k, n) ==
    /\ ~chan[k].open
    /\ chan' = [chan EXCEPT ![k] = [open |-> TRUE, cap |-> n, msgs |-> << >>]]

Send(k, m) ==
    /\ chan[k].open
    /\ Len(chan[k].msgs) < chan[k].cap
    /\ chan' = [chan EXCEPT ![k].msgs = Append(@, m)]

Recv(k) ==
    /\ chan[k].open
    /\ chan[k].msgs # << >>
    /\ chan' = [chan EXCEPT ![k].msgs = Tail(@)]

Close(k) ==
    /\ chan[k].open
    /\ chan' = [chan EXCEPT ![k] = Closed]

Next ==
    \E k \in Ports :
        \/ \E n \in Caps : Open(k, n)
        \/ \E m \in Msgs : Send(k, m)
        \/ Recv(k)
        \/ Close(k)

Spec == Init /\ [][Next]_chan
=============================================================================

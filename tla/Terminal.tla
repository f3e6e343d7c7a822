------------------------------ MODULE Terminal ------------------------------
(***************************************************************************)
(* What a terminal line promises the processes that use it.  A line that   *)
(* is being typed can be corrected until it is ended; then it may be read, *)
(* in the order in which it was typed.  What is written is transmitted in  *)
(* the order in which it was written.                                      *)
(***************************************************************************)
EXTENDS Integers, Sequences, SequencesExt

CONSTANTS
    Keys,       \* what can be typed
    Procs,      \* the processes
    Texts       \* what they write

VARIABLES
    line,       \* the line that is being typed
    ready,      \* what may be read
    out,        \* what has been written and not transmitted
    todo        \* what is left of the text a process is writing

vars == <<line, ready, out, todo>>
outVars == <<out, todo>>

Init ==
    /\ line = << >> /\ ready = << >> /\ out = << >>
    /\ todo = [p \in Procs |-> << >>]

Type == \E c \in Keys : line' = Append(line, c) /\ UNCHANGED <<ready, outVars>>
Erase == line # << >> /\ line' = Front(line) /\ UNCHANGED <<ready, outVars>>
Kill == line' = << >> /\ UNCHANGED <<ready, outVars>>
EndLine == /\ ready' = Append(ready \o line, "NEWLINE")
           /\ line' = << >>
           /\ UNCHANGED outVars
Eof == line = << >> /\ ready' = Append(ready, "EOFCH") /\ UNCHANGED <<line, outVars>>

\* Without line editing a key makes one more character readable at once.
Raw == \E c \in Keys :
         LET all == Append(ready \o line, c) IN
         /\ ready' = SubSeq(all, 1, Len(ready) + 1)
         /\ line' = SubSeq(all, Len(ready) + 2, Len(all))
         /\ UNCHANGED outVars

Read == \E n \in 1..Len(ready) :
          ready' = SubSeq(ready, n + 1, Len(ready)) /\ UNCHANGED <<line, outVars>>

\* A process begins to write a text, or goes on with one.
Write ==
    \E p \in Procs : \E t \in Texts \cup {todo[p]} :
      /\ todo[p] \in {t, << >>}
      /\ \E n \in 0..Len(t) :
           /\ out' = out \o SubSeq(t, 1, n)
           /\ todo' = [todo EXCEPT ![p] = SubSeq(t, n + 1, Len(t))]
      /\ UNCHANGED <<line, ready>>

Transmit ==
    \E n \in 1..Len(out) :
      out' = SubSeq(out, n + 1, Len(out)) /\ UNCHANGED <<line, ready, todo>>

Next == Type \/ Erase \/ Kill \/ EndLine \/ Eof \/ Raw \/ Read \/ Write \/ Transmit

Spec == Init /\ [][Next]_vars
=============================================================================

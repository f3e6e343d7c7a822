------------------------------- MODULE MCRfs --------------------------------
(***************************************************************************)
(* Instances of Rfs for TLC.  "g" is a name that open accepts and the      *)
(* control functions refuse, "long" one that open refuses.                 *)
(***************************************************************************)
EXTENDS Rfs, TLC

Lengths == "" :> 0 @@ "f" :> 1 @@ "g" :> 2 @@ "long" :> 3

Open(name, mode) == Call("open", 0, name, 0, mode)
OnSlot(op, s) == Call(op, s, "", 0, << >>)
OnName(op, name) == Call(op, 0, name, 0, << >>)

\* Two processes share an open file.
Sharing ==
    [left |-> 4,
     calls |-> [p \in Procs |->
        IF p = "u" THEN {Open("f", << >>), Call("write", 0, "", 0, <<"y", "z">>),
                         Call("read", 0, "", 2, << >>)}
        ELSE {OnSlot("getc", 0), Call("putc", 0, "", 0, <<"x">>), Call("seek", 0, "", 0, << >>)}]]

\* A file comes and goes.
Naming ==
    [left |-> 4,
     calls |-> [p \in Procs |->
        IF p = "u" THEN {Open("f", <<"w", "n">>), OnName("delete", "f"), OnName("truncate", "f"),
                         OnSlot("close", 0)}
        ELSE {Open("f", <<"r", "o">>), OnSlot("size", 0)}]]

\* Directories, and calls that are refused.
Refusing ==
    [left |-> 4,
     calls |-> [p \in Procs |->
        IF p = "u" THEN {OnName("mkdir", "f"), OnName("rmdir", "f"), OnSlot("invalid", 0),
                         OnSlot("size", 0), OnSlot("close", 0)}
        ELSE {Open("g", << >>), Open("f", <<"r", "r">>), Open("long", << >>),
              Call("read", 0, "", 0, << >>), Call("seek", 0, "", 0, << >>)}]]

Uses == {Sharing, Naming, Refusing}
=============================================================================

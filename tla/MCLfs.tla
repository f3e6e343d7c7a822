------------------------------- MODULE MCLfs --------------------------------
(***************************************************************************)
(* Instances of Lfs for TLC.  p opens, writes, truncates and closes; q     *)
(* writes, reads and seeks through the devices that p has opened.          *)
(***************************************************************************)
EXTENDS Lfs

CONSTANTS file1, file2, file3

Files == Permutations(Names)
OpenModes == {<<"n">>, <<"r", "o">>, << >>, <<"o", "n">>}
Users ==
    [x \in Procs |-> IF x = "p" THEN {"open", "trunc", "close", "put"}
                     ELSE {"put", "get", "seek"}]
Letter == [x \in Procs |-> IF x = "p" THEN "x" ELSE "y"]
=============================================================================

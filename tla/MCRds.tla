------------------------------- MODULE MCRds --------------------------------
(***************************************************************************)
(* Instances of Rds for TLC: u does everything, v reads and writes.  A     *)
(* block has one writer: rdswrite looks for a write of the block on the    *)
(* request queue before it waits for a buffer, so two writers of a block   *)
(* may both add one, and a third write then replaces the older.            *)
(***************************************************************************)
EXTENDS Rds

Programs ==
    [p \in Users |-> IF p = "u" THEN {"open", "close", "delete", "read", "write", "sync"}
                     ELSE {"read", "write"}]

OwnBlocks == [p \in Users |-> IF p = "u" THEN {0} ELSE {1}]
=============================================================================

------------------------------ MODULE MCMemory ------------------------------
(***************************************************************************)
(* An instance of Memory for TLC: a heap of a few units, one that holds at *)
(* most two pools.                                                         *)
(***************************************************************************)
EXTENDS Memory

\* Blocks with each of the other uses of the heap.
Mixes == {{"blocks", "stacks"}, {"blocks", "virtual"}, {"blocks", "pools"}}

\* A pool of two buffers, one whose size is rounded up, and one that is refused.
Pools == {<<8, 2>>, <<9, 1>>, <<7, 1>>}
=============================================================================

------------------------------ MODULE MCPaging ------------------------------
(***************************************************************************)
(* Instances of Paging for TLC: the systems that are run.                  *)
(***************************************************************************)
EXTENDS Paging

Sys(policy, n, times, sizes, windows) ==
    [policy |-> policy, nframes |-> n, windows |-> windows,
     lives |-> [p \in Procs |-> times[p]], hsize |-> [p \in Procs |-> sizes[p]]]

\* Two processes under FIFO with memory for three of their four pages; under GCA
\* one process that is created twice; two processes whose faults interleave; under
\* FIFO one process that is created twice; and heaps that need the last store, of which
\* the disk holds one page.
Pagers == {Sys("FIFO", 7, <<1, 1>>, <<1, 3>>, FALSE),
           Sys("GCA", 4, <<0, 2>>, <<0, 3>>, FALSE),
           Sys("FIFO", 6, <<1, 2>>, <<1, 1>>, TRUE),
           Sys("FIFO", 4, <<0, 2>>, <<0, 3>>, FALSE),
           Sys("FIFO", 8, <<0, 1>>, <<0, 6>>, FALSE)}

\* Interleaved faults of two processes with several pages each.
Interleaved == {Sys("FIFO", 8, <<1, 1>>, <<2, 2>>, TRUE)}
=============================================================================

-------------------------------- MODULE MCHeap --------------------------------
(* The heap with two threads and a few words of memory.                     *)
EXTENDS ChHeap, TLC

ASSUME RequestsFit

(* What the heap can still read: headers of blocks, and the locals of calls *)
(* in progress.  Everything else is overwritten before it is read.          *)
Live(f, labels) == [t \in {u \in Threads : pc[u] \in labels} |-> f[t]]

View ==
  <<nextmem, mtx, pc, list, used,
    [a \in Blocks \cup {HEAD} |-> next[a]],
    [a \in Blocks |-> hsize[a]],
    [a \in used |-> asked[a]],
    Live(size, {"alloc_lock", "alloc_walk", "alloc_core"}),
    Live(req, {"alloc_lock", "alloc_walk", "alloc_core"}),
    Live(qp, {"alloc_walk", "free_lock", "free_walk"}),
    Live(hp, {"free_lock", "free_walk"})>>
=============================================================================

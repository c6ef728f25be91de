------------------------------ MODULE MCMailbox ------------------------------
(* A thread and one of a higher priority; the handlers are a third party.   *)
EXTENDS ChMailbox, TLC

CONSTANTS low, high

MCPrio == [t \in Threads |-> IF t = high THEN 2 ELSE 1]

(* Without what no step reads any more: p_u of a thread that neither waits  *)
(* nor has a message to read, and slots of the buffer that are free.        *)
View ==
  <<[k EXCEPT !.u = [t \in All |-> IF at[t] = User THEN NONE ELSE k.u[t]]],
    at, irq, queued, overtaken, mb.rd, mb.wr,
    {<<i, mb.buf[(mb.rd + i - 1) % N]>> : i \in DOMAIN queued}>>

Symmetry == Permutations(Messages)
=============================================================================

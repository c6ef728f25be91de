------------------------------- MODULE MCMutex -------------------------------
(* Three threads of different priorities.                                   *)
EXTENDS ChMutex, TLC

CONSTANTS low, mid, high, m1, m2

MCBasePrio == (low :> 1) @@ (mid :> 2) @@ (high :> 3)
MCSymmetry == Permutations({m1, m2})

(* Without what no step reads any more: p_u of a thread that neither waits  *)
(* nor has a message to read.                                               *)
View ==
  <<[k EXCEPT !.u = [t \in All |->
       IF k.state[t] \in {"WTMTX", "WTCOND"} THEN k.u[t]
       ELSE IF at[t].op = "condtimeout" THEN k.u[t] = "TIMEOUT" ELSE NONE]],
    at, irq, lowered>>
=============================================================================

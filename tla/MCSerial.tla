------------------------------ MODULE MCSerial ------------------------------
(* Printers of the same priority, as main and Thread1 are, and a reader     *)
(* above them.                                                              *)
EXTENDS ChSerial, TLC

CONSTANTS main, thread1, reader

MCPrio == [t \in Threads |-> IF t = reader THEN 2 ELSE 1]

(* The history that no invariant mentions is left out.                      *)
View == <<k, at, irq, iq, oq, usart, isr, printed, sent, arrived, got, reported.overrun>>

(* main's message does not fit into the queue, so that main waits; thread1, *)
(* where there is one, may overtake it.                                     *)
MCChars == [t \in Writers |-> IF t = main THEN 3 ELSE 1]
=============================================================================

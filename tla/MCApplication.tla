---------------------------- MODULE MCApplication ----------------------------
(* The program with its own order, buffer size and number of samples, in    *)
(* the saturating arithmetic of MCFilter.                                   *)
EXTENDS Application

M == INSTANCE MCFilter

SatAdd(x, y) == M!SatAdd(x, y)
SatSub(x, y) == M!SatSub(x, y)
SatMul(x, y) == M!SatMul(x, y)

MCArraysX == { [i \in 0 .. 2 |-> i + 1] }
MCArraysB == { [i \in 0 .. 3 |-> i - 1] }
MCArraysY == { [i \in 0 .. 2 |-> 2 * i - 1] }
MCArraysA == { [i \in 0 .. 3 |-> IF i % 2 = 0 THEN 1 ELSE -2] }

(* A signal with a period that is no divisor of the buffer size.            *)
MCEntradasX == [i \in 0 .. 49 |-> (i * i) % 7]
=============================================================================

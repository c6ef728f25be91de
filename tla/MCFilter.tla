------------------------------- MODULE MCFilter -------------------------------
(* Filter on small instances.  The arithmetic saturates: like rounding, it  *)
(* makes addition depend on the order of the terms.                         *)
EXTENDS Filter

Clamp(n) == IF n > 6 THEN 6 ELSE IF n < -6 THEN -6 ELSE n
SatAdd(x, y) == Clamp(x + y)
SatSub(x, y) == Clamp(x - y)
SatMul(x, y) == Clamp(x * y)

(* Caller arrays, long enough for every order of the instance.              *)
MCArraysX == { [i \in 0 .. 2 |-> i + 1], [i \in 0 .. 2 |-> -i] }
MCArraysB == { [i \in 0 .. 3 |-> i - 1] }
MCArraysY == { [i \in 0 .. 2 |-> 2 * i - 1] }
MCArraysA == { [i \in 0 .. 3 |-> IF i % 2 = 0 THEN 1 ELSE -2] }

(* Words left in RAM: too small, negative, so large that the size wraps     *)
(* around SIZE_MODULUS (62, 67), and large enough (3, 67).                  *)
MCStaleWords == {-4, -3, 0, 1, 3, 62, 67}
=============================================================================

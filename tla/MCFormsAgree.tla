----------------------------- MODULE MCFormsAgree -----------------------------
(* FormsAgree over the integers modulo 5: a commutative ring, so exact, and *)
(* with it every value a filter can take is one of five.                    *)
EXTENDS FormsAgree

ModAdd(x, y) == (x + y) % 5
ModSub(x, y) == (x - y) % 5
ModMul(x, y) == (x * y) % 5

MCArraysX == [0 .. 1 -> {0, 1, 3}]
MCArraysB == { [i \in 0 .. 2 |-> i + 1], [i \in 0 .. 2 |-> IF i = 0 THEN 0 ELSE 2] }
MCArraysA == { [i \in 0 .. 2 |-> IF i = 0 THEN 1 ELSE p[i]] : p \in [1 .. 2 -> {0, 2, 3}] }
=============================================================================

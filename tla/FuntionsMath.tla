----------------------------- MODULE FuntionsMath -----------------------------
(***************************************************************************)
(* The class FuntionsMath: the one arithmetic kernel of the DSP library,   *)
(* the weighted sum every filter form is built from.                       *)
(*                                                                         *)
(* Float arithmetic is a parameter.  Nothing is assumed about it (not      *)
(* associativity, not FMul(x, FZero) = FZero), so what is proved from this *)
(* module holds bit for bit for the single precision floats of the target: *)
(* only the order in which the operations are applied matters.             *)
(***************************************************************************)
EXTENDS Integers

CONSTANTS FZero, FAdd(_, _), FSub(_, _), FMul(_, _)

(* term[l] + term[l+1] + ... + term[u], added from left to right to 0.     *)
Accumulate(l, u, term) ==
  LET acc[k \in (l - 1) .. u] ==
        IF k < l THEN FZero ELSE FAdd(acc[k - 1], term[k])
  IN  acc[u]

(* FuntionsMath::sum.  The coefficients are walked upwards while pCont, and *)
(* with it the position in pArray, walks downwards from pCont+pUpperLimit.  *)
sum(pUpperLimit, pLowerLimit, pCoefficients, pArray, pCont) ==
  Accumulate(pLowerLimit, pUpperLimit,
             [Cont \in pLowerLimit .. pUpperLimit |->
                FMul(pCoefficients[Cont],
                     pArray[(pCont - (Cont - pLowerLimit)) + pUpperLimit])])
=============================================================================

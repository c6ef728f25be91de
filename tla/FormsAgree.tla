------------------------------ MODULE FormsAgree ------------------------------
(***************************************************************************)
(* Two IIR objects given the same coefficients and fed the same samples,   *)
(* one through directFormI and one through directFormII.  The two forms    *)
(* keep different histories (past outputs, and the auxiliary signal v that *)
(* createArrayAux starts); in exact arithmetic they are the same filter.   *)
(* The composition below runs the two calls of a sample in lockstep.       *)
(***************************************************************************)
EXTENDS DataFilter, Sequences

CONSTANTS Orders, ArraysX, ArraysB, ArraysA, Samples, StaleWords, MaxSamples

VARIABLES status1, kind1, order1, B1, X1, A1, Y1, math1, cont1, xs1, ys1, out1,
          status2, kind2, order2, B2, X2, A2, Y2, math2, cont2, xs2, ys2, out2

vars1 == <<status1, kind1, order1, B1, X1, A1, Y1, math1, cont1, xs1, ys1, out1>>
vars2 == <<status2, kind2, order2, B2, X2, A2, Y2, math2, cont2, xs2, ys2, out2>>

One == INSTANCE Filter WITH
  ArraysY <- {}, status <- status1, kind <- kind1, FilterOrder <- order1,
  ArrayCoefficientsB <- B1, ArrayInputsX <- X1, ArrayCoefficientsA <- A1,
  ArrayInputsY <- Y1, MathOperation <- math1, ContBuffer <- cont1,
  xs <- xs1, ys <- ys1, out <- out1

Two == INSTANCE Filter WITH
  ArraysY <- {}, status <- status2, kind <- kind2, FilterOrder <- order2,
  ArrayCoefficientsB <- B2, ArrayInputsX <- X2, ArrayCoefficientsA <- A2,
  ArrayInputsY <- Y2, MathOperation <- math2, ContBuffer <- cont2,
  xs <- xs2, ys <- ys2, out <- out2

(* The outputs of the filter for the inputs x alone, at rest before them.   *)
RestResponse(n, x, b, a) ==
  LET y[i \in 0 .. n - 1] ==
        FSub(Accumulate(0, i, [k \in 0 .. i |-> FMul(b[k], x[i - k])]),
             Accumulate(1, i, [k \in 1 .. i |-> FMul(a[k], y[i - k])]))
  IN  y

Init == One!Init /\ Two!Init

(* The same description; the initial outputs directFormI needs are those    *)
(* of a filter that saw the initial inputs.                                 *)
Build ==
  \E n \in Orders, x \in ArraysX, b \in ArraysB, a \in ArraysA :
    /\ One!newDataFilterIIR1(n, x, b, RestResponse(n, x, b, a), a)
    /\ Two!newDataFilterIIR2(n, x, b, a)

Attach == One!setInitialDataFilter /\ Two!setInitialDataFilter

Feed ==
  /\ Len(xs1) < order1 + MaxSamples
  /\ \E p \in Samples : One!IIR_directFormI(p) /\ Two!IIR_directFormII(p)

Next == Build \/ Attach \/ Feed

Spec == Init /\ [][Next]_<<vars1, vars2>>

(* IIR::directFormI and IIR::directFormII return the same result for every  *)
(* sample, when the arithmetic is that of a commutative ring and the two    *)
(* objects were given initial conditions that belong together.              *)
FormsReturnTheSame ==
  status1 = "ready" /\ status2 = "ready" => out1 = out2
=============================================================================

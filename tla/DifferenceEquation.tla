-------------------------- MODULE DifferenceEquation --------------------------
(***************************************************************************)
(* What a filter of the library promises, free of buffers: the textbook    *)
(* difference equations over the complete signals.  xs and ys hold every   *)
(* sample since the initial conditions, the newest last; nothing is ever   *)
(* dropped or moved.  In Direct Form II ys holds the auxiliary signal v.   *)
(***************************************************************************)
EXTENDS FuntionsMath, Sequences

CONSTANTS Orders,    \* the filter orders a caller may ask for
          ArraysX,   \* arrays a caller may pass as initial inputs
          ArraysB,   \* ... as coefficients b[0], b[1], ...
          ArraysY,   \* ... as initial outputs
          ArraysA,   \* ... as coefficients a[0], a[1], ... (a[0] is 1)
          Samples    \* the input samples

VARIABLES kind,      \* "none" until the filter is described, then its form
          order, b, a,
          xs, ys,    \* the complete signals
          out        \* the last output

vars == <<kind, order, b, a, xs, ys, out>>

(* y[n] of an all-zero filter: sum of b[k] * s[n-k], with s[n] the last of s *)
FeedForward(s) ==
  Accumulate(0, order, [k \in 0 .. order |-> FMul(b[k], s[Len(s) - k])])

(* sum of a[k+1] * s[n-1-k], with s[n-1] the last of s *)
FeedBack(s) ==
  Accumulate(0, order - 1,
             [k \in 0 .. order - 1 |-> FMul(a[k + 1], s[Len(s) - k])])

(* The auxiliary signal that the initial inputs x alone give rise to when   *)
(* nothing came before them; c[k] is the coefficient a[k+1].                *)
AuxSignal(n, x, c) ==
  LET v[i \in 0 .. n - 1] ==
        IF i = 0 THEN x[0]
        ELSE FSub(x[i], Accumulate(0, i - 1,
                        [k \in 0 .. i - 1 |-> FMul(c[k], v[i - 1 - k])]))
  IN  v

(* The first n elements of a caller's array, as a signal, oldest first.     *)
Signal(n, array) == [i \in 1 .. n |-> array[i - 1]]

Init ==
  /\ kind = "none" /\ order = 0
  /\ b = << >> /\ a = << >> /\ xs = << >> /\ ys = << >>
  /\ out = FZero

Describe(k, n, x, pb, ys0, pa) ==
  /\ kind = "none"
  /\ kind' = k
  /\ order' = n
  /\ b' = [i \in 0 .. n |-> pb[i]]
  /\ a' = pa
  /\ xs' = Signal(n, x)
  /\ ys' = ys0
  /\ UNCHANGED out

DescribeFIR ==
  \E n \in Orders, x \in ArraysX, pb \in ArraysB :
    Describe("FIR", n, x, pb, << >>, << >>)

DescribeIIR1 ==
  \E n \in Orders, x \in ArraysX, pb \in ArraysB, y \in ArraysY, pa \in ArraysA :
    Describe("IIR_I", n, x, pb, Signal(n, y), [i \in 1 .. n |-> pa[i]])

DescribeIIR2 ==
  \E n \in Orders, x \in ArraysX, pb \in ArraysB, pa \in ArraysA :
    Describe("IIR_II", n, x, pb,
             Signal(n, AuxSignal(n, [i \in 0 .. n - 1 |-> x[i]],
                                    [i \in 0 .. n - 1 |-> pa[i + 1]])),
             [i \in 1 .. n |-> pa[i]])

(* y[n] = b[0] x[n] + ... + b[N] x[n-N] *)
SampleFIR(p) ==
  /\ kind = "FIR"
  /\ xs' = Append(xs, p)
  /\ out' = FeedForward(xs')
  /\ UNCHANGED <<kind, order, b, a, ys>>

(* y[n] = b[0] x[n] + ... + b[N] x[n-N] - (a[1] y[n-1] + ... + a[N] y[n-N]) *)
SampleIIR1(p) ==
  /\ kind = "IIR_I"
  /\ xs' = Append(xs, p)
  /\ out' = FSub(FeedForward(xs'), FeedBack(ys))
  /\ ys' = Append(ys, out')
  /\ UNCHANGED <<kind, order, b, a>>

(* v[n] = x[n] - (a[1] v[n-1] + ...),  y[n] = b[0] v[n] + ... + b[N] v[n-N] *)
SampleIIR2(p) ==
  /\ kind = "IIR_II"
  /\ xs' = Append(xs, p)
  /\ ys' = Append(ys, FSub(p, FeedBack(ys)))
  /\ out' = FeedForward(ys')
  /\ UNCHANGED <<kind, order, b, a>>

Next ==
  \/ DescribeFIR \/ DescribeIIR1 \/ DescribeIIR2
  \/ \E p \in Samples : SampleFIR(p) \/ SampleIIR1(p) \/ SampleIIR2(p)

Spec == Init /\ [][Next]_vars
=============================================================================

-------------------------------- MODULE Filter --------------------------------
(***************************************************************************)
(* A filter object (classes Filter, FIR and IIR) together with the         *)
(* DataFilter it works on: built by one of the three newDataFilter,        *)
(* attached by setInitialDataFilter, then fed sample by sample.            *)
(*                                                                         *)
(* Neither object has a constructor: every member holds what the RAM held  *)
(* before.  The three newDataFilter size the buffers with the member       *)
(* FilterOrder before they set it, so the size comes from a stale word.    *)
(* The first access outside a block ends what the code defines: status     *)
(* becomes "undefined" and the model claims nothing more.                  *)
(*                                                                         *)
(* xs and ys are history variables: the complete signals, which the code   *)
(* does not keep.  No guard reads them, but for the bound MaxSamples.      *)
(***************************************************************************)
EXTENDS DataFilter, Sequences

CONSTANTS Orders, ArraysX, ArraysB, ArraysY, ArraysA, Samples,
          StaleWords,   \* what an int member of a fresh object may hold
          MaxSamples    \* bound on the samples fed to one filter

ASSUME FilterAssumption ==
  /\ Orders \subseteq Nat
  /\ StaleWords \subseteq Int
  /\ MaxSamples \in Nat

VARIABLES
  status,               \* "raw", "built", "ready" or "undefined"
  kind,                 \* which newDataFilter and directForm are used
  FilterOrder, ArrayCoefficientsB, ArrayInputsX,
  ArrayCoefficientsA, ArrayInputsY,       \* members of DataFilter
  MathOperation,        \* member of Filter: is the pointer not NULL?
  ContBuffer,           \* member of Filter: slots of the buffer in use
  xs, ys,               \* history
  out                   \* what the last directForm returned

dataVars == <<kind, FilterOrder, ArrayCoefficientsB, ArrayInputsX,
              ArrayCoefficientsA, ArrayInputsY>>
vars == <<status, dataVars, MathOperation, ContBuffer, xs, ys, out>>

Signal(n, array) == [i \in 1 .. n |-> array[i - 1]]

Init ==
  /\ status = "raw" /\ kind = "none"
  /\ FilterOrder \in StaleWords /\ ContBuffer \in StaleWords
  /\ ArrayCoefficientsB = NULL /\ ArrayInputsX = NULL
  /\ ArrayCoefficientsA = NULL /\ ArrayInputsY = NULL
  /\ MathOperation = FALSE
  /\ xs = << >> /\ ys = << >> /\ out = FZero

(* An access outside a block, or through NULL.                              *)
Undefined ==
  /\ status' = "undefined"
  /\ UNCHANGED <<dataVars, MathOperation, ContBuffer, xs, ys, out>>

Built(k, n, B, X, A, Y) ==
  /\ status' = "built" /\ kind' = k /\ FilterOrder' = n
  /\ ArrayCoefficientsB' = B /\ ArrayInputsX' = X
  /\ ArrayCoefficientsA' = A /\ ArrayInputsY' = Y
  /\ UNCHANGED <<MathOperation, ContBuffer, out>>

newDataFilterFIR(n, pX, pB) ==
  /\ status = "raw"
  /\ \E B \in chHeapAlloc(n + 1), X \in chHeapAlloc(FilterOrder + BUFFER_SIZE) :
       \/ /\ Fits(X, n) /\ Fits(B, n + 1)
          /\ Built("FIR", n, Filled(B, n + 1, pB), Filled(X, n, pX), NULL, NULL)
          /\ xs' = Signal(n, pX) /\ ys' = << >>
       \/ ~(Fits(X, n) /\ Fits(B, n + 1)) /\ Undefined

newDataFilterIIR1(n, pX, pB, pY, pA) ==
  /\ status = "raw"
  /\ \E B \in chHeapAlloc(n + 1), X \in chHeapAlloc(FilterOrder + BUFFER_SIZE),
        A \in chHeapAlloc(n), Y \in chHeapAlloc(FilterOrder + BUFFER_SIZE) :
       LET ok == Fits(X, n) /\ Fits(B, n + 1) /\ Fits(Y, n) /\ Fits(A, n)
       IN  \/ /\ ok
              /\ Built("IIR_I", n, Filled(B, n + 1, pB), Filled(X, n, pX),
                       setArrayCoefficientsA(A, n, pA), Filled(Y, n, pY))
              /\ xs' = Signal(n, pX) /\ ys' = Signal(n, pY)
           \/ ~ok /\ Undefined

newDataFilterIIR2(n, pX, pB, pA) ==
  /\ status = "raw"
  /\ \E B \in chHeapAlloc(n + 1), X \in chHeapAlloc(FilterOrder + BUFFER_SIZE),
        A \in chHeapAlloc(n), Y \in chHeapAlloc(FilterOrder + BUFFER_SIZE),
        math \in chHeapAllocMath :
       LET ok == /\ Fits(X, n) /\ Fits(B, n + 1) /\ Fits(A, n) /\ Fits(Y, n)
                 /\ Fits(X, 1) /\ Fits(Y, 1)
                 /\ n > 1 => math
           X1 == Filled(X, n, pX)
           A1 == setArrayCoefficientsA(A, n, pA)
           Y1 == createArrayAux(n, X1, A1, Y)
       IN  \/ /\ ok
              /\ Built("IIR_II", n, Filled(B, n + 1, pB), X1, A1, Y1)
              /\ xs' = Signal(n, pX) /\ ys' = Signal(n, Y1)
           \/ ~ok /\ Undefined

setInitialDataFilter ==
  /\ status = "built"
  /\ status' = "ready"
  /\ MathOperation' \in chHeapAllocMath
  /\ ContBuffer' = 0
  /\ UNCHANGED <<dataVars, xs, ys, out>>

-----------------------------------------------------------------------------
(* Every directForm first makes room: a full buffer is moved down.          *)
Moved(array) ==
  IF ContBuffer = BUFFER_SIZE THEN moveArray(array, FilterOrder) ELSE array

(* Variant of Cursor: the full buffer is moved, but ContBuffer not reset.   *)
Cursor_NoReset == ContBuffer

Cursor == IF ContBuffer = BUFFER_SIZE THEN 0 ELSE ContBuffer

(* The accesses one call makes to a buffer are to elements of its block.    *)
CallFits(array) ==
  /\ ContBuffer = BUFFER_SIZE => Fits(array, FilterOrder + BUFFER_SIZE)
  /\ FilterOrder + Cursor \in DOMAIN array

(* FIR::directFormI and FIR::directFormII, whose bodies are the same.       *)
FIR_directForm(pData) ==
  LET X == [Moved(ArrayInputsX) EXCEPT ![FilterOrder + Cursor] = pData]
      ok == CallFits(ArrayInputsX) /\ MathOperation
  IN  /\ status = "ready" /\ kind = "FIR"
      /\ \/ /\ ok
            /\ ArrayInputsX' = X
            /\ out' = sum(FilterOrder, 0, ArrayCoefficientsB, X, Cursor)
            /\ ContBuffer' = Cursor + 1
            /\ xs' = Append(xs, pData)
            /\ UNCHANGED <<status, kind, FilterOrder, ArrayCoefficientsB,
                           ArrayCoefficientsA, ArrayInputsY, MathOperation, ys>>
         \/ ~ok /\ Undefined

IIR_directFormI(pData) ==
  LET X == [Moved(ArrayInputsX) EXCEPT ![FilterOrder + Cursor] = pData]
      Y == Moved(ArrayInputsY)
      result == FSub(sum(FilterOrder, 0, ArrayCoefficientsB, X, Cursor),
                     sum(FilterOrder - 1, 0, ArrayCoefficientsA, Y, Cursor))
      ok == CallFits(ArrayInputsX) /\ CallFits(ArrayInputsY) /\ MathOperation
  IN  /\ status = "ready" /\ kind = "IIR_I"
      /\ \/ /\ ok
            /\ ArrayInputsX' = X
            /\ ArrayInputsY' = [Y EXCEPT ![FilterOrder + Cursor] = result]
            /\ out' = result
            /\ ContBuffer' = Cursor + 1
            /\ xs' = Append(xs, pData) /\ ys' = Append(ys, result)
            /\ UNCHANGED <<status, kind, FilterOrder, ArrayCoefficientsB,
                           ArrayCoefficientsA, MathOperation>>
         \/ ~ok /\ Undefined

IIR_directFormII(pData) ==
  LET X == [Moved(ArrayInputsX) EXCEPT ![FilterOrder + Cursor] = pData]
      V0 == Moved(ArrayInputsY)
      v == FSub(pData, sum(FilterOrder - 1, 0, ArrayCoefficientsA, V0, Cursor))
      V == [V0 EXCEPT ![FilterOrder + Cursor] = v]
      ok == CallFits(ArrayInputsX) /\ CallFits(ArrayInputsY) /\ MathOperation
  IN  /\ status = "ready" /\ kind = "IIR_II"
      /\ \/ /\ ok
            /\ ArrayInputsX' = X
            /\ ArrayInputsY' = V
            /\ out' = sum(FilterOrder, 0, ArrayCoefficientsB, V, Cursor)
            /\ ContBuffer' = Cursor + 1
            /\ xs' = Append(xs, pData) /\ ys' = Append(ys, v)
            /\ UNCHANGED <<status, kind, FilterOrder, ArrayCoefficientsB,
                           ArrayCoefficientsA, MathOperation>>
         \/ ~ok /\ Undefined

newDataFilter ==
  \E n \in Orders, pX \in ArraysX, pB \in ArraysB :
    \/ newDataFilterFIR(n, pX, pB)
    \/ \E pA \in ArraysA : newDataFilterIIR2(n, pX, pB, pA)
    \/ \E pA \in ArraysA, pY \in ArraysY : newDataFilterIIR1(n, pX, pB, pY, pA)

directForm ==
  /\ Len(xs) < FilterOrder + MaxSamples
  /\ \E p \in Samples :
       FIR_directForm(p) \/ IIR_directFormI(p) \/ IIR_directFormII(p)

Next == newDataFilter \/ setInitialDataFilter \/ directForm

Spec == Init /\ [][Next]_vars
-----------------------------------------------------------------------------
(* s is a sequence, of whatever elements.                                   *)
IsSequence(s) == s \in Seq({s[i] : i \in DOMAIN s})

(* The members have their types once they are set; a buffer in use has      *)
(* between 0 and BUFFER_SIZE samples behind its initial conditions.         *)
TypeOK ==
  /\ status \in {"raw", "built", "ready", "undefined"}
  /\ kind \in {"none", "FIR", "IIR_I", "IIR_II"}
  /\ status = "raw" => kind = "none"
  /\ status \in {"built", "ready"} => kind # "none"
  /\ FilterOrder \in Int /\ ContBuffer \in Int /\ MathOperation \in BOOLEAN
  /\ kind # "none" => FilterOrder \in Nat
  /\ status = "ready" => ContBuffer \in 0 .. BUFFER_SIZE
  /\ IsSequence(xs) /\ IsSequence(ys)

(* The elements of a buffer that the next call reads as s[n-1] ... s[n-N].   *)
HoldsNewest(array, n, cursor, s) ==
  /\ Len(s) >= n
  /\ Fits(array, n + cursor)
  /\ \A k \in 1 .. n : array[n + cursor - k] = s[Len(s) + 1 - k]

(* The sliding buffers never lose, repeat or reorder a sample, across any   *)
(* number of moveArray: just below the cursor they hold the newest          *)
(* FilterOrder samples of the signal (DataFilter.h: "the inputs x[n-k]").   *)
BuffersHoldNewest ==
  status \in {"built", "ready"} =>
    LET cursor == IF status = "built" THEN 0 ELSE ContBuffer
    IN  /\ HoldsNewest(ArrayInputsX, FilterOrder, cursor, xs)
        /\ kind # "FIR" => HoldsNewest(ArrayInputsY, FilterOrder, cursor, ys)

(* N + BUFFER_SIZE elements are all a filter of order N ever needs: a built *)
(* filter only goes out of bounds when a buffer got a smaller block (its    *)
(* size was computed from a stale FilterOrder) or an allocation failed.     *)
OutOfBoundsOnlyIfUndersized ==
  status = "undefined" /\ kind # "none" =>
    \/ ~MathOperation
    \/ ~Fits(ArrayInputsX, FilterOrder + BUFFER_SIZE)
    \/ kind # "FIR" /\ ~Fits(ArrayInputsY, FilterOrder + BUFFER_SIZE)

(* No call reads or writes outside the blocks that were allocated for it.   *)
AccessesInBounds == status # "undefined"

(* The refinement mapping: the description of the filter, as the blocks of  *)
(* a built DataFilter hold it.                                              *)
orderBar == IF kind = "none" THEN 0 ELSE FilterOrder
bBar == IF kind = "none" THEN << >>
        ELSE [i \in 0 .. FilterOrder |-> ArrayCoefficientsB[i]]
aBar == IF kind \in {"none", "FIR"} THEN << >>
        ELSE [i \in 1 .. FilterOrder |-> ArrayCoefficientsA[i - 1]]

DE == INSTANCE DifferenceEquation WITH order <- orderBar, b <- bBar, a <- aBar

(* Up to the first access out of bounds, every value a directForm returns   *)
(* is the one the difference equation gives for the complete signals.       *)
ImplementsDifferenceEquation == DE!Spec
=============================================================================

----------------------------- MODULE FilterProofs -----------------------------
(* Proofs about Filter, for every order, buffer size, alignment, caller     *)
(* array, RAM content and arithmetic.                                       *)
EXTENDS Filter, TLAPS

-----------------------------------------------------------------------------
(* Sequences of arbitrary elements, as the history variables hold them.     *)

(* The initial conditions of a filter, as a signal.                         *)
LEMMA SignalProperties ==
  ASSUME NEW n \in Nat, NEW f
  PROVE  /\ IsSequence(Signal(n, f))
         /\ Len(Signal(n, f)) = n
         /\ \A i \in 1 .. n : Signal(n, f)[i] = f[i - 1]
<1> DEFINE s == [i \in 1 .. n |-> f[i - 1]]
           S == {s[i] : i \in DOMAIN s}
<1>1. s \in [1 .. n -> S]
  OBVIOUS
<1>2. s \in Seq(S)
  <2> HIDE DEF s, S
  <2> QED BY <1>1
<1>3. Len(s) = n
  <2>1. DOMAIN s = 1 .. n
    OBVIOUS
  <2> HIDE DEF s, S
  <2> QED BY <1>2, <2>1
<1> QED BY <1>2, <1>3 DEF IsSequence, Signal

(* One sample more.                                                         *)
LEMMA AppendProperties ==
  ASSUME NEW s, IsSequence(s), NEW e
  PROVE  /\ Len(s) \in Nat
         /\ IsSequence(Append(s, e))
         /\ Len(Append(s, e)) = Len(s) + 1
         /\ \A i \in 1 .. Len(s) : Append(s, e)[i] = s[i]
         /\ Append(s, e)[Len(s) + 1] = e
<1> DEFINE S == {s[i] : i \in DOMAIN s} \cup {e}
           t == Append(s, e)
           T == {t[i] : i \in DOMAIN t}
<1>1. s \in Seq(S) /\ e \in S
  BY DEF IsSequence
<1>2. t \in Seq(S) /\ Len(t) = Len(s) + 1 /\ Len(s) \in Nat
  <2> HIDE DEF S
  <2> QED BY <1>1
<1>3. t \in [1 .. Len(t) -> T] /\ Len(t) \in Nat
  <2> HIDE DEF S, t
  <2>1. t = [i \in 1 .. Len(t) |-> t[i]] /\ DOMAIN t = 1 .. Len(t)
    BY <1>2
  <2> QED BY <1>2, <2>1
<1>4. t \in Seq(T)
  <2> HIDE DEF t, T
  <2> QED BY <1>3
<1>5. /\ \A i \in 1 .. Len(s) : t[i] = s[i]
      /\ t[Len(s) + 1] = e
  <2> HIDE DEF S
  <2> QED BY <1>1, <1>2
<1> QED BY <1>2, <1>4, <1>5 DEF IsSequence

-----------------------------------------------------------------------------
(* The buffer.                                                              *)

(* The samples a call reads: before it writes e it finds s[n-1], s[n-2] ...  *)
(* below the position n+cc, afterwards e and s[n-1] ... from it downwards.  *)
Reads(n, cc, moved, w, s, e) ==
  /\ \A k \in 1 .. n : moved[n + cc - k] = s[Len(s) + 1 - k]
  /\ \A k \in 0 .. n : w[n + cc - k] = Append(s, e)[Len(s) + 1 - k]

(* The heart of the argument: making room with moveArray (or not) and       *)
(* writing the sample e keeps the newest samples in reach of the cursor.    *)
LEMMA PushProperties ==
  ASSUME NEW n \in Nat, NEW c \in 0 .. BUFFER_SIZE, NEW array, NEW s, NEW e,
         IsSequence(s), HoldsNewest(array, n, c, s),
         NEW cc, cc = IF c = BUFFER_SIZE THEN 0 ELSE c,
         NEW moved, moved = IF c = BUFFER_SIZE THEN moveArray(array, n) ELSE array,
         NEW w, DOMAIN w = DOMAIN moved, w[n + cc] = e,
         \A i \in DOMAIN moved \ {n + cc} : w[i] = moved[i],
         c = BUFFER_SIZE => Fits(array, n + BUFFER_SIZE),
         n + cc \in DOMAIN array
  PROVE  /\ cc \in 0 .. BUFFER_SIZE - 1
         /\ DOMAIN moved = DOMAIN array
         /\ Reads(n, cc, moved, w, s, e)
         /\ HoldsNewest(w, n, cc + 1, Append(s, e))
<1> USE DataFilterAssumption
<1>1. cc \in 0 .. BUFFER_SIZE - 1
  OBVIOUS
<1>2. DOMAIN moved = DOMAIN array
  BY DEF moveArray
<1>3. /\ Len(s) \in Nat /\ Len(s) >= n
      /\ Fits(array, n + c)
      /\ \A k \in 1 .. n : array[n + c - k] = s[Len(s) + 1 - k]
  BY AppendProperties DEF HoldsNewest
<1>4. \A k \in 1 .. n : moved[n + cc - k] = s[Len(s) + 1 - k]
  <2>1. CASE c = BUFFER_SIZE
    <3> SUFFICES ASSUME NEW k \in 1 .. n
                 PROVE  moved[n - k] = s[Len(s) + 1 - k]
      BY <2>1
    <3>1. n - k \in DOMAIN array /\ n - k < n
      BY <2>1 DEF Fits
    <3>2. moved[n - k] = array[n - k + BUFFER_SIZE]
      BY <2>1, <3>1 DEF moveArray
    <3>3. n - k + BUFFER_SIZE = n + c - k
      BY <2>1
    <3> QED BY <1>3, <3>2, <3>3
  <2>2. CASE c # BUFFER_SIZE
    BY <1>3, <2>2
  <2> QED BY <2>1, <2>2
<1>5. \A k \in 0 .. n : w[n + cc - k] = Append(s, e)[Len(s) + 1 - k]
  <2> SUFFICES ASSUME NEW k \in 0 .. n
               PROVE  w[n + cc - k] = Append(s, e)[Len(s) + 1 - k]
    OBVIOUS
  <2>1. CASE k = 0
    BY <1>1, <1>3, <2>1, AppendProperties
  <2>2. CASE k \in 1 .. n
    <3>1. n + cc - k \in DOMAIN array
      <4> DEFINE i == n + cc - k
      <4>1. i \in 0 .. (n + c) - 1
        BY <1>1, <2>2, DataFilterAssumption
      <4> HIDE DEF i
      <4>2. i \in DOMAIN array
        BY <1>3, <4>1 DEF Fits
      <4> QED BY <4>2 DEF i
    <3>2. w[n + cc - k] = moved[n + cc - k]
      BY <1>1, <1>2, <2>2, <3>1
    <3>3. Append(s, e)[Len(s) + 1 - k] = s[Len(s) + 1 - k]
      BY <1>3, <2>2, AppendProperties
    <3> QED BY <1>4, <2>2, <3>2, <3>3
  <2>3. k = 0 \/ k \in 1 .. n
    OBVIOUS
  <2> QED BY <2>1, <2>2, <2>3
<1>6. HoldsNewest(w, n, cc + 1, Append(s, e))
  <2>1. Len(Append(s, e)) = Len(s) + 1
    BY AppendProperties
  <2>2. Fits(w, n + (cc + 1))
    BY <1>1, <1>2, <1>3 DEF Fits
  <2>3. ASSUME NEW k \in 1 .. n
        PROVE  w[n + (cc + 1) - k] = Append(s, e)[Len(Append(s, e)) + 1 - k]
    <3>1. k - 1 \in 0 .. n /\ n + (cc + 1) - k = n + cc - (k - 1)
      BY <1>1
    <3>2. Len(Append(s, e)) + 1 - k = Len(s) + 1 - (k - 1)
      BY <1>3, <2>1
    <3> QED BY <1>5, <3>1, <3>2
  <2> DEFINE t == Append(s, e)
  <2>4. /\ Len(t) >= n /\ Fits(w, n + (cc + 1))
        /\ \A k \in 1 .. n : w[n + (cc + 1) - k] = t[Len(t) + 1 - k]
    <3>1. Len(t) >= n
      BY <1>3, <2>1
    <3> HIDE DEF t
    <3> QED BY <2>2, <2>3, <3>1 DEF t
  <2> HIDE DEF t
  <2>5. HoldsNewest(w, n, cc + 1, t)
    BY <2>4 DEF HoldsNewest
  <2> QED BY <2>5 DEF t
<1> QED BY <1>1, <1>2, <1>4, <1>5, <1>6 DEF Reads
-----------------------------------------------------------------------------
(* The invariants.                                                          *)

(* A NULL array is an empty signal.                                         *)
LEMMA NullIsSequence == IsSequence(NULL)
<1>1. << >> \in Seq({<< >>[i] : i \in DOMAIN << >>})
  OBVIOUS
<1> QED BY <1>1 DEF IsSequence, NULL

(* The members of a fresh object have their types.                          *)
LEMMA TypeInit == Init => TypeOK
  BY FilterAssumption, NullIsSequence DEF Init, TypeOK, NULL

(* Where the cursor of a filter in use stands.                              *)
LEMMA CursorType ==
  ASSUME TypeOK, status = "ready"
  PROVE  /\ Cursor \in 0 .. BUFFER_SIZE - 1
         /\ Cursor + 1 \in 0 .. BUFFER_SIZE
  BY DataFilterAssumption DEF TypeOK, Cursor

(* Every call keeps the types and the bound on ContBuffer.                  *)
LEMMA TypeStep == TypeOK /\ [Next]_vars => TypeOK'
<1> SUFFICES ASSUME TypeOK, [Next]_vars
             PROVE  TypeOK'
  OBVIOUS
<1> USE FilterAssumption
<1>1. ASSUME Undefined PROVE TypeOK'
  BY <1>1 DEF Undefined, dataVars, TypeOK
<1>2. ASSUME NEW n \in Orders, NEW pX \in ArraysX, NEW pB \in ArraysB,
             newDataFilterFIR(n, pX, pB)
      PROVE  TypeOK'
  <2>1. CASE status' = "built"
    BY <1>2, <2>1, SignalProperties, NullIsSequence
       DEF newDataFilterFIR, Built, Undefined, TypeOK, NULL
  <2>2. CASE status' # "built"
    BY <1>1, <1>2, <2>2 DEF newDataFilterFIR, Built
  <2> QED BY <2>1, <2>2
<1>3. ASSUME NEW n \in Orders, NEW pX \in ArraysX, NEW pB \in ArraysB,
             NEW pY \in ArraysY, NEW pA \in ArraysA,
             newDataFilterIIR1(n, pX, pB, pY, pA)
      PROVE  TypeOK'
  <2>1. CASE status' = "built"
    BY <1>3, <2>1, SignalProperties
       DEF newDataFilterIIR1, Built, Undefined, TypeOK
  <2>2. CASE status' # "built"
    BY <1>1, <1>3, <2>2 DEF newDataFilterIIR1, Built
  <2> QED BY <2>1, <2>2
<1>4. ASSUME NEW n \in Orders, NEW pX \in ArraysX, NEW pB \in ArraysB,
             NEW pA \in ArraysA, newDataFilterIIR2(n, pX, pB, pA)
      PROVE  TypeOK'
  <2>1. CASE status' = "built"
    BY <1>4, <2>1, SignalProperties
       DEF newDataFilterIIR2, Built, Undefined, TypeOK
  <2>2. CASE status' # "built"
    BY <1>1, <1>4, <2>2 DEF newDataFilterIIR2, Built
  <2> QED BY <2>1, <2>2
<1>5. CASE setInitialDataFilter
  <2>1. MathOperation' \in BOOLEAN
    BY <1>5, Zenon DEF setInitialDataFilter, chHeapAllocMath
  <2>2. /\ status' = "ready" /\ kind' = kind /\ FilterOrder' = FilterOrder
        /\ ContBuffer' = 0 /\ xs' = xs /\ ys' = ys /\ status = "built"
    BY <1>5 DEF setInitialDataFilter, dataVars
  <2> QED BY <2>1, <2>2, DataFilterAssumption DEF TypeOK
<1>6. ASSUME NEW p \in Samples,
             FIR_directForm(p) \/ IIR_directFormI(p) \/ IIR_directFormII(p)
      PROVE  TypeOK'
  <2>1. CASE status' = "undefined"
    BY <1>1, <1>6, <2>1
       DEF FIR_directForm, IIR_directFormI, IIR_directFormII
  <2>2. CASE status' # "undefined"
    <3>1. /\ status = "ready" /\ status' = status /\ kind' = kind
          /\ FilterOrder' = FilterOrder /\ MathOperation' = MathOperation
          /\ ContBuffer' = Cursor + 1
      BY <1>6, <2>2
         DEF FIR_directForm, IIR_directFormI, IIR_directFormII, Undefined
    <3>2. xs' = Append(xs, p) /\ (ys' = ys \/ \E r : ys' = Append(ys, r))
      BY <1>6, <2>2
         DEF FIR_directForm, IIR_directFormI, IIR_directFormII, Undefined
    <3>3. IsSequence(xs')
      BY <3>2, AppendProperties DEF TypeOK
    <3>4. IsSequence(ys')
      <4>1. CASE ys' = ys
        BY <4>1 DEF TypeOK
      <4>2. ASSUME NEW r, ys' = Append(ys, r) PROVE IsSequence(ys')
        BY <4>2, AppendProperties DEF TypeOK
      <4> QED BY <3>2, <4>1, <4>2
    <3> QED BY <3>1, <3>3, <3>4, CursorType, DataFilterAssumption DEF TypeOK
  <2> QED BY <2>1, <2>2
<1>7. CASE UNCHANGED vars
  BY <1>7 DEF vars, dataVars, TypeOK
<1> QED BY <1>2, <1>3, <1>4, <1>5, <1>6, <1>7 DEF Next, newDataFilter, directForm

(* Every member keeps its type, and the fill level of a buffer in use never *)
(* passes BUFFER_SIZE, where the code tests it with == (FIR.cpp:23).        *)
THEOREM TypeCorrect == Spec => []TypeOK
  BY TypeInit, TypeStep, PTL DEF Spec

(* A block whose first n elements were filled holds them as a signal.       *)
LEMMA FilledHolds ==
  ASSUME NEW n \in Nat, NEW block, NEW f, Fits(block, n),
         \A i \in 0 .. n - 1 : block[i] = f[i]
  PROVE  HoldsNewest(block, n, 0, Signal(n, f))
<1> DEFINE s == Signal(n, f)
<1>1. Len(s) = n /\ \A i \in 1 .. n : s[i] = f[i - 1]
  BY SignalProperties
<1> HIDE DEF s
<1>2. ASSUME NEW k \in 1 .. n PROVE block[n + 0 - k] = s[Len(s) + 1 - k]
  <2>1. n + 0 - k \in 0 .. n - 1 /\ n + 1 - k \in 1 .. n
    OBVIOUS
  <2>2. block[n + 0 - k] = f[n + 0 - k] /\ s[n + 1 - k] = f[n + 1 - k - 1]
    BY <1>1, <2>1
  <2> QED BY <1>1, <2>2
<1>3. HoldsNewest(block, n, 0, s)
  BY <1>1, <1>2 DEF HoldsNewest, Fits
<1> QED BY <1>3 DEF s

(* What the set... loops leave in a block that is large enough.             *)
LEMMA FilledProperties ==
  ASSUME NEW n \in Nat, NEW block, NEW f, Fits(block, n)
  PROVE  /\ Fits(Filled(block, n, f), n)
         /\ \A i \in 0 .. n - 1 : Filled(block, n, f)[i] = f[i]
         /\ HoldsNewest(Filled(block, n, f), n, 0, Signal(n, f))
<1>1. /\ Fits(Filled(block, n, f), n)
      /\ \A i \in 0 .. n - 1 : Filled(block, n, f)[i] = f[i]
  BY DEF Filled, Fits
<1> QED BY <1>1, FilledHolds

(* A newDataFilter is called on a fresh object, and builds it or goes out   *)
(* of bounds.                                                               *)
LEMMA BuildOutcome ==
  ASSUME NEW n, NEW pX, NEW pB, NEW pY, NEW pA,
         \/ newDataFilterFIR(n, pX, pB)
         \/ newDataFilterIIR1(n, pX, pB, pY, pA)
         \/ newDataFilterIIR2(n, pX, pB, pA)
  PROVE  status = "raw" /\ (status' = "built" \/ Undefined)
<1>1. CASE newDataFilterFIR(n, pX, pB)
  BY <1>1 DEF newDataFilterFIR, Built
<1>2. CASE newDataFilterIIR1(n, pX, pB, pY, pA)
  BY <1>2 DEF newDataFilterIIR1, Built
<1>3. CASE newDataFilterIIR2(n, pX, pB, pA)
  BY <1>3 DEF newDataFilterIIR2, Built
<1> QED BY <1>1, <1>2, <1>3

(* The same of the choice of one of them.                                   *)
LEMMA NewOutcome ==
  ASSUME newDataFilter
  PROVE  status = "raw" /\ (status' = "built" \/ Undefined)
  BY BuildOutcome DEF newDataFilter

(* g holds the first n elements of f, and the n elements after the first.   *)
Copies(g, n, f) == \A i \in 0 .. n - 1 : g[i] = f[i]
CopiesRest(g, n, f) == \A i \in 0 .. n - 1 : g[i] = f[i + 1]

(* What setArrayCoefficientsB and its like copy.                            *)
LEMMA FilledCopies ==
  ASSUME NEW n \in Nat, NEW block, NEW f, Fits(block, n)
  PROVE  Copies(Filled(block, n, f), n, f)
  BY DEF Filled, Fits, Copies

(* What setArrayCoefficientsA copies.                                       *)
LEMMA CoefficientsACopied ==
  ASSUME NEW n \in Nat, NEW block, NEW f, Fits(block, n)
  PROVE  CopiesRest(setArrayCoefficientsA(block, n, f), n, f)
  BY DEF setArrayCoefficientsA, Fits, CopiesRest

(* Every call keeps the newest samples below the cursor.                    *)
LEMMA BuffersStep ==
  TypeOK /\ BuffersHoldNewest /\ [Next]_vars => BuffersHoldNewest'
<1> SUFFICES ASSUME TypeOK, BuffersHoldNewest, [Next]_vars
             PROVE  BuffersHoldNewest'
  OBVIOUS
<1> USE FilterAssumption
<1>1. ASSUME status' \notin {"built", "ready"} PROVE BuffersHoldNewest'
  BY <1>1 DEF BuffersHoldNewest
<1>2. ASSUME NEW n \in Orders, NEW pX \in ArraysX, NEW pB \in ArraysB,
             newDataFilterFIR(n, pX, pB), status' = "built"
      PROVE  BuffersHoldNewest'
  <2>1. /\ kind' = "FIR" /\ FilterOrder' = n /\ xs' = Signal(n, pX)
        /\ \E X : Fits(X, n) /\ ArrayInputsX' = Filled(X, n, pX)
    BY <1>2 DEF newDataFilterFIR, Built, Undefined
  <2>2. HoldsNewest(ArrayInputsX', n, 0, xs')
    BY <2>1, FilledProperties
  <2> QED BY <1>2, <2>1, <2>2 DEF BuffersHoldNewest
<1>3. ASSUME NEW n \in Orders, NEW pX \in ArraysX, NEW pB \in ArraysB,
             NEW pY \in ArraysY, NEW pA \in ArraysA,
             newDataFilterIIR1(n, pX, pB, pY, pA), status' = "built"
      PROVE  BuffersHoldNewest'
  <2>1. /\ FilterOrder' = n /\ xs' = Signal(n, pX) /\ ys' = Signal(n, pY)
        /\ \E X : Fits(X, n) /\ ArrayInputsX' = Filled(X, n, pX)
        /\ \E Y : Fits(Y, n) /\ ArrayInputsY' = Filled(Y, n, pY)
    BY <1>3 DEF newDataFilterIIR1, Built, Undefined
  <2>2. HoldsNewest(ArrayInputsX', n, 0, xs')
    BY <2>1, FilledProperties
  <2>3. HoldsNewest(ArrayInputsY', n, 0, ys')
    BY <2>1, FilledProperties
  <2> QED BY <1>3, <2>1, <2>2, <2>3 DEF BuffersHoldNewest
<1>4. ASSUME NEW n \in Orders, NEW pX \in ArraysX, NEW pB \in ArraysB,
             NEW pA \in ArraysA, newDataFilterIIR2(n, pX, pB, pA),
             status' = "built"
      PROVE  BuffersHoldNewest'
  <2>1. /\ FilterOrder' = n /\ xs' = Signal(n, pX)
        /\ ys' = Signal(n, ArrayInputsY')
        /\ \E X : Fits(X, n) /\ ArrayInputsX' = Filled(X, n, pX)
        /\ \E X, A, Y : Fits(Y, n) /\ ArrayInputsY' = createArrayAux(n, X, A, Y)
    BY <1>4 DEF newDataFilterIIR2, Built, Undefined
  <2>2. HoldsNewest(ArrayInputsX', n, 0, xs')
    BY <2>1, FilledProperties
  <2>3. Fits(ArrayInputsY', n)
    BY <2>1 DEF createArrayAux, Fits
  <2>4. HoldsNewest(ArrayInputsY', n, 0, ys')
    BY <2>1, <2>3, FilledHolds
  <2> QED BY <1>4, <2>1, <2>2, <2>4 DEF BuffersHoldNewest
<1>5. CASE setInitialDataFilter
  BY <1>5 DEF setInitialDataFilter, dataVars, BuffersHoldNewest
<1>6. ASSUME NEW p \in Samples,
             FIR_directForm(p) \/ IIR_directFormI(p) \/ IIR_directFormII(p),
             status' # "undefined"
      PROVE  BuffersHoldNewest'
  <2> DEFINE pos == FilterOrder + Cursor
  <2>1. /\ status = "ready" /\ status' = "ready" /\ kind' = kind
        /\ FilterOrder' = FilterOrder /\ ContBuffer' = Cursor + 1
        /\ CallFits(ArrayInputsX) /\ xs' = Append(xs, p)
        /\ ArrayInputsX' = [Moved(ArrayInputsX) EXCEPT ![pos] = p]
    BY <1>6 DEF FIR_directForm, IIR_directFormI, IIR_directFormII, Undefined
  <2>2. kind # "FIR" =>
          /\ CallFits(ArrayInputsY)
          /\ \E r : /\ ys' = Append(ys, r)
                    /\ ArrayInputsY' = [Moved(ArrayInputsY) EXCEPT ![pos] = r]
    BY <1>6 DEF FIR_directForm, IIR_directFormI, IIR_directFormII, Undefined
  <2>3. /\ FilterOrder \in Nat /\ ContBuffer \in 0 .. BUFFER_SIZE
        /\ IsSequence(xs) /\ IsSequence(ys)
    BY <2>1 DEF TypeOK
  <2>4. ASSUME NEW array, NEW s, NEW e, IsSequence(s), CallFits(array),
               HoldsNewest(array, FilterOrder, ContBuffer, s)
        PROVE  HoldsNewest([Moved(array) EXCEPT ![pos] = e], FilterOrder,
                           Cursor + 1, Append(s, e))
    <3>1. /\ Cursor = IF ContBuffer = BUFFER_SIZE THEN 0 ELSE ContBuffer
          /\ Moved(array) = IF ContBuffer = BUFFER_SIZE
                            THEN moveArray(array, FilterOrder) ELSE array
      BY DEF Cursor, Moved
    <3>2. /\ ContBuffer = BUFFER_SIZE => Fits(array, FilterOrder + BUFFER_SIZE)
          /\ pos \in DOMAIN array
      BY <2>4 DEF CallFits
    <3> DEFINE m == Moved(array)
               w == [m EXCEPT ![pos] = e]
    <3>3. DOMAIN m = DOMAIN array
      BY DEF Moved, moveArray
    <3> HIDE DEF m, pos
    <3>4. /\ DOMAIN w = DOMAIN m /\ w[pos] = e
          /\ \A i \in DOMAIN m \ {pos} : w[i] = m[i]
      BY <3>2, <3>3
    <3> HIDE DEF w
    <3>5. HoldsNewest(w, FilterOrder, Cursor + 1, Append(s, e))
      BY <2>3, <2>4, <3>1, <3>2, <3>4, PushProperties DEF m, pos
    <3> QED BY <3>5 DEF m, w, pos
  <2>5. HoldsNewest(ArrayInputsX', FilterOrder', ContBuffer', xs')
    BY <2>1, <2>3, <2>4 DEF BuffersHoldNewest
  <2>6. ASSUME kind # "FIR"
        PROVE  HoldsNewest(ArrayInputsY', FilterOrder', ContBuffer', ys')
    <3>1. PICK r : /\ ys' = Append(ys, r)
                   /\ ArrayInputsY' = [Moved(ArrayInputsY) EXCEPT ![pos] = r]
      BY <2>2, <2>6
    <3>2. /\ CallFits(ArrayInputsY)
          /\ HoldsNewest(ArrayInputsY, FilterOrder, ContBuffer, ys)
      BY <2>1, <2>2, <2>6 DEF BuffersHoldNewest
    <3> HIDE DEF pos
    <3> QED BY <2>1, <2>3, <2>4, <3>1, <3>2
  <2> QED BY <2>1, <2>5, <2>6 DEF BuffersHoldNewest
<1>7. CASE UNCHANGED vars
  BY <1>7 DEF vars, dataVars, BuffersHoldNewest
<1>8. \A n, pX, pB, pY, pA :
        newDataFilterFIR(n, pX, pB) \/ newDataFilterIIR1(n, pX, pB, pY, pA)
          \/ newDataFilterIIR2(n, pX, pB, pA)
        => status' \in {"built", "undefined"}
  BY BuildOutcome DEF Undefined
<1> QED
  BY <1>1, <1>2, <1>3, <1>4, <1>5, <1>6, <1>7, <1>8
     DEF Next, newDataFilter, directForm

(* The sliding buffers hold the newest samples of the signals, whatever the *)
(* order, the buffer size and the number of samples: the inductive          *)
(* strengthening of everything the directForm functions compute.            *)
THEOREM BuffersCorrect == Spec => []BuffersHoldNewest
<1>1. Init => BuffersHoldNewest
  BY DEF Init, BuffersHoldNewest
<1> QED BY <1>1, TypeCorrect, BuffersStep, PTL DEF Spec

-----------------------------------------------------------------------------
(* Accesses out of bounds.                                                  *)

(* A buffer of N + BUFFER_SIZE elements is large enough for every call.     *)
LEMMA RoomForACall ==
  ASSUME TypeOK, status = "ready", NEW array,
         Fits(array, FilterOrder + BUFFER_SIZE)
  PROVE  CallFits(array)
<1>1. FilterOrder \in Nat /\ Cursor \in 0 .. BUFFER_SIZE - 1
  BY CursorType DEF TypeOK
<1>2. FilterOrder + Cursor \in 0 .. FilterOrder + BUFFER_SIZE - 1
  BY <1>1, DataFilterAssumption
<1>3. FilterOrder + Cursor \in DOMAIN array
  <2> DEFINE pos == FilterOrder + Cursor
  <2>1. pos \in 0 .. (FilterOrder + BUFFER_SIZE) - 1
    BY <1>1, <1>2, DataFilterAssumption
  <2> HIDE DEF pos
  <2>2. pos \in DOMAIN array
    BY <2>1 DEF Fits
  <2> QED BY <2>2 DEF pos
<1> QED BY <1>3 DEF CallFits

(* A filter that was built leaves its blocks only when one of them is       *)
(* smaller than N + BUFFER_SIZE floats, or when the heap was exhausted.     *)
THEOREM OutOfBoundsNeedsSmallBlock == Spec => []OutOfBoundsOnlyIfUndersized
<1>1. Init => OutOfBoundsOnlyIfUndersized
  BY DEF Init, OutOfBoundsOnlyIfUndersized
<1>2. TypeOK /\ OutOfBoundsOnlyIfUndersized /\ [Next]_vars
        => OutOfBoundsOnlyIfUndersized'
  <2> SUFFICES ASSUME TypeOK, OutOfBoundsOnlyIfUndersized, [Next]_vars,
                      status' = "undefined", kind' # "none"
               PROVE  \/ ~MathOperation'
                      \/ ~Fits(ArrayInputsX', FilterOrder' + BUFFER_SIZE)
                      \/ /\ kind' # "FIR"
                         /\ ~Fits(ArrayInputsY', FilterOrder' + BUFFER_SIZE)
    BY DEF OutOfBoundsOnlyIfUndersized
  <2>1. ASSUME NEW n, NEW pX, NEW pB, NEW pY, NEW pA,
               \/ newDataFilterFIR(n, pX, pB)
               \/ newDataFilterIIR1(n, pX, pB, pY, pA)
               \/ newDataFilterIIR2(n, pX, pB, pA)
        PROVE  FALSE
    BY <2>1, BuildOutcome DEF Undefined, dataVars, TypeOK
  <2>2. ~setInitialDataFilter
    BY DEF setInitialDataFilter
  <2>3. ASSUME NEW p \in Samples,
               FIR_directForm(p) \/ IIR_directFormI(p) \/ IIR_directFormII(p)
        PROVE  /\ status = "ready" /\ Undefined
               /\ \/ ~MathOperation
                  \/ ~CallFits(ArrayInputsX)
                  \/ kind # "FIR" /\ ~CallFits(ArrayInputsY)
    BY <2>3 DEF FIR_directForm, IIR_directFormI, IIR_directFormII
  <2>4. ASSUME status = "ready", Undefined,
               \/ ~MathOperation
               \/ ~CallFits(ArrayInputsX)
               \/ kind # "FIR" /\ ~CallFits(ArrayInputsY)
        PROVE  \/ ~MathOperation'
               \/ ~Fits(ArrayInputsX', FilterOrder' + BUFFER_SIZE)
               \/ /\ kind' # "FIR"
                  /\ ~Fits(ArrayInputsY', FilterOrder' + BUFFER_SIZE)
    BY <2>4, RoomForACall DEF Undefined, dataVars
  <2>5. CASE UNCHANGED vars
    BY <2>5 DEF vars, dataVars, OutOfBoundsOnlyIfUndersized
  <2> QED BY <2>1, <2>2, <2>3, <2>4, <2>5 DEF Next, newDataFilter, directForm
<1> QED BY <1>1, <1>2, TypeCorrect, PTL DEF Spec

-----------------------------------------------------------------------------
(* Refinement.                                                              *)

(* The accumulation is the same operator on both sides.                     *)
LEMMA AccumulateSame ==
  ASSUME NEW l, NEW u, NEW t
  PROVE  DE!Accumulate(l, u, t) = Accumulate(l, u, t)
  BY DEF DE!Accumulate, Accumulate

(* createArrayAux computes the auxiliary signal of the specification: the   *)
(* two recursions have the same body, once the positions that sum() visits  *)
(* are worked out.                                                          *)
LEMMA AuxSame ==
  ASSUME NEW n \in Nat, NEW x, NEW c
  PROVE  DE!AuxSignal(n, x, c) = AuxValues(n, x, c)
<1> DEFINE S(v) == [i \in 0 .. n - 1 |->
                      IF i = 0 THEN x[0]
                      ELSE FSub(x[i], DE!Accumulate(0, i - 1,
                             [k \in 0 .. i - 1 |-> FMul(c[k], v[i - 1 - k])]))]
           C(v) == [Cont \in 0 .. n - 1 |->
                      IF Cont = 0 THEN x[0]
                      ELSE FSub(x[Cont], sum(Cont - 1, 0, c, v, 0))]
<1>1. ASSUME NEW v PROVE S(v) = C(v)
  <2>1. ASSUME NEW i \in 0 .. n - 1, i # 0
        PROVE  DE!Accumulate(0, i - 1,
                             [k \in 0 .. i - 1 |-> FMul(c[k], v[i - 1 - k])])
                 = sum(i - 1, 0, c, v, 0)
    <3>1. \A k \in 0 .. i - 1 : i - 1 - k = (0 - (k - 0)) + (i - 1)
      OBVIOUS
    <3>2. [k \in 0 .. i - 1 |-> FMul(c[k], v[i - 1 - k])]
            = [k \in 0 .. i - 1 |-> FMul(c[k], v[(0 - (k - 0)) + (i - 1)])]
      BY <3>1
    <3> QED BY <3>2, AccumulateSame DEF sum
  <2> QED BY <2>1
<1>2. (CHOOSE v : v = S(v)) = (CHOOSE v : v = C(v))
  <2> HIDE DEF S, C
  <2> QED BY <1>1
<1> QED BY <1>2, Zenon DEF DE!AuxSignal, AuxValues

(* A filter that is not built yet is not described yet.                     *)
LEMMA RefineInit == Init => DE!Init
  BY DEF Init, DE!Init, orderBar, bBar, aBar

(* Each newDataFilter describes the filter its caller asked for.            *)
LEMMA RefineBuild ==
  ASSUME TypeOK, newDataFilter, status' = "built"
  PROVE  DE!Next
<1> USE FilterAssumption
<1>0. kind = "none"
  BY NewOutcome DEF TypeOK
<1>1. ASSUME NEW n \in Nat, NEW f PROVE DE!Signal(n, f) = Signal(n, f)
  BY DEF DE!Signal, Signal
<1>2. ASSUME NEW n \in Nat
      PROVE  /\ \A i \in 0 .. n : i \in 0 .. (n + 1) - 1
             /\ \A i \in 1 .. n : i - 1 \in 0 .. n - 1 /\ (i - 1) + 1 = i
  OBVIOUS
<1>4. ASSUME NEW n \in Orders, NEW pX \in ArraysX, NEW pB \in ArraysB,
             newDataFilterFIR(n, pX, pB)
      PROVE  DE!DescribeFIR
  <2>1. PICK B : /\ Fits(B, n + 1)
                 /\ kind' = "FIR" /\ FilterOrder' = n /\ out' = out
                 /\ ArrayCoefficientsB' = Filled(B, n + 1, pB)
                 /\ xs' = Signal(n, pX) /\ ys' = << >>
    BY <1>4 DEF newDataFilterFIR, Built, Undefined
  <2>2. orderBar' = n /\ bBar' = [i \in 0 .. n |-> pB[i]] /\ aBar' = << >>
    <3> DEFINE g == Filled(B, n + 1, pB)
    <3>1. orderBar' = n /\ aBar' = << >> /\ bBar' = [i \in 0 .. n |-> g[i]]
      BY <2>1 DEF orderBar, bBar, aBar
    <3>2. n \in Nat /\ n + 1 \in Nat /\ Fits(B, n + 1)
      BY <2>1
    <3>3. Copies(g, n + 1, pB)
      BY <3>2, FilledCopies
    <3> HIDE DEF g
    <3>4. [i \in 0 .. n |-> g[i]] = [i \in 0 .. n |-> pB[i]]
      BY <1>2, <3>2, <3>3 DEF Copies
    <3> QED BY <3>1, <3>4
  <2>3. DE!Describe("FIR", n, pX, pB, << >>, << >>)
    BY <1>0, <1>1, <2>1, <2>2 DEF DE!Describe
  <2> QED BY <2>3 DEF DE!DescribeFIR
<1>5. ASSUME NEW n \in Orders, NEW pX \in ArraysX, NEW pB \in ArraysB,
             NEW pY \in ArraysY, NEW pA \in ArraysA,
             newDataFilterIIR1(n, pX, pB, pY, pA)
      PROVE  DE!DescribeIIR1
  <2>1. PICK B, A : /\ Fits(B, n + 1) /\ Fits(A, n)
                    /\ kind' = "IIR_I" /\ FilterOrder' = n /\ out' = out
                    /\ ArrayCoefficientsB' = Filled(B, n + 1, pB)
                    /\ ArrayCoefficientsA' = setArrayCoefficientsA(A, n, pA)
                    /\ xs' = Signal(n, pX) /\ ys' = Signal(n, pY)
    BY <1>5 DEF newDataFilterIIR1, Built, Undefined
  <2>2. /\ orderBar' = n /\ bBar' = [i \in 0 .. n |-> pB[i]]
        /\ aBar' = [i \in 1 .. n |-> pA[i]]
    <3> DEFINE g == Filled(B, n + 1, pB)
               h == setArrayCoefficientsA(A, n, pA)
    <3>1. /\ orderBar' = n
          /\ bBar' = [i \in 0 .. n |-> g[i]]
          /\ aBar' = [i \in 1 .. n |-> h[i - 1]]
      BY <2>1 DEF orderBar, bBar, aBar
    <3>2. n \in Nat /\ n + 1 \in Nat /\ Fits(B, n + 1) /\ Fits(A, n)
      BY <2>1
    <3>3. Copies(g, n + 1, pB)
      BY <3>2, FilledCopies
    <3>4. CopiesRest(h, n, pA)
      BY <3>2, CoefficientsACopied
    <3> HIDE DEF g, h
    <3>5. [i \in 0 .. n |-> g[i]] = [i \in 0 .. n |-> pB[i]]
      BY <1>2, <3>2, <3>3 DEF Copies
    <3>6. [i \in 1 .. n |-> h[i - 1]] = [i \in 1 .. n |-> pA[i]]
      BY <1>2, <3>2, <3>4 DEF CopiesRest
    <3> QED BY <3>1, <3>5, <3>6
  <2>3. DE!Describe("IIR_I", n, pX, pB, DE!Signal(n, pY), [i \in 1 .. n |-> pA[i]])
    BY <1>0, <1>1, <2>1, <2>2 DEF DE!Describe
  <2> QED BY <2>3 DEF DE!DescribeIIR1
<1>6. ASSUME NEW n \in Orders, NEW pX \in ArraysX, NEW pB \in ArraysB,
             NEW pA \in ArraysA, newDataFilterIIR2(n, pX, pB, pA)
      PROVE  DE!DescribeIIR2
  <2> DEFINE x == [i \in 0 .. n - 1 |-> pX[i]]
             c == [i \in 0 .. n - 1 |-> pA[i + 1]]
  <2>1. PICK B, X, A, Y :
          /\ Fits(B, n + 1) /\ Fits(A, n) /\ Fits(X, n) /\ Fits(Y, n)
          /\ kind' = "IIR_II" /\ FilterOrder' = n /\ out' = out
          /\ ArrayCoefficientsB' = Filled(B, n + 1, pB)
          /\ ArrayCoefficientsA' = setArrayCoefficientsA(A, n, pA)
          /\ xs' = Signal(n, pX)
          /\ ys' = Signal(n, createArrayAux(n, Filled(X, n, pX),
                                            setArrayCoefficientsA(A, n, pA), Y))
    BY <1>6 DEF newDataFilterIIR2, Built, Undefined
  <2>2. /\ orderBar' = n /\ bBar' = [i \in 0 .. n |-> pB[i]]
        /\ aBar' = [i \in 1 .. n |-> pA[i]]
    <3> DEFINE g == Filled(B, n + 1, pB)
               h == setArrayCoefficientsA(A, n, pA)
    <3>1. /\ orderBar' = n
          /\ bBar' = [i \in 0 .. n |-> g[i]]
          /\ aBar' = [i \in 1 .. n |-> h[i - 1]]
      BY <2>1 DEF orderBar, bBar, aBar
    <3> HIDE DEF x, c
    <3>2. n \in Nat /\ n + 1 \in Nat /\ Fits(B, n + 1) /\ Fits(A, n)
      BY <2>1
    <3>3. Copies(g, n + 1, pB)
      BY <3>2, FilledCopies
    <3>4. CopiesRest(h, n, pA)
      BY <3>2, CoefficientsACopied
    <3> HIDE DEF g, h
    <3>5. [i \in 0 .. n |-> g[i]] = [i \in 0 .. n |-> pB[i]]
      BY <1>2, <3>2, <3>3 DEF Copies
    <3>6. [i \in 1 .. n |-> h[i - 1]] = [i \in 1 .. n |-> pA[i]]
      BY <1>2, <3>2, <3>4 DEF CopiesRest
    <3> QED BY <3>1, <3>5, <3>6
  <2>3. ys' = DE!Signal(n, DE!AuxSignal(n, x, c))
    <3> DEFINE X1 == Filled(X, n, pX)
               A1 == setArrayCoefficientsA(A, n, pA)
               v == AuxValues(n, x, c)
    <3>1. /\ [i \in 0 .. n - 1 |-> X1[i]] = x
          /\ [i \in 0 .. n - 1 |-> A1[i]] = c
      <4>1. n \in Nat /\ Fits(X, n) /\ Fits(A, n)
        BY <2>1
      <4>2. Copies(X1, n, pX)
        BY <4>1, FilledCopies
      <4>3. CopiesRest(A1, n, pA)
        BY <4>1, CoefficientsACopied
      <4> HIDE DEF X1, A1
      <4> QED BY <4>2, <4>3 DEF Copies, CopiesRest
    <3>2. \A i \in 0 .. n - 1 : createArrayAux(n, X1, A1, Y)[i] = v[i]
      <4> HIDE DEF X1, A1, x, c
      <4>1. \A i \in 0 .. n - 1 : i \in DOMAIN Y /\ i < n
        BY <2>1 DEF Fits
      <4>2. \A i \in 0 .. n - 1 :
              createArrayAux(n, X1, A1, Y)[i]
                = AuxValues(n, [j \in 0 .. n - 1 |-> X1[j]],
                               [j \in 0 .. n - 1 |-> A1[j]])[i]
        BY <4>1 DEF createArrayAux
      <4> QED BY <3>1, <4>2
    <3> DEFINE Y1 == createArrayAux(n, X1, A1, Y)
    <3>3. Signal(n, Y1) = Signal(n, v)
      <4>1. \A i \in 1 .. n : i - 1 \in 0 .. n - 1
        OBVIOUS
      <4>2. \A i \in 1 .. n : Y1[i - 1] = v[i - 1]
        BY <3>2, <4>1
      <4> HIDE DEF Y1, v
      <4> QED BY <4>2 DEF Signal
    <3>4. n \in Nat /\ v = DE!AuxSignal(n, x, c)
      BY AuxSame
    <3> QED BY <1>1, <2>1, <3>3, <3>4
  <2>4. DE!Describe("IIR_II", n, pX, pB, DE!Signal(n, DE!AuxSignal(n, x, c)),
                    [i \in 1 .. n |-> pA[i]])
    <3> HIDE DEF x, c
    <3> QED BY <1>0, <1>1, <2>1, <2>2, <2>3 DEF DE!Describe
  <2> QED BY <2>4 DEF DE!DescribeIIR2
<1> QED BY <1>4, <1>5, <1>6 DEF newDataFilter, DE!Next

(* Each directForm takes the step of its difference equation.               *)
LEMMA RefineSample ==
  ASSUME TypeOK, BuffersHoldNewest, NEW p \in Samples, status' # "undefined",
         FIR_directForm(p) \/ IIR_directFormI(p) \/ IIR_directFormII(p)
  PROVE  DE!Next
<1> DEFINE n == FilterOrder
           pos == FilterOrder + Cursor
           X == [Moved(ArrayInputsX) EXCEPT ![pos] = p]
<1>1. /\ status = "ready" /\ CallFits(ArrayInputsX)
      /\ kind # "FIR" => CallFits(ArrayInputsY)
      /\ kind' = kind /\ FilterOrder' = FilterOrder
      /\ ArrayCoefficientsB' = ArrayCoefficientsB
      /\ ArrayCoefficientsA' = ArrayCoefficientsA
      /\ xs' = Append(xs, p)
  BY DEF FIR_directForm, IIR_directFormI, IIR_directFormII, Undefined
<1>2. /\ n \in Nat /\ Cursor \in Nat /\ ContBuffer \in 0 .. BUFFER_SIZE
      /\ IsSequence(xs) /\ IsSequence(ys) /\ kind # "none"
      /\ HoldsNewest(ArrayInputsX, n, ContBuffer, xs)
      /\ kind # "FIR" => HoldsNewest(ArrayInputsY, n, ContBuffer, ys)
  BY <1>1, CursorType DEF TypeOK, BuffersHoldNewest
<1>3. orderBar' = orderBar /\ bBar' = bBar /\ aBar' = aBar
  BY <1>1 DEF orderBar, bBar, aBar
<1>4. /\ orderBar = n /\ bBar = [i \in 0 .. n |-> ArrayCoefficientsB[i]]
      /\ kind # "FIR" => aBar = [i \in 1 .. n |-> ArrayCoefficientsA[i - 1]]
  BY <1>2 DEF orderBar, bBar, aBar
<1>5. ASSUME NEW array, NEW s, NEW e, IsSequence(s), CallFits(array),
             HoldsNewest(array, n, ContBuffer, s)
      PROVE  /\ sum(n, 0, ArrayCoefficientsB,
                     [Moved(array) EXCEPT ![pos] = e], Cursor)
                  = DE!FeedForward(Append(s, e))
             /\ kind # "FIR" =>
                  sum(n - 1, 0, ArrayCoefficientsA, Moved(array), Cursor)
                    = DE!FeedBack(s)
  <2> DEFINE t == Append(s, e)
             m == Moved(array)
             w == [m EXCEPT ![n + Cursor] = e]
  <2>1. /\ Cursor = IF ContBuffer = BUFFER_SIZE THEN 0 ELSE ContBuffer
        /\ m = IF ContBuffer = BUFFER_SIZE THEN moveArray(array, n) ELSE array
    BY DEF Cursor, Moved
  <2>2. /\ ContBuffer = BUFFER_SIZE => Fits(array, n + BUFFER_SIZE)
        /\ n + Cursor \in DOMAIN array
    BY <1>5 DEF CallFits
  <2>3. /\ \A k \in 1 .. n : m[n + Cursor - k] = s[Len(s) + 1 - k]
        /\ \A k \in 0 .. n : w[n + Cursor - k] = t[Len(s) + 1 - k]
    <3>1. /\ n \in Nat /\ ContBuffer \in 0 .. BUFFER_SIZE /\ IsSequence(s)
          /\ HoldsNewest(array, n, ContBuffer, s)
      BY <1>2, <1>5
    <3>2. DOMAIN m = DOMAIN array
      BY DEF Moved, moveArray
    <3> HIDE DEF m, n
    <3>3. /\ DOMAIN w = DOMAIN m /\ w[n + Cursor] = e
          /\ \A i \in DOMAIN m \ {n + Cursor} : w[i] = m[i]
      BY <2>2, <3>2
    <3> HIDE DEF w
    <3>4. Reads(n, Cursor, m, w, s, e)
      BY <2>1, <2>2, <3>1, <3>3, PushProperties
    <3> QED BY <3>4 DEF Reads
  <2>4. Len(s) \in Nat /\ Len(t) = Len(s) + 1
    BY <1>5, AppendProperties
  <2> HIDE DEF t, w, m, n
  <2>5. sum(n, 0, ArrayCoefficientsB, w, Cursor) = DE!FeedForward(t)
    <3>1. ASSUME NEW k \in 0 .. n
          PROVE  /\ w[(Cursor - (k - 0)) + n] = t[Len(t) - k]
                 /\ bBar[k] = ArrayCoefficientsB[k]
      <4>1. (Cursor - (k - 0)) + n = n + Cursor - k /\ Len(t) - k = Len(s) + 1 - k
        BY <1>2, <2>4
      <4> QED BY <1>4, <2>3, <4>1
    <3>2. [k \in 0 .. n |-> FMul(ArrayCoefficientsB[k], w[(Cursor - (k - 0)) + n])]
            = [k \in 0 .. n |-> FMul(bBar[k], t[Len(t) - k])]
      BY <3>1
    <3> QED BY <1>4, <3>2, AccumulateSame DEF sum, DE!FeedForward
  <2>6. ASSUME kind # "FIR"
        PROVE  sum(n - 1, 0, ArrayCoefficientsA, m, Cursor) = DE!FeedBack(s)
    <3>1. ASSUME NEW k \in 0 .. n - 1
          PROVE  /\ m[(Cursor - (k - 0)) + (n - 1)] = s[Len(s) - k]
                 /\ aBar[k + 1] = ArrayCoefficientsA[k]
      <4>1. /\ k + 1 \in 1 .. n /\ (k + 1) - 1 = k
            /\ (Cursor - (k - 0)) + (n - 1) = n + Cursor - (k + 1)
            /\ Len(s) - k = Len(s) + 1 - (k + 1)
        BY <1>2, <2>4
      <4> QED BY <1>4, <2>3, <2>6, <4>1
    <3>2. [k \in 0 .. n - 1 |->
             FMul(ArrayCoefficientsA[k], m[(Cursor - (k - 0)) + (n - 1)])]
            = [k \in 0 .. n - 1 |-> FMul(aBar[k + 1], s[Len(s) - k])]
      BY <3>1
    <3> QED BY <1>4, <3>2, AccumulateSame DEF sum, DE!FeedBack
  <2> QED BY <2>5, <2>6 DEF t, w, m, n
<1>6. sum(n, 0, ArrayCoefficientsB, X, Cursor) = DE!FeedForward(xs')
  BY <1>1, <1>2, <1>5
<1>7. CASE FIR_directForm(p)
  <2>1. /\ kind = "FIR" /\ ys' = ys
        /\ out' = sum(n, 0, ArrayCoefficientsB, X, Cursor)
    BY <1>7 DEF FIR_directForm, Undefined
  <2>2. DE!SampleFIR(p)
    BY <1>1, <1>3, <1>6, <2>1 DEF DE!SampleFIR
  <2> QED BY <2>2 DEF DE!Next
<1>8. CASE IIR_directFormI(p)
  <2>1. /\ kind = "IIR_I" /\ ys' = Append(ys, out')
        /\ out' = FSub(sum(n, 0, ArrayCoefficientsB, X, Cursor),
                       sum(n - 1, 0, ArrayCoefficientsA, Moved(ArrayInputsY), Cursor))
    BY <1>8 DEF IIR_directFormI, Undefined
  <2>2. sum(n - 1, 0, ArrayCoefficientsA, Moved(ArrayInputsY), Cursor)
          = DE!FeedBack(ys)
    BY <1>1, <1>2, <1>5, <2>1
  <2>3. DE!SampleIIR1(p)
    BY <1>1, <1>3, <1>6, <2>1, <2>2 DEF DE!SampleIIR1
  <2> QED BY <2>3 DEF DE!Next
<1>9. CASE IIR_directFormII(p)
  <2> DEFINE v == FSub(p, sum(n - 1, 0, ArrayCoefficientsA,
                              Moved(ArrayInputsY), Cursor))
  <2>1. /\ kind = "IIR_II" /\ ys' = Append(ys, v)
        /\ out' = sum(n, 0, ArrayCoefficientsB,
                      [Moved(ArrayInputsY) EXCEPT ![pos] = v], Cursor)
    BY <1>9 DEF IIR_directFormII, Undefined
  <2>2. v = FSub(p, DE!FeedBack(ys))
    BY <1>1, <1>2, <1>5, <2>1
  <2> HIDE DEF v
  <2>3. out' = DE!FeedForward(ys')
    BY <1>1, <1>2, <1>5, <2>1
  <2>4. DE!SampleIIR2(p)
    BY <1>1, <1>3, <2>1, <2>2, <2>3 DEF DE!SampleIIR2
  <2> QED BY <2>4 DEF DE!Next
<1> QED BY <1>7, <1>8, <1>9

(* The library computes its difference equations: for every order, buffer   *)
(* size, coefficient array, initial conditions and sample sequence, and for *)
(* any arithmetic, what the sliding buffers produce is what the complete    *)
(* signals give.                                                            *)
THEOREM FilterImplements == Spec => ImplementsDifferenceEquation
<1>1. TypeOK /\ BuffersHoldNewest /\ [Next]_vars => [DE!Next]_(DE!vars)
  <2> SUFFICES ASSUME TypeOK, BuffersHoldNewest, [Next]_vars
               PROVE  DE!Next \/ UNCHANGED DE!vars
    OBVIOUS
  <2>1. CASE UNCHANGED <<dataVars, xs, ys, out>>
    BY <2>1 DEF dataVars, DE!vars, orderBar, bBar, aBar
  <2>2. CASE newDataFilter
    <3>1. status' = "built" \/ Undefined
      BY <2>2, NewOutcome
    <3> QED BY <2>1, <2>2, <3>1, RefineBuild DEF Undefined
  <2>3. CASE setInitialDataFilter
    BY <2>1, <2>3 DEF setInitialDataFilter
  <2>4. CASE directForm
    <3>1. PICK p \in Samples :
            FIR_directForm(p) \/ IIR_directFormI(p) \/ IIR_directFormII(p)
      BY <2>4 DEF directForm
    <3>2. CASE status' = "undefined"
      BY <2>1, <3>1, <3>2
         DEF FIR_directForm, IIR_directFormI, IIR_directFormII, Undefined
    <3> QED BY <3>1, <3>2, RefineSample
  <2>5. CASE UNCHANGED vars
    BY <2>1, <2>5 DEF vars
  <2> QED BY <2>2, <2>3, <2>4, <2>5 DEF Next
<1> QED
  BY <1>1, RefineInit, TypeCorrect, BuffersCorrect, PTL
     DEF Spec, ImplementsDifferenceEquation, DE!Spec
=============================================================================

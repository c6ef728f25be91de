------------------------------ MODULE DataFilter ------------------------------
(***************************************************************************)
(* The class DataFilter: the arrays a filter works on and the heap blocks  *)
(* that hold them.                                                         *)
(*                                                                         *)
(* A block is a function from 0 .. n-1, n the number of floats it really   *)
(* has room for.  A NULL pointer is the block without elements: like an    *)
(* index past the end, no element of it may be accessed.                   *)
(***************************************************************************)
EXTENDS FuntionsMath

CONSTANTS BUFFER_SIZE,    \* slots after the initial conditions (10 in the code)
          SIZEOF_FLOAT,   \* 4
          MEM_ALIGN_SIZE, \* 8, the alignment of a heap block
          SIZE_MODULUS,   \* 2^32: size_t arithmetic wraps
          HeapBytes,      \* the largest block the heap can provide
          HeapMayFail,    \* whether any allocation may find the heap exhausted
          StaleFloats     \* what an element of a fresh block may hold

ASSUME DataFilterAssumption ==
  /\ BUFFER_SIZE \in Nat \ {0}
  /\ SIZEOF_FLOAT \in Nat \ {0}
  /\ MEM_ALIGN_SIZE \in Nat \ {0}
  /\ SIZE_MODULUS \in Nat \ {0}
  /\ HeapBytes \in Nat
  /\ HeapMayFail \in BOOLEAN
  /\ StaleFloats # {}

NULL == << >>

(* The macro of chmemcore.h: rounds up to the alignment, modulo 2^32.       *)
MEM_ALIGN_NEXT(p) ==
  LET q == (p + (MEM_ALIGN_SIZE - 1)) % SIZE_MODULUS
  IN  q - (q % MEM_ALIGN_SIZE)

(* sizeof(float) * n, with n an int that is converted to size_t.            *)
Bytes(n) == (SIZEOF_FLOAT * n) % SIZE_MODULUS

(* The floats that fit in the block handed out for Bytes(n), 0 for none.    *)
Granted(n) ==
  IF MEM_ALIGN_NEXT(Bytes(n)) <= HeapBytes
  THEN MEM_ALIGN_NEXT(Bytes(n)) \div SIZEOF_FLOAT
  ELSE 0

(* The possible results of chHeapAlloc(NULL, sizeof(float) * n).            *)
chHeapAlloc(n) ==
  [0 .. Granted(n) - 1 -> StaleFloats]
    \cup (IF HeapMayFail THEN {NULL} ELSE {})

(* ... and of chHeapAlloc(NULL, sizeof(FuntionsMath)): is it not NULL?      *)
chHeapAllocMath == IF HeapMayFail THEN BOOLEAN ELSE {TRUE}

(* The elements 0 .. n-1 of a block may be accessed.                        *)
Fits(block, n) == 0 .. n - 1 \subseteq DOMAIN block

(* The loop of setArrayInitialConditionsX/Y and setArrayCoefficientsB.      *)
Filled(block, n, source) ==
  [i \in DOMAIN block |-> IF i < n THEN source[i] ELSE block[i]]

(* Variant of setArrayCoefficientsA that starts with a[0].                  *)
setArrayCoefficientsA_FromZero(block, n, source) ==
  [i \in DOMAIN block |-> IF i < n THEN source[i] ELSE block[i]]

(* setArrayCoefficientsA: a[0] of the caller is skipped.                    *)
setArrayCoefficientsA(block, n, source) ==
  [i \in DOMAIN block |-> IF i < n THEN source[i + 1] ELSE block[i]]

(* Variant of AuxValues that looks one coefficient too far.                 *)
AuxValues_Late(n, X, A) ==
  LET v[Cont \in 0 .. n - 1] ==
        IF Cont = 0 THEN X[0]
        ELSE FSub(X[Cont], FMul(A[Cont], v[Cont - 1]))
  IN  v

(* The first n elements of v that createArrayAux computes.                  *)
AuxValues(n, X, A) ==
  LET v[Cont \in 0 .. n - 1] ==
        IF Cont = 0 THEN X[0]
        ELSE FSub(X[Cont], sum(Cont - 1, 0, A, v, 0))
  IN  v

(* createArrayAux.  Y[0] is written whatever the order is.                  *)
createArrayAux(n, X, A, Y) ==
  LET v == AuxValues(n, [i \in 0 .. n - 1 |-> X[i]], [i \in 0 .. n - 1 |-> A[i]])
  IN  [i \in DOMAIN Y |-> IF i < n THEN v[i] ELSE IF i = 0 THEN X[0] ELSE Y[i]]

(* Variant of moveArray that is off by one.                                 *)
moveArray_Early(pArray, n) ==
  [i \in DOMAIN pArray |->
     IF i < n THEN pArray[i + BUFFER_SIZE - 1] ELSE pArray[i]]

(* moveArray: the newest n elements go to the front.  The loop runs upwards *)
(* and reads above what it has written, so it copies the old values.        *)
moveArray(pArray, n) ==
  [i \in DOMAIN pArray |-> IF i < n THEN pArray[i + BUFFER_SIZE] ELSE pArray[i]]
=============================================================================

---------------------------- MODULE ChHeapProofs ----------------------------
(* Theorems about ChHeap, for every number of threads, size of the memory   *)
(* and set of requests that fit into size_t.                                *)
EXTENDS ChHeapCallProofs, ChHeapAllocProofs, ChHeapFreeProofs

-----------------------------------------------------------------------------
(* Every step of every thread, in either call, keeps the invariant.         *)
LEMMA StepKeeps ==
  ASSUME RequestsFit, HeapInv, [Next]_vars
  PROVE  HeapInv'
<1>1. CASE UNCHANGED vars
  <2>1. UNCHANGED <<nextmem, next, hsize, mtx, pc, size, qp, hp, req, list, used, asked>>
    BY <1>1 DEF vars, heapVars, callVars
  <2>2. TypeOK' /\ CallsGood' /\ BlocksApart'
    BY <2>1 DEF HeapInv, TypeOK, CallsGood, BlocksApart
  <2>3. Blocks' = Blocks
    BY <2>1 DEF Blocks, Freeing
  <2> QED BY <2>1, <2>2, <2>3 DEF HeapInv
<1>2. CASE Next
  <2>1. PICK t \in Threads :
          \/ \E n \in Requests : AllocCall(t, n)
          \/ \E b \in used : FreeCall(t, b)
          \/ H_LOCK(t)
          \/ Step(t)
    BY <1>2 DEF Next
  <2>2. CASE \E n \in Requests : AllocCall(t, n)
    BY <2>2, AllocCallKeeps
  <2>3. CASE \E b \in used : FreeCall(t, b)
    BY <2>3, FreeCallKeeps
  <2>4. CASE H_LOCK(t)
    BY <2>4, H_LOCKKeeps
  <2>5. CASE Step(t)
    BY <2>5, AllocTakeKeeps, AllocSkipKeeps, AllocEndKeeps, AllocCoreKeeps,
       FreeSkipKeeps, FreeInsertKeeps DEF Step
  <2> QED BY <2>1, <2>2, <2>3, <2>4, <2>5
<1> QED BY <1>1, <1>2

(* The inductive invariant holds in every reachable state of chHeapAlloc,   *)
(* chHeapFree and chCoreAllocI, whatever the threads interleave.            *)
THEOREM HeapInvariant ==
  ASSUME RequestsFit
  PROVE  Spec => []HeapInv
<1>1. Init => HeapInv
  BY InitGood
<1>2. HeapInv /\ [Next]_vars => HeapInv'
  BY StepKeeps
<1> QED BY <1>1, <1>2, PTL DEF Spec

(* Types, and the mutex is held by exactly the thread that walks the list.  *)
THEOREM HeapTypes ==
  ASSUME RequestsFit
  PROVE  Spec => []TypeOK
<1>1. HeapInv => TypeOK
  BY DEF HeapInv
<1> QED BY <1>1, HeapInvariant, PTL

(* chHeapAlloc's splits and chHeapFree's merges lose no byte and never make *)
(* two blocks overlap.                                                      *)
THEOREM HeapTiles ==
  ASSUME RequestsFit
  PROVE  Spec => []BlocksTile
<1>1. HeapInv => BlocksTile
  <2>1. \A a : LIMIT(a) = End(hsize, a)
    BY DEF LIMIT, End
  <2> QED BY <2>1 DEF HeapInv, Tiled, BlocksTile
<1> QED BY <1>1, HeapInvariant, PTL

(* The free list is sorted by address and complete after every call.        *)
THEOREM HeapListSorted ==
  ASSUME RequestsFit
  PROVE  Spec => []ListSorted
<1>1. HeapInv => ListSorted
  BY DEF HeapInv, Sorted, ListSorted
<1> QED BY <1>1, HeapInvariant, PTL

(* chHeapFree merges with both neighbours, so that no two free blocks touch.*)
THEOREM HeapCoalesced ==
  ASSUME RequestsFit
  PROVE  Spec => []Coalesced
<1>1. HeapInv => Coalesced
  BY DEF HeapInv, Apart, Coalesced, LIMIT, End
<1> QED BY <1>1, HeapInvariant, PTL

(* A caller of chHeapAlloc gets at least the bytes it asked for.            *)
THEOREM HeapEnoughRoom ==
  ASSUME RequestsFit
  PROVE  Spec => []EnoughRoom
<1>1. HeapInv => EnoughRoom
  BY DEF HeapInv, EnoughRoom
<1> QED BY <1>1, HeapInvariant, PTL

(* The assertion "within free block" of chHeapFree never fails, and its     *)
(* search finds a place before the list ends.                               *)
THEOREM HeapFreeFindsItsPlace ==
  ASSUME RequestsFit
  PROVE  Spec => []FreeFindsItsPlace
<1>1. HeapInv => FreeFindsItsPlace
  <2> SUFFICES ASSUME HeapInv, NEW t \in Threads, pc[t] = "free_walk"
               PROVE  /\ OutsideFreeBlock(hp[t], qp[t])
                      /\ next[qp[t]] = NULL => InsertsBehind(hp[t], qp[t])
    BY DEF FreeFindsItsPlace
  <2>1. qp[t] \in list \cup {HEAD} /\ qp[t] < hp[t] /\ hp[t] \in Addr /\ hp[t] \in Blocks
    BY DEF HeapInv, CallsGood, BlocksApart, freeLabels, Blocks, Freeing
  <2>2. LIMIT(qp[t]) <= hp[t]
    <3>1. CASE qp[t] = HEAD
      BY <2>1, <3>1, HeadBelow, HeapAssumption DEF HeapInv, LIMIT
    <3>2. CASE qp[t] \in list
      <4>1. qp[t] \in Blocks
        BY <3>2 DEF Blocks
      <4> QED BY <4>1, <2>1 DEF HeapInv, Tiled, LIMIT, End
    <3> QED BY <2>1, <3>1, <3>2
  <2> QED BY <2>1, <2>2, HeadBelow DEF OutsideFreeBlock, InsertsBehind
<1> QED BY <1>1, HeapInvariant, PTL

-----------------------------------------------------------------------------
(* What HeldBlocksUntouched says of one step.                               *)
HeadersKept ==
  \A b \in used \cap used' :
    /\ hsize'[b] = hsize[b] /\ next'[b] = next[b] /\ asked'[b] = asked[b]

(* The blocks a step writes to are free, on their way back, or new.         *)
LEMMA StepKeepsHeaders ==
  ASSUME HeapInv, NEW t \in Threads, Step(t)
  PROVE  HeadersKept
<1>1. \A c \in used : c \in Addr /\ c # HEAD /\ c \notin list /\ c \in Blocks
  BY HeadBelow DEF HeapInv, TypeOK, BlocksApart, Blocks
<1>2. hsize \in Sizes /\ next \in Links /\ asked \in [Addr -> Nat] /\ Tiled(Blocks, hsize, nextmem)
  BY DEF HeapInv, TypeOK, Sizes, Links
<1>3. CASE AllocTake(t)
  <2> DEFINE q == qp[t]
             b == next[q]
             fp == b + HEADER + size[t]
  <2>1. q \in list \cup {HEAD} /\ b # NULL /\ size[t] \in Nat /\ hsize[b] >= size[t]
        /\ (size[t] + HEADER) % SIZE_MODULUS = size[t] + HEADER
        /\ asked' = [asked EXCEPT ![b] = req[t]]
    BY <1>3 DEF AllocTake, Return, HeapInv, TypeOK, CallsGood, allocLabels, Fits
  <2>2. b \in list /\ b \in Addr /\ b \in Blocks /\ b \in Nat
    BY <2>1, WalkSees, HeadBelow
  <2>3. \A c \in used : c # q /\ c # b /\ asked'[c] = asked[c]
    BY <1>1, <1>2, <2>1, <2>2
  <2>4. CASE /\ next' = [next EXCEPT ![q] = next[b], ![b] = HEAD]
             /\ UNCHANGED hsize
    BY <1>1, <1>2, <2>3, <2>4 DEF HeadersKept, Links
  <2>5. CASE /\ ~(hsize[b] < size[t] + HEADER)
             /\ next' = [next EXCEPT ![q] = fp, ![fp] = next[b], ![b] = HEAD]
             /\ hsize' = [hsize EXCEPT ![fp] = Rest(b, size[t]), ![b] = size[t]]
    <3>1. hsize[b] >= size[t] + HEADER
      BY <1>2, <2>1, <2>2, <2>5, HeapAssumption DEF Sizes
    <3>2. fp \notin Blocks
      BY <1>2, <2>1, <2>2, <3>1, SplitPoint
    <3>3. \A c \in used : c # fp
      BY <1>1, <3>2
    <3> HIDE DEF q, b, fp
    <3> QED BY <1>1, <1>2, <2>3, <2>5, <3>3 DEF HeadersKept, Links, Sizes
  <2> QED BY <1>3, <2>1, <2>4, <2>5 DEF AllocTake
<1>4. CASE AllocCore(t)
  <2>1. \A c \in used : End(hsize, c) <= nextmem /\ c \in Nat /\ hsize[c] \in Nat
    BY <1>1, <1>2, HeadBelow DEF Tiled, Sizes
  <2>2. \A c \in used : c # nextmem
    BY <2>1, HeapAssumption DEF End
  <2> QED BY <1>1, <1>2, <1>4, <2>2 DEF AllocCore, Return, heapVars, HeadersKept, Links, Sizes
<1>5. CASE FreeInsert(t)
  <2> DEFINE h == hp[t]
             q == qp[t]
  <2>1. h \notin used /\ q \in list \cup {HEAD}
    BY <1>5 DEF FreeInsert, HeapInv, CallsGood, BlocksApart, freeLabels
  <2>2. \A c \in used : c # h /\ c # q
    BY <1>1, <2>1
  <2>3. \A c \in used : next'[c] = next[c] /\ hsize'[c] = hsize[c] /\ asked' = asked
    BY <1>1, <1>2, <1>5, <2>2 DEF FreeInsert, Links, Sizes
  <2> QED BY <2>3 DEF HeadersKept
<1>6. CASE AllocSkip(t) \/ AllocEnd(t) \/ FreeSkip(t)
  BY <1>6 DEF AllocSkip, AllocEnd, FreeSkip, heapVars, HeadersKept
<1> QED BY <1>3, <1>4, <1>5, <1>6 DEF Step

(* No call of any thread changes the size, the heap or the request recorded *)
(* for a block that a caller of chHeapAlloc still holds.                    *)
THEOREM HeapHeldUntouched ==
  ASSUME RequestsFit
  PROVE  Spec => HeldBlocksUntouched
<1>1. HeapInv /\ [Next]_vars => [HeadersKept]_vars
  <2> SUFFICES ASSUME HeapInv, Next PROVE HeadersKept
    OBVIOUS
  <2>1. PICK t \in Threads :
          \/ \E n \in Requests : AllocCall(t, n)
          \/ \E b \in used : FreeCall(t, b)
          \/ H_LOCK(t)
          \/ Step(t)
    BY DEF Next
  <2>2. CASE ~Step(t)
    BY <2>1, <2>2 DEF AllocCall, FreeCall, H_LOCK, heapVars, HeadersKept
  <2> QED BY <2>2, StepKeepsHeaders
<1>2. [HeadersKept]_vars
        => [\A b \in used \cap used' :
              /\ hsize'[b] = hsize[b] /\ next'[b] = next[b]
              /\ asked'[b] = asked[b]]_vars
  BY DEF HeadersKept
<1> QED BY <1>1, <1>2, HeapInvariant, PTL DEF Spec, HeldBlocksUntouched
-----------------------------------------------------------------------------
(* What a walk of chHeapAlloc has behind it is too small.                   *)
Passed ==
  \A t \in Threads : pc[t] = "alloc_walk" =>
    \A b \in list : b <= qp[t] => hsize[b] < size[t]

(* Only the owner of the mutex changes the list, and a new block of the     *)
(* core is not on it.                                                       *)
LEMMA StepKeepsPassed ==
  ASSUME HeapInv, Passed, [Next]_vars
  PROVE  Passed'
<1> SUFFICES ASSUME NEW u \in Threads, pc'[u] = "alloc_walk",
                    NEW c \in list', c <= qp'[u]
             PROVE  hsize'[c] < size'[u]
  BY DEF Passed
<1>1. /\ pc \in [Threads -> Labels] /\ size \in [Threads -> Nat]
      /\ qp \in [Threads -> Addr \cup {HEAD}]
      /\ \A t \in Threads : mtx = t <=> pc[t] \in {"alloc_walk", "free_walk"}
  BY DEF HeapInv, TypeOK
<1>2. CASE UNCHANGED vars
  BY <1>2 DEF vars, heapVars, callVars, Passed
<1>3. ASSUME NEW t \in Threads, NEW n \in Requests, AllocCall(t, n)
      PROVE  hsize'[c] < size'[u]
  <2>1. u # t /\ pc[u] = "alloc_walk"
    BY <1>1, <1>3 DEF AllocCall, Goto
  <2> QED BY <1>1, <1>3, <2>1 DEF AllocCall, heapVars, Passed
<1>4. ASSUME NEW t \in Threads, NEW b \in used, FreeCall(t, b)
      PROVE  hsize'[c] < size'[u]
  <2>1. u # t /\ pc[u] = "alloc_walk"
    BY <1>1, <1>4 DEF FreeCall, Goto
  <2> QED BY <1>1, <1>4, <2>1 DEF FreeCall, heapVars, Passed
<1>5. ASSUME NEW t \in Threads, H_LOCK(t)
      PROVE  hsize'[c] < size'[u]
  <2>1. UNCHANGED <<list, hsize, size, qp>>
    BY <1>5 DEF H_LOCK, heapVars, callVars
  <2>2. CASE u = t
    <3>1. qp[u] = HEAD
      BY <1>1, <1>5, <2>2 DEF H_LOCK, Goto, HeapInv, CallsGood
    <3>2. c \in Addr
      BY <2>1 DEF HeapInv, TypeOK
    <3> QED BY <2>1, <3>1, <3>2, HeadBelow
  <2>3. CASE u # t
    <3>1. pc[u] = "alloc_walk"
      BY <1>1, <1>5, <2>3 DEF H_LOCK, Goto
    <3> QED BY <2>1, <3>1 DEF Passed
  <2> QED BY <2>2, <2>3
<1>6. ASSUME NEW t \in Threads, AllocTake(t) \/ FreeInsert(t)
      PROVE  FALSE
  <2>1. mtx = t /\ pc' = [pc EXCEPT ![t] = "idle"]
    BY <1>1, <1>6 DEF AllocTake, FreeInsert, Return, Goto
  <2> QED BY <1>1, <2>1
<1>7. ASSUME NEW t \in Threads, AllocSkip(t)
      PROVE  hsize'[c] < size'[u]
  <2>1. /\ UNCHANGED <<list, hsize, size, pc>> /\ qp' = [qp EXCEPT ![t] = next[qp[t]]]
        /\ next[qp[t]] # NULL /\ hsize[next[qp[t]]] < size[t] /\ mtx = t
    BY <1>1, <1>7 DEF AllocSkip, heapVars
  <2>2. u = t
    BY <1>1, <2>1
  <2>3. qp[t] \in list \cup {HEAD} /\ list \subseteq Addr
    BY <1>7 DEF AllocSkip, HeapInv, TypeOK, CallsGood
  <2>4. next[qp[t]] \in list /\ (c > qp[t] => next[qp[t]] <= c)
    BY <2>1, <2>3, WalkSees
  <2>5. c \in Nat /\ qp[t] \in Nat /\ next[qp[t]] \in Nat /\ c <= next[qp[t]]
    BY <1>1, <2>1, <2>2, <2>3, <2>4, HeadBelow, HeapAssumption
  <2>6. c <= qp[t] \/ c = next[qp[t]]
    BY <2>4, <2>5
  <2> QED BY <2>1, <2>2, <2>6 DEF Passed
<1>8. ASSUME NEW t \in Threads, AllocEnd(t) \/ FreeSkip(t)
      PROVE  hsize'[c] < size'[u]
  <2>1. u # t /\ pc[u] = "alloc_walk"
    BY <1>1, <1>8 DEF AllocEnd, FreeSkip, Goto
  <2> QED BY <1>1, <1>8, <2>1 DEF AllocEnd, FreeSkip, heapVars, callVars, Passed
<1>9. ASSUME NEW t \in Threads, AllocCore(t)
      PROVE  hsize'[c] < size'[u]
  <2>1. /\ u # t /\ pc[u] = "alloc_walk" /\ UNCHANGED <<list, size, qp>>
        /\ hsize' = hsize \/ hsize' = [hsize EXCEPT ![nextmem] = size[t]]
    BY <1>1, <1>9 DEF AllocCore, Return, Goto, heapVars, callVars
  <2>2. c # nextmem /\ c \in Addr /\ hsize \in Sizes
    <3>1. c \in Blocks /\ Tiled(Blocks, hsize, nextmem) /\ hsize \in Sizes
      BY <2>1 DEF Blocks, HeapInv, TypeOK, Sizes
    <3>2. c \in Addr /\ c \in Nat /\ hsize[c] \in Nat /\ c + HEADER + hsize[c] <= nextmem
      BY <3>1, HeadBelow DEF Tiled, End, Sizes
    <3> QED BY <3>1, <3>2, HeapAssumption
  <2>3. hsize'[c] = hsize[c]
    BY <2>1, <2>2 DEF Sizes
  <2> QED BY <2>1, <2>3 DEF Passed
<1> QED BY <1>2, <1>3, <1>4, <1>5, <1>6, <1>7, <1>8, <1>9 DEF Next, Step

(* What FirstFit says of one step.                                          *)
TakesFirst ==
  \A t \in Threads : pc[t] = "alloc_walk" /\ pc'[t] # "alloc_walk" =>
    \/ \E b \in Fitting(t) : b \in used' /\ \A c \in Fitting(t) : b <= c
    \/ Fitting(t) = {} /\ used' = used

(* The walk ends at the first block it finds, or at the end of the list.    *)
LEMMA StepTakesFirst ==
  ASSUME HeapInv, Passed, Next
  PROVE  TakesFirst
<1> SUFFICES ASSUME NEW t \in Threads, pc[t] = "alloc_walk", pc'[t] # "alloc_walk"
             PROVE  \/ \E b \in Fitting(t) : b \in used' /\ \A c \in Fitting(t) : b <= c
                    \/ Fitting(t) = {} /\ used' = used
  BY DEF TakesFirst
<1>1. /\ pc \in [Threads -> Labels] /\ list \subseteq Addr
      /\ size[t] \in Nat /\ hsize \in Sizes /\ qp[t] \in list \cup {HEAD}
  BY DEF HeapInv, TypeOK, Sizes, CallsGood
<1>2. AllocTake(t) \/ AllocEnd(t)
  <2>1. PICK u \in Threads :
          \/ \E n \in Requests : AllocCall(u, n)
          \/ \E b \in used : FreeCall(u, b)
          \/ H_LOCK(u)
          \/ Step(u)
    BY DEF Next
  <2>2. pc' = pc \/ \E l : pc' = [pc EXCEPT ![u] = l]
    BY <2>1, Zenon DEF Step, AllocCall, FreeCall, H_LOCK, AllocTake, AllocSkip, AllocEnd,
       AllocCore, FreeInsert, FreeSkip, Return, Goto
  <2>3. u = t
    BY <1>1, <2>2
  <2>4. pc[t] = "alloc_walk" /\ ~AllocSkip(t)
    BY DEF AllocSkip
  <2>5. /\ ~H_LOCK(t) /\ ~AllocCore(t) /\ ~FreeInsert(t) /\ ~FreeSkip(t)
        /\ \A n : ~AllocCall(t, n) /\ ~FreeCall(t, n)
    BY <2>4 DEF H_LOCK, AllocCore, FreeInsert, FreeSkip, AllocCall, FreeCall
  <2> QED BY <2>1, <2>3, <2>4, <2>5 DEF Step
<1>3. \A c \in Fitting(t) : c \in Nat /\ c \in list /\ ~(c <= qp[t])
  <2> SUFFICES ASSUME NEW c \in Fitting(t) PROVE c \in Nat /\ c \in list /\ ~(c <= qp[t])
    OBVIOUS
  <2>1. c \in list /\ hsize[c] >= size[t]
    BY DEF Fitting
  <2>2. c \in Nat /\ hsize[c] \in Nat
    BY <1>1, <2>1, HeadBelow DEF Sizes
  <2> QED BY <1>1, <2>1, <2>2 DEF Passed
<1>4. qp[t] \in Nat
  BY <1>1, HeadBelow, HeapAssumption
<1>5. CASE AllocTake(t)
  <2>1. next[qp[t]] # NULL /\ hsize[next[qp[t]]] >= size[t] /\ next[qp[t]] \in used'
    BY <1>5 DEF AllocTake, Return
  <2>2. next[qp[t]] \in list /\ \A c \in list : c > qp[t] => next[qp[t]] <= c
    BY <1>1, <2>1, WalkSees
  <2>3. next[qp[t]] \in Fitting(t)
    BY <2>1, <2>2 DEF Fitting
  <2>4. \A c \in Fitting(t) : next[qp[t]] <= c
    BY <1>3, <1>4, <2>2
  <2> QED BY <2>1, <2>3, <2>4
<1>6. CASE AllocEnd(t)
  <2>1. next[qp[t]] = NULL /\ used' = used
    BY <1>6 DEF AllocEnd
  <2>2. \A c \in list : c <= qp[t]
    BY <1>1, <2>1, HeadBelow DEF HeapInv, Sorted
  <2> QED BY <1>3, <2>1, <2>2
<1> QED BY <1>2, <1>5, <1>6

(* chHeapAlloc is first-fit: however the calls of other threads interleave, *)
(* it takes the lowest free block that is large enough when its walk ends,  *)
(* and turns to the provider, or returns NULL, only if there is none.       *)
THEOREM HeapFirstFit ==
  ASSUME RequestsFit
  PROVE  Spec => FirstFit
<1>1. Init => Passed
  BY DEF Init, Passed
<1>2. HeapInv /\ Passed /\ [Next]_vars => Passed'
  BY StepKeepsPassed
<1>3. HeapInv /\ Passed /\ [Next]_vars => [TakesFirst]_vars
  BY StepTakesFirst
<1>4. [TakesFirst]_vars
        => [\A t \in Threads : pc[t] = "alloc_walk" /\ pc'[t] # "alloc_walk" =>
              \/ \E b \in Fitting(t) : b \in used' /\ \A c \in Fitting(t) : b <= c
              \/ Fitting(t) = {} /\ used' = used]_vars
  BY DEF TakesFirst
<1> QED BY <1>1, <1>2, <1>3, <1>4, HeapInvariant, PTL DEF Spec, FirstFit
=============================================================================

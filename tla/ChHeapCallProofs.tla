-------------------------- MODULE ChHeapCallProofs --------------------------
(* The sizes of requests, the steps of chHeapAlloc and chHeapFree that move  *)
(* no block, and the core allocator keep the invariant of ChHeapLemmas.      *)
EXTENDS ChHeapLemmas

(* _heap_init and chHeapObjectInit establish the invariant.                 *)
LEMMA InitGood == Init => HeapInv
<1> SUFFICES ASSUME Init PROVE HeapInv
  OBVIOUS
<1>1. TypeOK
  BY HeapAssumption DEF Init, TypeOK, Addr, Link, Labels, NULL
<1>2. CallsGood /\ BlocksApart
  BY DEF Init, CallsGood, BlocksApart, allocLabels, freeLabels
<1>3. Blocks = list
  BY DEF Init, Blocks, Freeing
<1>4. CASE HasProvider
  <2>1. list = {} /\ nextmem = heap_base /\ next[HEAD] = NULL
    BY <1>4 DEF Init
  <2>2. Tiled({}, hsize, heap_base)
    BY HeapAssumption DEF Tiled, Addr
  <2> QED
    BY <1>1, <1>2, <1>3, <2>1, <2>2 DEF Init, HeapInv, Sorted, Apart
<1>5. CASE ~HasProvider
  <2>1. list = {heap_base} /\ nextmem = heap_end /\ next[HEAD] = heap_base
    BY <1>5 DEF Init
  <2>2. next[heap_base] = NULL /\ hsize[heap_base] = heap_end - heap_base - HEADER /\ hsize[HEAD] = 0
    BY <1>5, HeadBelow, HeapAssumption DEF Init, Addr
  <2>3. End(hsize, heap_base) = heap_end /\ heap_base \in Addr /\ heap_end \in Addr
    BY <2>2, HeapAssumption DEF End, Addr
  <2>4. Tiled({heap_base}, hsize, heap_end)
    BY <2>3, HeapAssumption DEF Tiled
  <2>5. Sorted(next, {heap_base})
    BY <2>1, <2>2, <2>3, HeadBelow DEF Sorted
  <2>6. Apart(hsize, {heap_base})
    BY <1>5, <2>3, HeapAssumption DEF Apart
  <2> QED
    BY <1>1, <1>2, <1>3, <2>1, <2>2, <2>4, <2>5, <2>6 DEF Init, HeapInv
<1> QED BY <1>4, <1>5

-----------------------------------------------------------------------------
(* Quotient and remainder, for the alignment.                               *)
LEMMA DivMod ==
  ASSUME NEW x \in Nat, NEW m \in Nat \ {0}
  PROVE  /\ x \div m \in Nat /\ x % m \in 0 .. m - 1
         /\ x = m * (x \div m) + (x % m)
OBVIOUS

(* A number below the modulus is its own remainder.                         *)
LEMMA SmallMod ==
  ASSUME NEW x \in Nat, NEW m \in Nat \ {0}, x < m
  PROVE  x % m = x
OBVIOUS

(* The remainder is the only one.                                           *)
LEMMA ModUnique ==
  ASSUME NEW k \in Nat, NEW m \in Nat \ {0}, NEW r \in Nat, r < m
  PROVE  (m * k + r) % m = r
<1> DEFINE x == m * k + r
<1>1. x \in Nat
  OBVIOUS
<1>2. x \div m \in Nat /\ x % m \in 0 .. m - 1 /\ x = m * (x \div m) + (x % m)
  <2> HIDE DEF x
  <2> QED BY <1>1, DivMod
<1>3. PICK d \in Nat, e \in Nat : e = x % m /\ e < m /\ x = m * d + e
  BY <1>2
<1>4. e < m /\ m * k + r = m * d + e
  BY <1>3
<1>5. m * (k - d) = e - r
  <2>1. m * (k - d) = m * k - m * d
    OBVIOUS
  <2>2. m * k \in Int /\ m * d \in Int
    OBVIOUS
  <2> QED BY <1>4, <2>1, <2>2
<1>6. CASE k - d >= 1
  <2>1. m * (k - d) >= m
    BY <1>6
  <2> QED BY <2>1, <1>4, <1>5
<1>7. CASE k - d <= -1
  <2>1. m * (k - d) <= -m
    BY <1>7
  <2> QED BY <2>1, <1>4, <1>5
<1>8. CASE k = d
  BY <1>3, <1>4, <1>8
<1> QED BY <1>6, <1>7, <1>8

(* chHeapAlloc rounds a request up (chheap.c:154), and chCoreAlloc's own    *)
(* rounding adds nothing to it.                                             *)
LEMMA RoundingFits ==
  ASSUME RequestsFit, NEW n \in Requests
  PROVE  Fits(n, MEM_ALIGN_NEXT(n))
<1> DEFINE A == MEM_ALIGN_SIZE
           p == n + A - 1
           k == p \div A
           s == A * k
           j == HEADER \div A
<1>1. /\ A \in Nat \ {0} /\ SIZE_MODULUS \in Nat \ {0} /\ HEADER \in Nat /\ n \in Nat
      /\ n + HEADER + 2 * (A - 1) < SIZE_MODULUS /\ HEADER % A = 0
  BY HeapAssumption DEF RequestsFit
<1>2. p \in Nat /\ p < SIZE_MODULUS
  BY <1>1
<1>3. p % SIZE_MODULUS = p
  <2> HIDE DEF p
  <2> QED BY <1>1, <1>2, SmallMod
<1>4. k \in Nat /\ p % A \in 0 .. A - 1 /\ p = A * k + (p % A)
  <2> HIDE DEF p, A
  <2> QED BY <1>1, <1>2, DivMod
<1>5. j \in Nat /\ HEADER = A * j
  <2>1. j \in Nat /\ HEADER = A * j + (HEADER % A)
    <3> HIDE DEF A
    <3> QED BY <1>1, DivMod
  <2> HIDE DEF A, j
  <2>2. A * j \in Nat
    BY <1>1, <2>1
  <2> QED BY <1>1, <2>1, <2>2
<1>6. MEM_ALIGN_NEXT(n) = s /\ s \in Nat /\ n <= s /\ s <= n + A - 1
  <2>1. MEM_ALIGN_NEXT(n) = p - (p % A)
    BY <1>3 DEF MEM_ALIGN_NEXT, MEM_ALIGN_PREV
  <2>2. s \in Nat
    <3> HIDE DEF k, A
    <3> QED BY <1>1, <1>4
  <2>3. p = n + A - 1
    OBVIOUS
  <2> HIDE DEF s, k, A, p
  <2>4. p = s + (p % A)
    BY <1>4 DEF s
  <2> QED BY <1>1, <1>2, <1>4, <2>1, <2>2, <2>3, <2>4
<1> DEFINE w == s + HEADER
           z == w + A - 1
<1>7. w \in Nat /\ w < SIZE_MODULUS /\ z \in Nat /\ z < SIZE_MODULUS
  <2> HIDE DEF s, A
  <2> QED BY <1>1, <1>6
<1>8. w % SIZE_MODULUS = w /\ z % SIZE_MODULUS = z
  <2> HIDE DEF w, z
  <2> QED BY <1>1, <1>7, SmallMod
<1>9. z % A = A - 1
  <2>1. z = A * (k + j) + (A - 1)
    <3> HIDE DEF A, k, j
    <3> QED BY <1>1, <1>4, <1>5
  <2> HIDE DEF A, k, j, z
  <2>2. k + j \in Nat /\ A - 1 \in Nat /\ A - 1 < A
    BY <1>1, <1>4, <1>5
  <2>3. (A * (k + j) + (A - 1)) % A = A - 1
    BY <1>1, <2>2, ModUnique
  <2> QED BY <2>1, <2>3
<1>10. MEM_ALIGN_NEXT(w) = w
  <2>1. MEM_ALIGN_NEXT(w) = z - (z % A)
    BY <1>8 DEF MEM_ALIGN_NEXT, MEM_ALIGN_PREV
  <2>2. z = w + A - 1
    OBVIOUS
  <2> HIDE DEF w, z, A
  <2> QED BY <2>1, <2>2, <1>1, <1>7, <1>9
<1> QED
  <2> HIDE DEF s
  <2> QED BY <1>6, <1>8, <1>10 DEF Fits

-----------------------------------------------------------------------------
(* Entering chHeapAlloc touches the locals of the caller only.              *)
LEMMA AllocCallKeeps ==
  ASSUME HeapInv, RequestsFit, NEW t \in Threads, NEW n \in Requests, AllocCall(t, n)
  PROVE  HeapInv'
<1>1. Fits(n, MEM_ALIGN_NEXT(n)) /\ n \in Nat /\ MEM_ALIGN_NEXT(n) \in Nat
  BY RoundingFits, HeapAssumption DEF Fits
<1>2. TypeOK'
  BY <1>1 DEF HeapInv, TypeOK, AllocCall, Goto, heapVars, Labels
<1>3. CallsGood' /\ BlocksApart'
  BY <1>1 DEF HeapInv, TypeOK, CallsGood, BlocksApart, AllocCall, Goto, heapVars, allocLabels,
     freeLabels, Fits, MEM_ALIGN_NEXT, MEM_ALIGN_PREV
<1>4. Freeing' = Freeing
  BY DEF HeapInv, TypeOK, AllocCall, Goto, Freeing
<1>5. MemoryGood'
  BY <1>4, MemoryKept DEF HeapInv, MemoryGood, AllocCall, heapVars, Blocks
<1> QED BY <1>2, <1>3, <1>5 DEF HeapInv, MemoryGood

(* Entering chHeapFree: the block passes from its holder to the call.       *)
LEMMA FreeCallKeeps ==
  ASSUME HeapInv, NEW t \in Threads, NEW b \in used, FreeCall(t, b)
  PROVE  HeapInv'
<1>1. b \in Addr /\ next[b] = HEAD /\ b \notin list
  BY DEF HeapInv, TypeOK, BlocksApart
<1>2. TypeOK'
  BY <1>1 DEF HeapInv, TypeOK, FreeCall, Goto, heapVars, Labels
<1>3. CallsGood'
  BY <1>1 DEF HeapInv, TypeOK, CallsGood, FreeCall, Goto, heapVars, allocLabels,
     Fits, MEM_ALIGN_NEXT, MEM_ALIGN_PREV
<1>4. BlocksApart'
  BY <1>1 DEF HeapInv, TypeOK, BlocksApart, FreeCall, Goto, heapVars, freeLabels
<1>5. Freeing' = Freeing \cup {b}
  BY DEF HeapInv, TypeOK, FreeCall, Goto, Freeing
<1>6. Blocks' = Blocks /\ used' \subseteq used
  BY <1>5 DEF FreeCall, heapVars, Blocks
<1>7. MemoryGood'
  BY <1>6, MemoryKept DEF HeapInv, MemoryGood, FreeCall
<1> QED BY <1>2, <1>3, <1>4, <1>7 DEF HeapInv, MemoryGood

(* Steps that move a call on, and nothing else: the lock, the end of a walk *)
(* without a block.                                                         *)
LEMMA H_LOCKKeeps ==
  ASSUME HeapInv, NEW t \in Threads, H_LOCK(t)
  PROVE  HeapInv'
<1>1. TypeOK'
  BY HeapAssumption DEF HeapInv, TypeOK, H_LOCK, Goto, heapVars, callVars, Labels
<1>2. CallsGood'
  <2>1. HEAD \in list \cup {HEAD} /\ \A u \in Threads : pc[u] = "free_lock" => HEAD < hp[u]
    BY HeadBelow DEF HeapInv, BlocksApart, freeLabels
  <2> QED BY <2>1 DEF HeapInv, TypeOK, CallsGood, H_LOCK, Goto, heapVars, callVars, allocLabels,
     Fits, MEM_ALIGN_NEXT, MEM_ALIGN_PREV
<1>3. BlocksApart'
  BY DEF HeapInv, TypeOK, BlocksApart, H_LOCK, Goto, heapVars, callVars, freeLabels
<1>4. Freeing' = Freeing
  BY DEF HeapInv, TypeOK, H_LOCK, Goto, callVars, Freeing
<1>5. MemoryGood'
  BY <1>4, MemoryKept DEF HeapInv, MemoryGood, H_LOCK, heapVars, Blocks
<1> QED BY <1>1, <1>2, <1>3, <1>5 DEF HeapInv, MemoryGood

(* chHeapAlloc: no block was large enough, the mutex is released.           *)
LEMMA AllocEndKeeps ==
  ASSUME HeapInv, NEW t \in Threads, AllocEnd(t)
  PROVE  HeapInv'
<1>1. TypeOK'
  BY HeapAssumption DEF HeapInv, TypeOK, AllocEnd, Goto, heapVars, callVars, Labels
<1>2. CallsGood' /\ BlocksApart'
  BY DEF HeapInv, TypeOK, CallsGood, BlocksApart, AllocEnd, Goto, heapVars, callVars,
     allocLabels, freeLabels, Fits, MEM_ALIGN_NEXT, MEM_ALIGN_PREV
<1>3. Freeing' = Freeing
  BY DEF HeapInv, TypeOK, AllocEnd, Goto, callVars, Freeing
<1>4. MemoryGood'
  BY <1>3, MemoryKept DEF HeapInv, MemoryGood, AllocEnd, heapVars, Blocks
<1> QED BY <1>1, <1>2, <1>4 DEF HeapInv, MemoryGood

(* The walks stay on the list, and chHeapFree below the block it frees.     *)
LEMMA AllocSkipKeeps ==
  ASSUME HeapInv, NEW t \in Threads, AllocSkip(t)
  PROVE  HeapInv'
<1>1. qp[t] \in list \cup {HEAD} /\ next[qp[t]] # NULL
  BY DEF HeapInv, CallsGood, AllocSkip
<1>2. next[qp[t]] \in list /\ list \subseteq Addr
  BY <1>1 DEF HeapInv, TypeOK, Sorted
<1>3. TypeOK'
  BY <1>2 DEF HeapInv, TypeOK, AllocSkip, heapVars
<1>4. CallsGood' /\ BlocksApart'
  BY <1>2 DEF HeapInv, TypeOK, CallsGood, BlocksApart, AllocSkip, heapVars,
     allocLabels, freeLabels, Fits, MEM_ALIGN_NEXT, MEM_ALIGN_PREV
<1>5. Blocks' = Blocks
  BY DEF AllocSkip, heapVars, Blocks, Freeing
<1>6. MemoryGood'
  BY <1>5, MemoryKept DEF HeapInv, MemoryGood, AllocSkip
<1> QED BY <1>3, <1>4, <1>6 DEF HeapInv, MemoryGood

(* chHeapFree: the search goes on, still below the block being freed.       *)
LEMMA FreeSkipKeeps ==
  ASSUME HeapInv, NEW t \in Threads, FreeSkip(t)
  PROVE  HeapInv'
<1>1. qp[t] \in list \cup {HEAD} /\ next[qp[t]] # NULL /\ qp[t] < hp[t] /\ hp[t] \in Addr \ list
  BY DEF HeapInv, CallsGood, BlocksApart, freeLabels, FreeSkip
<1>2. next[qp[t]] \in list /\ list \subseteq Addr
  BY <1>1 DEF HeapInv, TypeOK, Sorted
<1>3. next[qp[t]] < hp[t]
  <2>1. ~(hp[t] < next[qp[t]])
    BY <1>1, <1>2, HeadBelow DEF FreeSkip, InsertsBehind
  <2>2. next[qp[t]] # hp[t] /\ next[qp[t]] \in Nat /\ hp[t] \in Nat
    BY <1>1, <1>2, HeadBelow
  <2> QED BY <2>1, <2>2
<1>4. TypeOK'
  BY <1>2 DEF HeapInv, TypeOK, FreeSkip, heapVars
<1>5. CallsGood' /\ BlocksApart'
  BY <1>2, <1>3 DEF HeapInv, TypeOK, CallsGood, BlocksApart, FreeSkip, heapVars,
     allocLabels, freeLabels, Fits, MEM_ALIGN_NEXT, MEM_ALIGN_PREV
<1>6. Blocks' = Blocks
  BY DEF FreeSkip, heapVars, Blocks, Freeing
<1>7. MemoryGood'
  BY <1>6, MemoryKept DEF HeapInv, MemoryGood, FreeSkip
<1> QED BY <1>4, <1>5, <1>7 DEF HeapInv, MemoryGood

(* chCoreAlloc: a new block at the end of the memory in use.                *)
LEMMA AllocCoreKeeps ==
  ASSUME HeapInv, NEW t \in Threads, AllocCore(t)
  PROVE  HeapInv'
<1>1. CASE UNCHANGED <<heapVars, used, asked>> /\ Goto(t, "idle")
  <2>1. TypeOK' /\ CallsGood' /\ BlocksApart'
    BY <1>1, HeapAssumption DEF HeapInv, TypeOK, CallsGood, BlocksApart, AllocCore, Goto,
       heapVars, callVars, Labels, allocLabels, freeLabels, Fits, MEM_ALIGN_NEXT, MEM_ALIGN_PREV
  <2>2. Freeing' = Freeing
    BY <1>1 DEF HeapInv, TypeOK, AllocCore, Goto, callVars, Freeing
  <2>3. MemoryGood'
    BY <1>1, <2>2, MemoryKept DEF HeapInv, MemoryGood, heapVars, Blocks
  <2> QED BY <2>1, <2>3 DEF HeapInv, MemoryGood
<1>2. CASE ~(UNCHANGED <<heapVars, used, asked>> /\ Goto(t, "idle"))
  <2> DEFINE s == size[t]
  <2>1. /\ pc[t] = "alloc_core" /\ heap_end - nextmem >= CoreSize(t)
        /\ nextmem' = nextmem + CoreSize(t)
        /\ next' = [next EXCEPT ![nextmem] = HEAD]
        /\ hsize' = [hsize EXCEPT ![nextmem] = s]
        /\ used' = used \cup {nextmem}
        /\ asked' = [asked EXCEPT ![nextmem] = req[t]]
        /\ pc' = [pc EXCEPT ![t] = "idle"]
        /\ UNCHANGED <<list, mtx, size, qp, hp, req>>
    BY <1>2 DEF AllocCore, Return, Goto, callVars
  <2>2. s \in Nat /\ req[t] \in Nat /\ req[t] <= s /\ CoreSize(t) = s + HEADER
    BY <2>1 DEF HeapInv, TypeOK, CallsGood, allocLabels, Fits, CoreSize
  <2>3. nextmem \in Addr /\ hsize \in Sizes /\ Tiled(Blocks, hsize, nextmem)
    BY DEF HeapInv, TypeOK, Sizes
  <2>4. nextmem + HEADER + s <= heap_end
    BY <2>1, <2>2, <2>3, HeapAssumption DEF Addr
  <2>5. /\ nextmem \notin Blocks /\ hsize' \in Sizes /\ hsize'[nextmem] = s
        /\ \A a \in Addr \cup {HEAD} : a # nextmem => hsize'[a] = hsize[a]
        /\ nextmem' \in Addr /\ Tiled(Blocks \cup {nextmem}, hsize', nextmem')
    <3>1. /\ hsize' \in Sizes /\ hsize'[nextmem] = s
          /\ \A a \in Addr \cup {HEAD} : a # nextmem => hsize'[a] = hsize[a]
      BY <2>1, <2>2, <2>3 DEF Sizes
    <3>2. \A a \in Blocks : a # nextmem => hsize'[a] = hsize[a]
      BY <2>3, <3>1 DEF Tiled
    <3>3. nextmem' = nextmem + (s + HEADER)
      BY <2>1, <2>2
    <3> QED BY <2>2, <2>3, <2>4, <3>1, <3>2, <3>3, TiledGrow
  <2>6. /\ next' \in Links /\ next'[nextmem] = HEAD
        /\ \A a \in Addr \cup {HEAD} : a # nextmem => next'[a] = next[a]
    BY <2>1, <2>3 DEF HeapInv, TypeOK, Links, Link
  <2>7. TypeOK'
    BY <2>1, <2>2, <2>3, <2>5, <2>6, HeapAssumption DEF HeapInv, TypeOK, Links, Sizes, Labels
  <2>8. CallsGood'
    BY <2>1 DEF HeapInv, TypeOK, CallsGood, allocLabels, Fits, MEM_ALIGN_NEXT, MEM_ALIGN_PREV
  <2>9. Freeing' = Freeing /\ Blocks' = Blocks \cup {nextmem}
    BY <2>1 DEF HeapInv, TypeOK, Freeing, Blocks
  <2>10. BlocksApart'
    <3>1. nextmem \notin list /\ \A u \in Threads : pc[u] \in freeLabels => hp[u] # nextmem
      BY <2>5 DEF Blocks, Freeing, freeLabels
    <3> QED BY <2>1, <3>1 DEF HeapInv, TypeOK, BlocksApart, freeLabels
  <2>11. Sorted(next', list') /\ Apart(hsize', list')
    <3>1. nextmem \notin list /\ nextmem # HEAD /\ list \subseteq Addr
      BY <2>3, <2>5, HeadBelow DEF Blocks, HeapInv, TypeOK
    <3>2. Sorted(next, list) /\ Apart(hsize, list)
      BY DEF HeapInv
    <3>3. \A a \in list \cup {HEAD} : next[a] = next'[a] /\ hsize[a] = hsize'[a]
      BY <2>5, <2>6, <3>1
    <3> QED BY <2>1, <3>2, <3>3 DEF Sorted, Apart, End
  <2>12. hsize'[HEAD] = 0
    BY <2>3, <2>5, HeadBelow DEF HeapInv
  <2>13. \A b \in used' : next'[b] = HEAD /\ hsize'[b] >= asked'[b]
    <3>1. \A b \in used : b \in Addr /\ b # nextmem
      BY <2>5 DEF Blocks, HeapInv, TypeOK
    <3>2. asked'[nextmem] = req[t] /\ \A b \in used : asked'[b] = asked[b]
      BY <2>1, <2>3, <3>1 DEF HeapInv, TypeOK
    <3> QED BY <2>1, <2>2, <2>5, <2>6, <3>1, <3>2 DEF HeapInv
  <2> QED
    BY <2>5, <2>7, <2>8, <2>9, <2>10, <2>11, <2>12, <2>13 DEF HeapInv
<1> QED BY <1>1, <1>2
=============================================================================

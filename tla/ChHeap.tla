-------------------------------- MODULE ChHeap --------------------------------
(***************************************************************************)
(* The heap of ChibiOS/RT (chheap.c) on top of the core allocator          *)
(* (chmemcore.c), called by several threads.  Every loop iteration is a    *)
(* step; the heap mutex is what keeps two walks of the list apart.         *)
(*                                                                         *)
(* An address is a number.  The header of a block at a has the words       *)
(* next[a] (the union u: the list link while the block is free, the heap   *)
(* it came from while a caller holds it) and hsize[a]; the memory of the   *)
(* block is the hsize[a] bytes after it.  HEAD is the address of h_free,   *)
(* the list head inside the heap object, and stands for the heap, too.     *)
(***************************************************************************)
EXTENDS Integers, FiniteSets

CONSTANTS Threads,
          HEADER,        \* sizeof(union heap_header)
          MEM_ALIGN_SIZE,
          SIZE_MODULUS,  \* size_t arithmetic is modulo this, 2^32
          HEAD, heap_base, heap_end,
          HasProvider,   \* the default heap (TRUE), or one on a static area
          Requests       \* the sizes callers ask for

NULL == 0
Nobody == "nobody"

ASSUME HeapAssumption ==
  /\ HEADER \in Nat \ {0} /\ MEM_ALIGN_SIZE \in Nat \ {0}
  /\ SIZE_MODULUS \in Nat \ {0}
  /\ HEAD \in Nat \ {0} /\ heap_base \in Nat /\ heap_end \in Nat
  /\ HEAD + HEADER < heap_base    \* the heap object's other fields follow h_free
  /\ heap_base <= heap_end /\ heap_end < SIZE_MODULUS
  /\ ~HasProvider => heap_base + HEADER <= heap_end
  /\ HasProvider \in BOOLEAN
  /\ Requests \subseteq 0 .. SIZE_MODULUS - 1
  /\ Nobody \notin Threads

Addr == heap_base .. heap_end
Link == Addr \cup {HEAD, NULL}

VARIABLES
  nextmem,          \* the core: memory below it was handed out
  next, hsize,      \* the headers
  mtx,              \* the owner of h_mtx
  pc, size, qp, hp, \* per thread: where it is, and the locals of the call
  req,              \* per thread: the size the caller asked for
  list,             \* history: the headers linked in the free list
  used,             \* history: the blocks held by callers
  asked             \* history: what was asked for each block

heapVars == <<nextmem, next, hsize, list>>
callVars == <<size, qp, hp, req>>
vars == <<heapVars, mtx, pc, callVars, used, asked>>

MEM_ALIGN_PREV(p) == p - (p % MEM_ALIGN_SIZE)
(* Variant: rounds down.                                                    *)
MEM_ALIGN_NEXT_Down(p) == MEM_ALIGN_PREV(p % SIZE_MODULUS)

MEM_ALIGN_NEXT(p) == MEM_ALIGN_PREV((p + MEM_ALIGN_SIZE - 1) % SIZE_MODULUS)

(* Requests are so far from the largest size_t that no rounding wraps       *)
(* (chheap.c:154 does not test it), and a header keeps the alignment.       *)
RequestsFit ==
  /\ HEADER % MEM_ALIGN_SIZE = 0
  /\ \A n \in Requests : n + HEADER + 2 * (MEM_ALIGN_SIZE - 1) < SIZE_MODULUS

(* LIMIT(p): the address after the block.                                   *)
LIMIT(p) == p + HEADER + hsize[p]

(* _core_init and _heap_init, or chHeapObjectInit on the area.              *)
Init ==
  /\ nextmem = IF HasProvider THEN heap_base ELSE heap_end
  /\ list = IF HasProvider THEN {} ELSE {heap_base}
  /\ next = [a \in Addr \cup {HEAD} |->
               IF a = HEAD /\ ~HasProvider THEN heap_base ELSE NULL]
  /\ hsize = [a \in Addr \cup {HEAD} |->
                IF a = heap_base /\ ~HasProvider
                THEN heap_end - heap_base - HEADER ELSE 0]
  /\ mtx = Nobody
  /\ pc = [t \in Threads |-> "idle"]
  /\ size = [t \in Threads |-> 0] /\ req = [t \in Threads |-> 0]
  /\ qp = [t \in Threads |-> HEAD] /\ hp = [t \in Threads |-> HEAD]
  /\ used = {} /\ asked = [a \in Addr |-> 0]

Goto(t, label) == pc' = [pc EXCEPT ![t] = label]

(* The call hands the block at b to its caller.                             *)
Return(t, b) ==
  /\ used' = used \cup {b}
  /\ asked' = [asked EXCEPT ![b] = req[t]]
  /\ Goto(t, "idle")

AllocCall(t, n) ==
  /\ pc[t] = "idle"
  /\ Goto(t, "alloc_lock")
  /\ size' = [size EXCEPT ![t] = MEM_ALIGN_NEXT(n)]
  /\ req' = [req EXCEPT ![t] = n]
  /\ qp' = [qp EXCEPT ![t] = HEAD]
  /\ UNCHANGED <<heapVars, mtx, hp, used, asked>>

FreeCall(t, b) ==
  /\ pc[t] = "idle" /\ b \in used
  /\ Goto(t, "free_lock")
  /\ hp' = [hp EXCEPT ![t] = b]
  /\ qp' = [qp EXCEPT ![t] = next[b]]             \* the free list of its heap
  /\ used' = used \ {b}
  /\ UNCHANGED <<heapVars, mtx, size, req, asked>>

(* Variant: enters while another thread is inside.                          *)
H_LOCK_NoWait(t) ==
  /\ mtx' = t
  /\ \/ pc[t] = "alloc_lock" /\ Goto(t, "alloc_walk")
     \/ pc[t] = "free_lock" /\ Goto(t, "free_walk")
  /\ UNCHANGED <<heapVars, callVars, used, asked>>

H_LOCK(t) ==
  /\ mtx = Nobody
  /\ mtx' = t
  /\ \/ pc[t] = "alloc_lock" /\ Goto(t, "alloc_walk")
     \/ pc[t] = "free_lock" /\ Goto(t, "free_walk")
  /\ UNCHANGED <<heapVars, callVars, used, asked>>

-----------------------------------------------------------------------------
(* The size of the free rest of block b, split after n bytes; a variant     *)
(* that forgets the header of the rest.                                     *)
Rest_NoHeader(b, n) == hsize[b] - n

Rest(b, n) == (hsize[b] - HEADER) - n

(* chHeapAlloc: the next free block b is large enough ...                   *)
AllocTake(t) ==
  LET q == qp[t]
      b == next[q]
      fp == b + HEADER + size[t]
      whole == hsize[b] < (size[t] + HEADER) % SIZE_MODULUS
  IN  /\ pc[t] = "alloc_walk" /\ b # NULL /\ hsize[b] >= size[t]
      /\ \/ /\ whole
            /\ next' = [next EXCEPT ![q] = next[b], ![b] = HEAD]
            /\ list' = list \ {b}
            /\ UNCHANGED hsize
         \/ /\ ~whole
            /\ next' = [next EXCEPT ![q] = fp, ![fp] = next[b], ![b] = HEAD]
            /\ hsize' = [hsize EXCEPT ![fp] = Rest(b, size[t]),
                                     ![b] = size[t]]
            /\ list' = (list \ {b}) \cup {fp}
      /\ mtx' = Nobody
      /\ Return(t, b)
      /\ UNCHANGED <<nextmem, callVars>>

(* Variant of AllocSkip that does not go on: qp = hp is missing.            *)
AllocSkip_Again(t) ==
  /\ pc[t] = "alloc_walk" /\ next[qp[t]] # NULL /\ hsize[next[qp[t]]] < size[t]
  /\ UNCHANGED vars

(* Variant of AllocSkip that passes a block of exactly the size.            *)
AllocSkip_Exact(t) ==
  /\ pc[t] = "alloc_walk" /\ next[qp[t]] # NULL /\ hsize[next[qp[t]]] <= size[t]
  /\ qp' = [qp EXCEPT ![t] = next[qp[t]]]
  /\ UNCHANGED <<heapVars, mtx, pc, size, hp, req, used, asked>>

(* ... it is too small: go on behind it ...                                 *)
AllocSkip(t) ==
  /\ pc[t] = "alloc_walk" /\ next[qp[t]] # NULL /\ hsize[next[qp[t]]] < size[t]
  /\ qp' = [qp EXCEPT ![t] = next[qp[t]]]
  /\ UNCHANGED <<heapVars, mtx, pc, size, hp, req, used, asked>>

(* ... there is none: the mutex is released before the provider is asked.   *)
AllocEnd(t) ==
  /\ pc[t] = "alloc_walk" /\ next[qp[t]] = NULL
  /\ mtx' = Nobody
  /\ Goto(t, IF HasProvider THEN "alloc_core" ELSE "idle")
  /\ UNCHANGED <<heapVars, callVars, used, asked>>

(* chCoreAlloc(size + sizeof(union heap_header)), under the system lock.    *)
CoreSize(t) == MEM_ALIGN_NEXT((size[t] + HEADER) % SIZE_MODULUS)

AllocCore(t) ==
  /\ pc[t] = "alloc_core"
  /\ \/ /\ heap_end - nextmem < CoreSize(t)       \* chHeapAlloc returns NULL
        /\ Goto(t, "idle")
        /\ UNCHANGED <<heapVars, used, asked>>
     \/ /\ heap_end - nextmem >= CoreSize(t)
        /\ nextmem' = nextmem + CoreSize(t)
        /\ next' = [next EXCEPT ![nextmem] = HEAD]
        /\ hsize' = [hsize EXCEPT ![nextmem] = size[t]]
        /\ Return(t, nextmem)
        /\ UNCHANGED list
  /\ UNCHANGED <<mtx, callVars>>

-----------------------------------------------------------------------------
(* The condition of chDbgAssert(..., "within free block").                  *)
OutsideFreeBlock(h, q) == h < q \/ h >= LIMIT(q)

(* chHeapFree: the position of the block h in the list is right behind q;   *)
(* a variant that does not look at the block after q.                       *)
InsertsBehind_First(h, q) == q = HEAD \/ h > q

InsertsBehind(h, q) ==
  (q = HEAD \/ h > q) /\ (next[q] = NULL \/ h < next[q])

(* The block at p ends where n begins; variants that forget the header, and *)
(* that take two blocks for neighbours when something lies between them.    *)
Adjacent_NoHeader(p, n) == p + hsize[p] = n
Adjacent_Apart(p, n) == p # HEAD /\ n # NULL /\ LIMIT(p) <= n

Adjacent(p, n) == LIMIT(p) = n

FreeInsert(t) ==
  LET h == hp[t]
      q == qp[t]
      n == next[q]
      up == Adjacent(h, n)
      down == Adjacent(q, h)
      size1 == IF up THEN hsize[h] + hsize[n] + HEADER ELSE hsize[h]
      next1 == IF up THEN next[n] ELSE n
  IN  /\ pc[t] = "free_walk" /\ OutsideFreeBlock(h, q) /\ InsertsBehind(h, q)
      /\ next' = [next EXCEPT ![h] = next1, ![q] = IF down THEN next1 ELSE h]
      /\ hsize' = [hsize EXCEPT ![h] = size1,
                                ![q] = IF down THEN @ + size1 + HEADER ELSE @]
      /\ list' = (list \cup {h}) \ ((IF up THEN {n} ELSE {})
                                      \cup (IF down THEN {h} ELSE {}))
      /\ mtx' = Nobody
      /\ Goto(t, "idle")
      /\ UNCHANGED <<nextmem, callVars, used, asked>>

FreeSkip(t) ==
  /\ pc[t] = "free_walk" /\ next[qp[t]] # NULL
  /\ OutsideFreeBlock(hp[t], qp[t]) /\ ~InsertsBehind(hp[t], qp[t])
  /\ qp' = [qp EXCEPT ![t] = next[qp[t]]]
  /\ UNCHANGED <<heapVars, mtx, pc, size, hp, req, used, asked>>

(* A step of a call that does not have to wait for the mutex.               *)
Step(t) ==
  \/ AllocTake(t) \/ AllocSkip(t) \/ AllocEnd(t) \/ AllocCore(t)
  \/ FreeInsert(t) \/ FreeSkip(t)

Next ==
  \E t \in Threads :
    \/ \E n \in Requests : AllocCall(t, n)
    \/ \E b \in used : FreeCall(t, b)
    \/ H_LOCK(t)
    \/ Step(t)

Spec == Init /\ [][Next]_vars

(* While calls can go on the processor runs one of them; it may be any.  A  *)
(* call waits for nothing but the mutex, and callers may stop calling.      *)
Fairness == WF_vars(\E t \in Threads : Step(t))

FairSpec == Spec /\ Fairness

-----------------------------------------------------------------------------
Labels == {"idle", "alloc_lock", "alloc_walk", "alloc_core",
           "free_lock", "free_walk"}

(* Types, and who holds the mutex: exactly the thread that walks the list.  *)
TypeOK ==
  /\ nextmem \in Addr
  /\ next \in [Addr \cup {HEAD} -> Link]
  /\ hsize \in [Addr \cup {HEAD} -> Nat]
  /\ mtx \in Threads \cup {Nobody}
  /\ pc \in [Threads -> Labels]
  /\ size \in [Threads -> Nat] /\ req \in [Threads -> Nat]
  /\ qp \in [Threads -> Addr \cup {HEAD}] /\ hp \in [Threads -> Addr \cup {HEAD}]
  /\ list \subseteq Addr /\ used \subseteq Addr /\ asked \in [Addr -> Nat]
  /\ \A t \in Threads : mtx = t <=> pc[t] \in {"alloc_walk", "free_walk"}

(* The blocks on their way back to the heap, and all blocks.                *)
Freeing == {hp[t] : t \in {u \in Threads : pc[u] \in {"free_lock", "free_walk"}}}
Blocks == list \cup used \cup Freeing

(* Every byte the core handed out belongs to exactly one block, free or in  *)
(* use: splitting and merging (chheap.c:161-176, 235-244) lose no memory    *)
(* and never let two blocks overlap, whatever calls run at the same time.   *)
BlocksTile ==
  /\ nextmem = heap_base \/ heap_base \in Blocks
  /\ \A a \in Blocks : LIMIT(a) = nextmem \/ LIMIT(a) \in Blocks
  /\ \A a, b \in Blocks : a < b => LIMIT(a) <= b

(* The free list visits the free blocks in the order of their addresses,    *)
(* and all of them: what the insertion test of chHeapFree relies on.        *)
ListSorted ==
  \A a \in list \cup {HEAD} :
    \/ next[a] = NULL /\ \A b \in list : b <= a
    \/ /\ next[a] \in list /\ next[a] > a
       /\ \A b \in list : b > a => next[a] <= b

(* Merging is complete: no two free blocks touch each other, so that the    *)
(* heap is as little fragmented as first-fit without moving allows.         *)
Coalesced == \A a, b \in list : LIMIT(a) # b

(* A caller gets at least the bytes it asked for (chheap.c:139-141).        *)
EnoughRoom == \A b \in used : hsize[b] >= asked[b]

(* The assertion of chHeapFree, "within free block", holds for every block  *)
(* that was allocated, and the search for its place cannot run off the end. *)
FreeFindsItsPlace ==
  \A t \in Threads : pc[t] = "free_walk" =>
    /\ OutsideFreeBlock(hp[t], qp[t])
    /\ next[qp[t]] = NULL => InsertsBehind(hp[t], qp[t])

(* No call changes the header of a block a caller holds: its size, and the  *)
(* heap that chHeapFree will return it to (chheap.c:222-223).               *)
HeldBlocksUntouched ==
  [][\A b \in used \cap used' :
       /\ hsize'[b] = hsize[b] /\ next'[b] = next[b]
       /\ asked'[b] = asked[b]]_vars

(* The free blocks that are large enough for the call of t.                 *)
Fitting(t) == {b \in list : hsize[b] >= size[t]}

(* "the first-fit algorithm" (chheap.c:131): at the moment its walk ends, a *)
(* call takes the lowest of the free blocks that are large enough, and goes *)
(* without one, to the provider or to return NULL, only if there is none.   *)
(* Blocks it has passed neither grow nor come back while it walks on.       *)
FirstFit ==
  [][\A t \in Threads : pc[t] = "alloc_walk" /\ pc'[t] # "alloc_walk" =>
       \/ \E b \in Fitting(t) : b \in used' /\ \A c \in Fitting(t) : b <= c
       \/ Fitting(t) = {} /\ used' = used]_vars

(* Every walk of the list ends, and with it the time the mutex is held.     *)
WalksEnd == \A t \in Threads : mtx = t ~> mtx # t
=============================================================================

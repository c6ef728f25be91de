---------------------------- MODULE ChHeapLemmas ----------------------------
(* The inductive invariant of ChHeap, and what splitting, growing and       *)
(* merging blocks and changing a link do to its parts, for any sets and     *)
(* functions.                                                               *)
EXTENDS ChHeap, TLAPS

-----------------------------------------------------------------------------
(* The invariants of the memory and of the list as predicates on values, so *)
(* that the lemmas can say what splitting, growing and merging do to them.  *)
End(sz, a) == a + HEADER + sz[a]

Tiled(B, sz, top) ==
  /\ B \subseteq Addr /\ top \in Addr
  /\ top = heap_base \/ heap_base \in B
  /\ \A a \in B : End(sz, a) <= top /\ (End(sz, a) = top \/ End(sz, a) \in B)
  /\ \A a, b \in B : a < b => End(sz, a) <= b

Sorted(nx, L) ==
  \A a \in L \cup {HEAD} :
    \/ nx[a] = NULL /\ \A b \in L : b <= a
    \/ nx[a] \in L /\ nx[a] > a /\ \A b \in L : b > a => nx[a] <= b

Apart(sz, L) == \A a, b \in L : End(sz, a) # b

Sizes == [Addr \cup {HEAD} -> Nat]
Links == [Addr \cup {HEAD} -> Link]

-----------------------------------------------------------------------------
allocLabels == {"alloc_lock", "alloc_walk", "alloc_core"}
freeLabels == {"free_lock", "free_walk"}

(* The size s computed for a request of n bytes, and the size of a new      *)
(* block for it, are as large as they should be.                            *)
Fits(n, s) ==
  /\ s \in Nat /\ n <= s
  /\ (s + HEADER) % SIZE_MODULUS = s + HEADER
  /\ MEM_ALIGN_NEXT(s + HEADER) = s + HEADER

(* Where the calls in progress are: the locals of chHeapAlloc and           *)
(* chHeapFree.                                                              *)
CallsGood ==
  \A t \in Threads :
    /\ pc[t] \in allocLabels => Fits(req[t], size[t])
    /\ pc[t] \in {"alloc_lock", "free_lock"} => qp[t] = HEAD
    /\ pc[t] \in {"alloc_walk", "free_walk"} => qp[t] \in list \cup {HEAD}
    /\ pc[t] = "free_walk" => qp[t] < hp[t]

(* A block is free, held by a caller, or on its way back by one thread.     *)
BlocksApart ==
  /\ list \cap used = {}
  /\ \A t \in Threads : pc[t] \in freeLabels => hp[t] \in Addr /\ hp[t] \notin list \cup used
  /\ \A t, u \in Threads :
       pc[t] \in freeLabels /\ pc[u] \in freeLabels /\ hp[t] = hp[u] => t = u

(* The inductive invariant.                                                 *)
HeapInv ==
  /\ TypeOK /\ CallsGood /\ BlocksApart
  /\ Tiled(Blocks, hsize, nextmem) /\ Sorted(next, list) /\ Apart(hsize, list)
  /\ hsize[HEAD] = 0
  /\ \A b \in used : next[b] = HEAD /\ hsize[b] >= asked[b]

-----------------------------------------------------------------------------
(* The blocks do not depend on words that are no header.                    *)
LEMMA TiledSame ==
  ASSUME NEW B, NEW sz1, NEW sz2, NEW top, Tiled(B, sz1, top), \A a \in B : sz1[a] = sz2[a]
  PROVE  Tiled(B, sz2, top)
BY DEF Tiled, End

(* Where chHeapAlloc splits block b there is no block yet.                  *)
LEMMA SplitPoint ==
  ASSUME NEW B, NEW sz \in Sizes, NEW top, Tiled(B, sz, top),
         NEW b \in B, NEW s \in Nat, sz[b] >= s + HEADER
  PROVE  b + HEADER + s \in Addr /\ b + HEADER + s \notin B /\ b + HEADER + s > b
<1>1. b \in Addr /\ b \in Nat /\ HEADER \in Nat \ {0} /\ sz[b] \in Nat /\ top \in Addr
  BY HeapAssumption DEF Tiled, Sizes, Addr
<1>2. b + HEADER + s \in Addr /\ b + HEADER + s > b
  <2>1. b + HEADER + sz[b] <= top
    BY DEF Tiled, End
  <2> QED BY <1>1, <2>1, HeapAssumption DEF Addr
<1>3. b + HEADER + s \notin B
  <2> SUFFICES ASSUME b + HEADER + s \in B PROVE FALSE
    OBVIOUS
  <2>1. b + HEADER + sz[b] <= b + HEADER + s
    BY <1>2 DEF Tiled, End
  <2> QED BY <1>1, <2>1
<1> QED BY <1>2, <1>3

(* chHeapAlloc splits block b: its rest is a block of its own.              *)
LEMMA TiledSplit ==
  ASSUME NEW B, NEW sz \in Sizes, NEW new \in Sizes, NEW top, Tiled(B, sz, top),
         NEW b \in B, NEW s \in Nat, sz[b] >= s + HEADER, NEW fp, fp = b + HEADER + s,
         new[b] = s, new[fp] = (sz[b] - HEADER) - s,
         \A a \in B : a # b => new[a] = sz[a]
  PROVE  End(new, fp) = End(sz, b) /\ Tiled(B \cup {fp}, new, top)
<1>1. b \in Addr /\ b \in Nat /\ HEADER \in Nat \ {0} /\ sz[b] \in Nat /\ B \subseteq Addr /\ top \in Addr
  BY HeapAssumption DEF Tiled, Sizes, Addr
<1>2. fp \in Addr /\ fp > b
  BY SplitPoint
<1>3. fp \notin B
  BY SplitPoint
<1>5. End(new, fp) = End(sz, b) /\ End(new, b) = fp
  BY <1>1 DEF End
<1>6. \A a \in B : a # b => End(new, a) = End(sz, a)
  BY DEF End
<1>7. \A a \in B : a \in Nat /\ sz[a] \in Nat /\ End(sz, a) \in Nat /\ End(sz, a) > a
  BY <1>1, HeapAssumption DEF End, Addr, Sizes
<1>8. fp < End(sz, b)
  BY <1>1 DEF End
<1>9. \A a \in B \cup {fp} : End(new, a) <= top /\ (End(new, a) = top \/ End(new, a) \in B \cup {fp})
  <2>1. fp <= top
    BY <1>1, <1>8 DEF Tiled, End, Addr
  <2> QED BY <1>5, <1>6, <2>1 DEF Tiled
<1>10. ASSUME NEW a \in B \cup {fp}, NEW c \in B \cup {fp}, a < c PROVE End(new, a) <= c
  <2>1. CASE a = fp
    <3>1. c \in B /\ b < c
      BY <2>1, <1>2, <1>7, <1>10, <1>1
    <3> QED BY <2>1, <3>1, <1>5 DEF Tiled
  <2>2. CASE a = b
    <3>1. CASE c = fp
      BY <2>2, <3>1, <1>5, <1>1
    <3>2. CASE c # fp
      <4>1. c \in B /\ End(sz, b) <= c
        BY <2>2, <3>2, <1>10 DEF Tiled
      <4> QED BY <2>2, <4>1, <1>5, <1>8, <1>7, <1>1
    <3> QED BY <3>1, <3>2
  <2>3. CASE a # b /\ a # fp
    <3>1. a \in B /\ End(new, a) = End(sz, a)
      BY <2>3, <1>6
    <3>2. CASE c = fp
      <4>1. a < b
        <5>1. ~(b < a)
          <6>1. b < a => End(sz, b) <= a
            BY <3>1 DEF Tiled
          <6> QED BY <6>1, <1>8, <1>10, <3>2, <3>1, <1>7, <1>1
        <5> QED BY <5>1, <2>3, <3>1, <1>7
      <4>2. End(sz, a) <= b
        BY <4>1, <3>1 DEF Tiled
      <4> QED BY <4>2, <3>1, <3>2, <1>2, <1>7, <1>1
    <3>3. CASE c # fp
      BY <3>1, <3>3, <1>10 DEF Tiled
    <3> QED BY <3>2, <3>3
  <2> QED BY <2>1, <2>2, <2>3
<1>11. Tiled(B \cup {fp}, new, top)
  <2>1. B \cup {fp} \subseteq Addr /\ top \in Addr /\ (top = heap_base \/ heap_base \in B \cup {fp})
    BY <1>1, <1>2 DEF Tiled
  <2> QED BY <2>1, <1>9, <1>10 DEF Tiled
<1> QED BY <1>5, <1>11

(* chCoreAlloc hands out the memory at top for a block of s bytes.          *)
LEMMA TiledGrow ==
  ASSUME NEW B, NEW sz \in Sizes, NEW new \in Sizes, NEW top, Tiled(B, sz, top),
         NEW s \in Nat, top + HEADER + s <= heap_end, NEW up, up = top + (s + HEADER),
         new[top] = s, \A a \in B : a # top => new[a] = sz[a]
  PROVE  top \notin B /\ up \in Addr /\ Tiled(B \cup {top}, new, up)
<1>1. top \in Addr /\ top \in Nat /\ B \subseteq Addr /\ HEADER \in Nat \ {0}
  BY HeapAssumption DEF Tiled, Addr
<1>2. \A a \in B : a \in Nat /\ sz[a] \in Nat /\ End(sz, a) \in Nat /\ End(sz, a) > a
  BY <1>1, HeapAssumption DEF End, Addr, Sizes
<1>3. \A a \in B : a < top
  BY <1>1, <1>2 DEF Tiled
<1>5. up \in Addr /\ up > top
  BY <1>1, HeapAssumption DEF Addr
<1>6. End(new, top) = up
  BY <1>1 DEF End
<1>7. \A a \in B : End(new, a) = End(sz, a)
  BY <1>1, <1>3 DEF End
<1>8. \A a \in B \cup {top} : End(new, a) <= up /\ (End(new, a) = up \/ End(new, a) \in B \cup {top})
  <2>1. \A a \in B : End(sz, a) <= top /\ (End(sz, a) = top \/ End(sz, a) \in B)
    BY DEF Tiled
  <2>2. \A a \in B : End(sz, a) <= up
    BY <2>1, <1>1, <1>2, <1>5
  <2>3. up <= up
    BY <1>1, <1>5
  <2> QED BY <2>1, <2>2, <2>3, <1>6, <1>7
<1>9. \A a, c \in B \cup {top} : a < c => End(new, a) <= c
  <2>1. \A a \in B : End(sz, a) <= top
    BY DEF Tiled
  <2>2. \A a, c \in B : a < c => End(sz, a) <= c
    BY DEF Tiled
  <2>3. \A c \in B \cup {top} : ~(top < c)
    BY <1>1, <1>2, <1>3
  <2> QED BY <2>1, <2>2, <2>3, <1>7
<1>10. up = heap_base \/ heap_base \in B \cup {top}
  BY DEF Tiled
<1>11. Tiled(B \cup {top}, new, up)
  BY <1>1, <1>5, <1>8, <1>9, <1>10 DEF Tiled
<1> QED BY <1>1, <1>3, <1>5, <1>11

(* chHeapFree merges block a with block b that follows it.                  *)
LEMMA TiledMerge ==
  ASSUME NEW B, NEW sz \in Sizes, NEW new \in Sizes, NEW top, Tiled(B, sz, top),
         NEW a \in B, NEW b \in B, End(sz, a) = b, End(new, a) = End(sz, b),
         \A c \in B : c # a /\ c # b => new[c] = sz[c]
  PROVE  Tiled(B \ {b}, new, top)
<1>1. B \subseteq Addr /\ top \in Addr /\ HEADER \in Nat \ {0}
  BY HeapAssumption DEF Tiled
<1>2. \A c \in B : c \in Nat /\ sz[c] \in Nat /\ End(sz, c) \in Nat /\ End(sz, c) > c
  BY <1>1, HeapAssumption DEF End, Addr, Sizes
<1>3. a < b /\ b < End(sz, b)
  BY <1>2
<1>4. \A c \in B : c # a /\ c # b => End(new, c) = End(sz, c)
  BY DEF End
<1>5. \A c, d \in B : c < d => End(sz, c) <= d
  BY DEF Tiled
<1>6. \A c \in B : End(sz, c) <= top /\ (End(sz, c) = top \/ End(sz, c) \in B)
  BY DEF Tiled
<1>7. \A c \in B : c # a => End(sz, c) # b
  <2> SUFFICES ASSUME NEW c \in B, c # a, End(sz, c) = b PROVE FALSE
    OBVIOUS
  <2>1. c < a \/ a < c
    BY <1>2
  <2>2. CASE c < a
    BY <2>2, <1>2, <1>3, <1>5
  <2>3. CASE a < c
    BY <2>3, <1>2, <1>3, <1>5
  <2> QED BY <2>1, <2>2, <2>3
<1>8. top = heap_base \/ heap_base \in B \ {b}
  <2>1. top = heap_base \/ heap_base \in B
    BY DEF Tiled
  <2>2. heap_base <= a
    BY <1>1, HeapAssumption DEF Addr
  <2>3. heap_base # b
    BY <2>2, <1>2, <1>3, HeapAssumption
  <2> QED BY <2>1, <2>3
<1>9. \A c \in B \ {b} : End(new, c) <= top /\ (End(new, c) = top \/ End(new, c) \in B \ {b})
  <2> TAKE c \in B \ {b}
  <2>1. CASE c = a
    BY <2>1, <1>2, <1>3, <1>6
  <2>2. CASE c # a
    BY <2>2, <1>4, <1>6, <1>7
  <2> QED BY <2>1, <2>2
<1>10. \A c, d \in B \ {b} : c < d => End(new, c) <= d
  <2> SUFFICES ASSUME NEW c \in B \ {b}, NEW d \in B \ {b}, c < d PROVE End(new, c) <= d
    OBVIOUS
  <2>1. CASE c = a
    <3>1. b <= d /\ b # d
      BY <2>1, <1>5
    <3>2. b < d
      BY <3>1, <1>2
    <3> QED BY <2>1, <3>2, <1>5
  <2>2. CASE c # a
    BY <2>2, <1>4, <1>5
  <2> QED BY <2>1, <2>2
<1> QED BY <1>1, <1>8, <1>9, <1>10 DEF Tiled

-----------------------------------------------------------------------------
(* The header of the list is below every block.                             *)
LEMMA HeadBelow ==
  /\ HEAD \in Nat \ {0} /\ NULL = 0 /\ HEAD \notin Addr /\ NULL \notin Addr
  /\ \A a \in Addr : a \in Nat /\ HEAD < a /\ HEAD + HEADER < a
BY HeapAssumption DEF Addr, NULL

(* The list without the block b behind q.                                   *)
LEMMA SortedRemove ==
  ASSUME NEW L \in SUBSET Addr, NEW nx, NEW new, Sorted(nx, L),
         NEW q \in L \cup {HEAD}, NEW b \in L, nx[q] = b, new[q] = nx[b],
         \A a \in (L \ {b}) \cup {HEAD} : a # q => new[a] = nx[a]
  PROVE  Sorted(new, L \ {b})
<1>1. \A a \in L \cup {HEAD} : a \in Nat /\ a # NULL
  BY HeadBelow
<1>2. q < b /\ \A c \in L : c > q => b <= c
  BY <1>1 DEF Sorted
<1>3. b \in L \cup {HEAD}
  OBVIOUS
<1>4. \/ nx[b] = NULL /\ \A c \in L : c <= b
      \/ nx[b] \in L /\ nx[b] > b /\ \A c \in L : c > b => nx[b] <= c
  BY <1>3 DEF Sorted
<1> SUFFICES ASSUME NEW a \in (L \ {b}) \cup {HEAD}
             PROVE  \/ new[a] = NULL /\ \A c \in L \ {b} : c <= a
                    \/ /\ new[a] \in L \ {b} /\ new[a] > a
                       /\ \A c \in L \ {b} : c > a => new[a] <= c
  BY DEF Sorted
<1>5. CASE a = q
  <2>1. CASE nx[b] = NULL /\ \A c \in L : c <= b
    BY <1>1, <1>2, <1>5, <2>1
  <2>2. CASE nx[b] \in L /\ nx[b] > b /\ \A c \in L : c > b => nx[b] <= c
    <3>1. \A c \in L \ {b} : c > q => c > b
      BY <1>1, <1>2
    <3> QED BY <1>1, <1>2, <1>5, <2>2, <3>1
  <2> QED BY <1>4, <2>1, <2>2
<1>6. CASE a # q
  <2>1. new[a] = nx[a]
    BY <1>6
  <2>2. \/ nx[a] = NULL /\ \A c \in L : c <= a
        \/ nx[a] \in L /\ nx[a] > a /\ \A c \in L : c > a => nx[a] <= c
    BY DEF Sorted
  <2>3. nx[a] # b
    <3> SUFFICES ASSUME nx[a] = b PROVE FALSE
      OBVIOUS
    <3>1. b > a /\ \A c \in L : c > a => b <= c
      BY <1>1, <2>2
    <3>2. CASE a < q
      <4>1. q \in L
        BY <3>2, <1>1, HeadBelow
      <4> QED BY <3>1, <3>2, <4>1, <1>1, <1>2
    <3>3. CASE q < a
      <4>1. a \in L
        BY <3>3, <1>1, HeadBelow
      <4> QED BY <3>1, <3>3, <4>1, <1>1, <1>2
    <3> QED BY <3>2, <3>3, <1>1, <1>6
  <2> QED BY <2>1, <2>2, <2>3
<1> QED BY <1>5, <1>6

(* The list with the block h behind q, the place chHeapFree looks for.      *)
LEMMA SortedInsert ==
  ASSUME NEW L \in SUBSET Addr, NEW nx, NEW new, Sorted(nx, L),
         NEW q \in L \cup {HEAD}, NEW h \in Addr \ L, q < h, nx[q] = NULL \/ h < nx[q],
         new[q] = h, new[h] = nx[q], \A a \in L \cup {HEAD} : a # q => new[a] = nx[a]
  PROVE  Sorted(new, L \cup {h})
<1>1. h \in Nat /\ \A a \in L \cup {HEAD} : a \in Nat /\ a # NULL
  BY HeadBelow
<1>2. \/ nx[q] = NULL /\ \A c \in L : c <= q
      \/ nx[q] \in L /\ nx[q] > q /\ \A c \in L : c > q => nx[q] <= c
  BY DEF Sorted
<1>3. \A c \in L : c > q => c > h
  <2> SUFFICES ASSUME NEW c \in L, c > q PROVE c > h
    OBVIOUS
  <2>1. nx[q] \in L /\ nx[q] <= c
    BY <1>1, <1>2
  <2>2. nx[q] \in Nat /\ nx[q] # NULL /\ c \in Nat
    BY <2>1, <1>1
  <2> QED BY <2>1, <2>2, <1>1
<1>4. \A c \in L : c <= q \/ c > h
  BY <1>1, <1>3
<1> SUFFICES ASSUME NEW a \in L \cup {h, HEAD}
             PROVE  \/ new[a] = NULL /\ \A c \in L \cup {h} : c <= a
                    \/ /\ new[a] \in L \cup {h} /\ new[a] > a
                       /\ \A c \in L \cup {h} : c > a => new[a] <= c
  BY DEF Sorted
<1>5. CASE a = q
  BY <1>1, <1>3, <1>5
<1>6. CASE a = h
  <2>1. CASE nx[q] = NULL /\ \A c \in L : c <= q
    <3>1. \A c \in L : c <= h
      BY <2>1, <1>1
    <3> QED BY <3>1, <2>1, <1>1, <1>6
  <2>2. CASE nx[q] \in L /\ nx[q] > q /\ \A c \in L : c > q => nx[q] <= c
    <3>1. nx[q] > h
      BY <2>2, <1>3
    <3>2. \A c \in L : c > h => nx[q] <= c
      BY <2>2, <1>1
    <3>3. ~(h > h)
      BY <1>1
    <3> QED BY <3>1, <3>2, <3>3, <2>2, <1>6
  <2> QED BY <1>2, <2>1, <2>2
<1>7. CASE a # q /\ a # h
  <2>1. new[a] = nx[a]
    BY <1>7
  <2>2. \/ nx[a] = NULL /\ \A c \in L : c <= a
        \/ nx[a] \in L /\ nx[a] > a /\ \A c \in L : c > a => nx[a] <= c
    BY <1>7 DEF Sorted
  <2>3. CASE a < q
    <3>1. q \in L /\ nx[a] \in L /\ nx[a] > a /\ nx[a] <= q
      BY <2>2, <2>3, <1>1, HeadBelow
    <3>2. \A c \in L : c > a => nx[a] <= c
      <4>1. nx[a] # NULL
        BY <3>1, <1>1
      <4> QED BY <4>1, <2>2
    <3>3. nx[a] <= h
      <4>1. nx[a] \in Nat /\ q \in Nat
        BY <3>1, <1>1
      <4> QED BY <3>1, <4>1, <1>1
    <3> QED BY <3>1, <3>2, <3>3, <2>1
  <2>4. CASE q < a
    <3>1. a \in L /\ h < a
      BY <2>4, <1>1, <1>3, <1>7, HeadBelow
    <3> QED BY <3>1, <2>1, <2>2, <1>1
  <2> QED BY <2>3, <2>4, <1>1, <1>7
<1> QED BY <1>5, <1>6, <1>7

(* The list with block h in the place of block b behind q.                  *)
LEMMA SortedReplace ==
  ASSUME NEW L \in SUBSET Addr, NEW nx, NEW new, Sorted(nx, L),
         NEW q \in L \cup {HEAD}, NEW b \in L, nx[q] = b, NEW h \in Addr \ L,
         q < h, nx[b] = NULL \/ h < nx[b], new[q] = h, new[h] = nx[b],
         \A a \in (L \ {b}) \cup {HEAD} : a # q => new[a] = nx[a]
  PROVE  Sorted(new, (L \ {b}) \cup {h})
<1> DEFINE mid == [a \in L \cup {HEAD} |-> IF a = q THEN nx[b] ELSE nx[a]]
<1>0. q # b
  BY HeadBelow DEF Sorted
<1>1. Sorted(mid, L \ {b})
  BY SortedRemove
<1>2. mid[q] = nx[b] /\ \A a \in (L \ {b}) \cup {HEAD} : a # q => new[a] = mid[a]
  OBVIOUS
<1> HIDE DEF mid
<1>3. L \ {b} \in SUBSET Addr /\ q \in (L \ {b}) \cup {HEAD} /\ h \in Addr \ (L \ {b})
  BY <1>0
<1>4. (mid[q] = NULL \/ h < mid[q]) /\ new[h] = mid[q]
  BY <1>2
<1> QED BY <1>1, <1>2, <1>3, <1>4, SortedInsert

(* What a walk at q finds: q's successor is free, and the first behind q.   *)
LEMMA WalkSees ==
  ASSUME HeapInv, NEW q \in list \cup {HEAD}, next[q] # NULL
  PROVE  /\ next[q] \in list /\ next[q] \in Addr /\ next[q] \in Blocks /\ q < next[q]
         /\ \A c \in list : c > q => next[q] <= c
BY DEF HeapInv, TypeOK, Sorted, Blocks

(* A call that walked the list releases the mutex and returns: what is left *)
(* to show of the types, and nothing of the other calls in progress.        *)
LEMMA UnlockKeeps ==
  ASSUME TypeOK, CallsGood, NEW t \in Threads, pc[t] \in {"alloc_walk", "free_walk"},
         mtx' = Nobody, pc' = [pc EXCEPT ![t] = "idle"],
         UNCHANGED <<nextmem, size, qp, hp, req>>,
         next' \in Links, hsize' \in Sizes,
         list' \subseteq Addr, used' \subseteq Addr, asked' \in [Addr -> Nat]
  PROVE  TypeOK' /\ CallsGood'
<1>1. \A u \in Threads : u # t => pc[u] \notin {"alloc_walk", "free_walk"}
  BY DEF TypeOK
<1>2. pc' \in [Threads -> Labels] /\ pc'[t] = "idle" /\ \A u \in Threads : u # t => pc'[u] = pc[u]
  BY DEF TypeOK, Labels
<1>3. \A u \in Threads : mtx' = u <=> pc'[u] \in {"alloc_walk", "free_walk"}
  BY <1>1, <1>2, HeapAssumption
<1>4. TypeOK'
  BY <1>2, <1>3 DEF TypeOK, Links, Sizes
<1>5. CallsGood'
  BY <1>1, <1>2 DEF CallsGood, allocLabels, Fits, MEM_ALIGN_NEXT, MEM_ALIGN_PREV
<1> QED BY <1>4, <1>5

-----------------------------------------------------------------------------
(* The part of the invariant that is about the memory.                      *)
MemoryGood ==
  /\ Tiled(Blocks, hsize, nextmem) /\ Sorted(next, list) /\ Apart(hsize, list)
  /\ hsize[HEAD] = 0
  /\ \A b \in used : next[b] = HEAD /\ hsize[b] >= asked[b]

(* A call that does not touch the memory leaves it as it is.                *)
LEMMA MemoryKept ==
  ASSUME MemoryGood, UNCHANGED heapVars, Blocks' = Blocks, used' \subseteq used,
         UNCHANGED asked
  PROVE  MemoryGood'
BY DEF MemoryGood, heapVars, Tiled, Sorted, Apart, End
=============================================================================

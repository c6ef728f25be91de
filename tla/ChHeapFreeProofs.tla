-------------------------- MODULE ChHeapFreeProofs --------------------------
(* Linking a freed block and merging it with its neighbours keeps the       *)
(* invariant of ChHeapLemmas.                                               *)
EXTENDS ChHeapLemmas

(* chHeapFree: block h is linked behind q and merged with the block that    *)
(* follows it (up) and the one that precedes it (down).                     *)
LEMMA FreeInsertKeeps ==
  ASSUME HeapInv, NEW t \in Threads, FreeInsert(t)
  PROVE  HeapInv'
<1> DEFINE h == hp[t]
           q == qp[t]
           n == next[q]
           up == End(hsize, h) = n
           down == End(hsize, q) = h
           size1 == IF up THEN hsize[h] + hsize[n] + HEADER ELSE hsize[h]
           next1 == IF up THEN next[n] ELSE n
           mid == [hsize EXCEPT ![h] = size1]
           link == [next EXCEPT ![h] = next1, ![q] = h]
           B1 == IF up THEN Blocks \ {n} ELSE Blocks
           L1 == IF up THEN (list \ {n}) \cup {h} ELSE list \cup {h}
<1>1. /\ pc[t] = "free_walk" /\ (n = NULL \/ h < n)
      /\ next' = [next EXCEPT ![h] = next1, ![q] = IF down THEN next1 ELSE h]
      /\ hsize' = [hsize EXCEPT ![h] = size1,
                                ![q] = IF down THEN @ + size1 + HEADER ELSE @]
      /\ list' = (list \cup {h}) \ ((IF up THEN {n} ELSE {}) \cup (IF down THEN {h} ELSE {}))
      /\ mtx' = Nobody /\ pc' = [pc EXCEPT ![t] = "idle"]
      /\ UNCHANGED <<nextmem, size, qp, hp, req, used, asked>>
  BY DEF FreeInsert, InsertsBehind, Adjacent, LIMIT, End, Goto, callVars
<1>2. /\ q \in list \cup {HEAD} /\ q < h /\ h \in Addr /\ h \notin list /\ h \notin used
      /\ h \in Freeing
      /\ \A u \in Threads : u # t /\ pc[u] \in freeLabels => hp[u] # h
  BY <1>1 DEF HeapInv, CallsGood, BlocksApart, freeLabels, Freeing
<1>3. /\ hsize \in Sizes /\ next \in Links /\ Tiled(Blocks, hsize, nextmem)
      /\ list \in SUBSET Addr /\ Sorted(next, list) /\ Apart(hsize, list)
  BY DEF HeapInv, TypeOK, Sizes, Links
<1>4. h \in Blocks /\ h \in Nat /\ h # HEAD /\ q # h /\ q \in Nat /\ q \in Addr \cup {HEAD}
  BY <1>2, <1>3, HeadBelow DEF Blocks
<1>5. \A a \in Blocks : a \in Addr /\ a \in Nat /\ hsize[a] \in Nat /\ End(hsize, a) \in Nat /\ End(hsize, a) > a
  BY <1>3, HeadBelow, HeapAssumption DEF End, Sizes, Tiled
<1>6. n # NULL => /\ n \in list /\ n \in Addr /\ n \in Blocks /\ n \in Nat /\ h < n /\ q < n
                  /\ n # h /\ n # q /\ \A c \in list : c > q => n <= c
  <2> SUFFICES ASSUME n # NULL
               PROVE  /\ n \in list /\ n \in Addr /\ n \in Blocks /\ n \in Nat /\ h < n /\ q < n
                      /\ n # h /\ n # q /\ \A c \in list : c > q => n <= c
    OBVIOUS
  <2>1. n \in list /\ n \in Addr /\ n \in Blocks /\ q < n /\ \A c \in list : c > q => n <= c
    BY <1>2, WalkSees
  <2> QED BY <2>1, <1>1, <1>2, <1>4, <1>5
<1>7. up => n # NULL
  BY <1>4, <1>5, HeadBelow
<1>8. down => q \in list /\ q \in Blocks /\ q \in Addr
  <2>1. End(hsize, HEAD) < h
    BY <1>2, HeadBelow, HeapAssumption DEF HeapInv, End
  <2>2. down => q # HEAD
    BY <2>1, <1>4
  <2> QED BY <2>2, <1>2, <1>3 DEF Blocks
<1>9. size1 \in Nat /\ next1 \in Link
  BY <1>3, <1>4, <1>5, <1>6, <1>7, HeapAssumption DEF Links
<1> HIDE DEF size1, next1
<1>10. /\ mid \in Sizes /\ mid[h] = size1
       /\ \A a \in Addr \cup {HEAD} : a # h => mid[a] = hsize[a]
  <2>1. h \in Addr /\ hsize \in Sizes /\ size1 \in Nat
    BY <1>2, <1>3, <1>9
  <2> HIDE DEF h
  <2> QED BY <2>1 DEF Sizes
<1>11. /\ hsize' \in Sizes
       /\ hsize'[h] = size1
       /\ hsize'[q] = IF down THEN hsize[q] + size1 + HEADER ELSE hsize[q]
       /\ \A a \in Addr \cup {HEAD} : a # h /\ a # q => hsize'[a] = hsize[a]
  <2>1. hsize[q] \in Nat /\ hsize[q] + size1 + HEADER \in Nat
    BY <1>3, <1>4, <1>9, HeapAssumption DEF Sizes
  <2> QED BY <1>1, <1>2, <1>3, <1>4, <1>9, <2>1 DEF Sizes
<1>12. /\ next' \in Links
       /\ next'[q] = (IF down THEN next1 ELSE h) /\ next'[h] = next1
       /\ \A a \in Addr \cup {HEAD} : a # h /\ a # q => next'[a] = next[a]
  <2>1. h \in Link
    BY <1>2 DEF Link
  <2> QED BY <1>1, <1>2, <1>3, <1>4, <1>9, <2>1 DEF Links
<1>13. /\ link[q] = h /\ link[h] = next1
       /\ \A a \in Addr \cup {HEAD} : a # h /\ a # q => link[a] = next[a]
  BY <1>2, <1>3, <1>4 DEF Links
<1>14. Freeing' = Freeing \ {h}
  BY <1>1, <1>2 DEF HeapInv, TypeOK, Freeing, freeLabels
<1>15. n # NULL => n \notin used /\ n \notin Freeing
  BY <1>6 DEF HeapInv, BlocksApart, Freeing, freeLabels
<1>16. Blocks' = IF down THEN B1 \ {h} ELSE B1
  BY <1>1, <1>2, <1>7, <1>14, <1>15 DEF Blocks
<1> HIDE DEF mid, link
<1>17. Tiled(B1, mid, nextmem)
  <2>1. CASE up
    <3>1. n \in Blocks /\ n \in Nat /\ hsize[n] \in Nat /\ hsize[h] \in Nat
      BY <2>1, <1>4, <1>5, <1>6, <1>7
    <3>2. End(mid, h) = End(hsize, n)
      BY <2>1, <3>1, <1>4, <1>10, HeapAssumption DEF End, size1
    <3>3. \A c \in Blocks : c # h /\ c # n => mid[c] = hsize[c]
      BY <1>5, <1>10
    <3>4. End(hsize, h) = n
      BY <2>1
    <3> HIDE DEF h, n
    <3>5. /\ hsize \in Sizes /\ mid \in Sizes /\ Tiled(Blocks, hsize, nextmem)
          /\ h \in Blocks /\ n \in Blocks
      BY <1>3, <1>4, <1>10, <3>1
    <3>6. Tiled(Blocks \ {n}, mid, nextmem)
      BY <3>2, <3>3, <3>4, <3>5, TiledMerge
    <3> QED BY <2>1, <3>6
  <2>2. CASE ~up
    <3>1. \A a \in Blocks : hsize[a] = mid[a]
      BY <2>2, <1>5, <1>10 DEF size1
    <3> QED BY <2>2, <3>1, <1>3, TiledSame
  <2> QED BY <2>1, <2>2
<1>18. Tiled(Blocks', hsize', nextmem')
  <2>1. B1 \subseteq Blocks /\ h \in B1
    BY <1>4, <1>6, <1>7
  <2>2. CASE down
    <3>1. q \in B1 /\ hsize[q] \in Nat
      BY <2>2, <1>5, <1>6, <1>7, <1>8
    <3>2. End(mid, q) = h
      BY <2>2, <1>4, <1>10 DEF End
    <3>3. End(hsize', q) = End(mid, h)
      <4>1. q + HEADER + hsize[q] = h
        BY <2>2 DEF End
      <4>2. hsize'[q] = hsize[q] + size1 + HEADER /\ mid[h] = size1
        BY <2>2, <1>10, <1>11
      <4> HIDE DEF h, q, down
      <4> QED BY <4>1, <4>2, <3>1, <1>4, <1>9, HeapAssumption DEF End
    <3>4. \A c \in B1 : c # q /\ c # h => hsize'[c] = mid[c]
      BY <2>1, <1>5, <1>10, <1>11
    <3> HIDE DEF h, q, B1
    <3>5. Tiled(B1 \ {h}, hsize', nextmem)
      BY <1>10, <1>11, <1>17, <2>1, <3>1, <3>2, <3>3, <3>4, TiledMerge
    <3> QED BY <2>2, <3>5, <1>1, <1>16
  <2>3. CASE ~down
    <3>1. \A a \in B1 : mid[a] = hsize'[a]
      BY <2>1, <2>3, <1>4, <1>5, <1>10, <1>11
    <3>2. Tiled(B1, hsize', nextmem)
      BY <3>1, <1>17, TiledSame
    <3> QED BY <2>3, <3>2, <1>1, <1>16
  <2> QED BY <2>2, <2>3
<1>19. Sorted(link, L1)
  <2>1. h \in Addr \ list
    BY <1>2
  <2>2. CASE up
    <3>1. n \in list /\ n # h
      BY <2>2, <1>6, <1>7
    <3>2. next[n] = NULL \/ h < next[n]
      <4> SUFFICES ASSUME next[n] # NULL PROVE h < next[n]
        OBVIOUS
      <4>1. next[n] \in Addr /\ n < next[n]
        BY <3>1, WalkSees
      <4>2. n \in Nat /\ h < n /\ next[n] \in Nat
        BY <2>2, <4>1, <1>6, <1>7, HeadBelow
      <4> QED BY <4>1, <4>2, <1>4
    <3>3. link[h] = next[n]
      BY <2>2, <1>13 DEF next1
    <3>4. \A a \in (list \ {n}) \cup {HEAD} : a # q => link[a] = next[a]
      BY <1>2, <1>3, <1>4, <1>13
    <3>5. next[q] = n /\ q < h /\ link[q] = h
      BY <1>2, <1>13
    <3> HIDE DEF h, q, n
    <3>6. Sorted(link, (list \ {n}) \cup {h})
      BY <1>2, <1>3, <2>1, <3>1, <3>2, <3>3, <3>4, <3>5, SortedReplace
    <3> QED BY <2>2, <3>6
  <2>3. CASE ~up
    <3>1. link[h] = next[q] /\ link[q] = h /\ q < h /\ (next[q] = NULL \/ h < next[q])
      BY <2>3, <1>1, <1>2, <1>13 DEF next1
    <3>2. \A a \in list \cup {HEAD} : a # q => link[a] = next[a]
      BY <1>2, <1>3, <1>4, <1>13
    <3> HIDE DEF h, q
    <3>3. Sorted(link, list \cup {h})
      BY <1>2, <1>3, <2>1, <3>1, <3>2, SortedInsert
    <3> QED BY <2>3, <3>3
  <2> QED BY <2>2, <2>3
<1>20. Sorted(next', list')
  <2>1. L1 \in SUBSET Addr /\ h \in L1 /\ q \in L1 \cup {HEAD}
    BY <1>2, <1>3, <1>6, <1>7
  <2>2. CASE down
    <3>1. list' = L1 \ {h}
      BY <2>2, <1>1, <1>2, <1>6, <1>7
    <3>2. link[q] = h /\ next'[q] = link[h]
      BY <2>2, <1>12, <1>13
    <3>3. \A a \in (L1 \ {h}) \cup {HEAD} : a # q => next'[a] = link[a]
      BY <2>1, <1>4, <1>12, <1>13
    <3> HIDE DEF h, q, L1
    <3> QED BY <1>19, <2>1, <3>1, <3>2, <3>3, SortedRemove
  <2>3. CASE ~down
    <3>1. list' = L1
      BY <2>3, <1>1, <1>2, <1>6, <1>7
    <3>2. \A a \in L1 \cup {HEAD} : next'[a] = link[a]
      BY <2>1, <2>3, <1>12, <1>13
    <3> HIDE DEF L1
    <3> QED BY <1>19, <3>1, <3>2 DEF Sorted
  <2> QED BY <2>2, <2>3
<1>21. Apart(hsize', list')
  <2> DEFINE E == IF up THEN End(hsize, n) ELSE End(hsize, h)
  <2>1. E # h /\ \A d \in list : E # d
    <3>1. CASE up
      <4>1. n \in list /\ End(hsize, n) > n /\ h < n /\ n \in Nat /\ End(hsize, n) \in Nat
        BY <3>1, <1>5, <1>6, <1>7
      <4> QED BY <3>1, <4>1, <1>3, <1>4 DEF Apart
    <3>2. CASE ~up
      <4>1. End(hsize, h) > h
        BY <1>4, <1>5
      <4>2. ASSUME NEW d \in list, End(hsize, h) = d PROVE FALSE
        <5>1. d \in Nat /\ d > h /\ d > q /\ d \in Blocks
          BY <4>1, <4>2, <1>2, <1>3, <1>4, HeadBelow DEF Blocks
        <5>2. n # NULL
          BY <5>1, <1>2, <1>3, <1>4, HeadBelow DEF Sorted
        <5>3. n <= d /\ n # d /\ n \in Nat /\ n \in Blocks /\ h < n
          BY <5>1, <5>2, <4>2, <3>2, <1>6
        <5>4. End(hsize, h) <= n
          BY <5>3, <1>3, <1>4 DEF Tiled
        <5> QED BY <5>1, <5>3, <5>4, <4>2
      <4> QED BY <3>2, <4>1, <4>2, <1>4
    <3> QED BY <3>1, <3>2
  <2>2. ASSUME NEW c \in list, c # q, End(hsize, c) = h PROVE FALSE
    <3>1. c \in Blocks /\ c \in Nat /\ c < h
      BY <2>2, <1>5 DEF Blocks
    <3>2. CASE c > q
      <4>1. n # NULL
        BY <3>1, <3>2, <1>2, <1>3, <1>4, HeadBelow DEF Sorted
      <4>2. n <= c /\ n \in Nat /\ h < n
        BY <4>1, <3>2, <1>6
      <4> QED BY <4>2, <3>1, <1>4
    <3>3. CASE c < q
      <4>1. q \in list /\ q \in Blocks
        BY <3>1, <3>3, <1>2, <1>3, <1>4, HeadBelow DEF Blocks
      <4>2. End(hsize, c) <= q
        BY <3>1, <3>3, <4>1, <1>3 DEF Tiled
      <4> QED BY <4>2, <2>2, <1>2, <1>4
    <3> QED BY <3>1, <3>2, <3>3, <2>2, <1>4
  <2>3. End(hsize', h) = E
    <3>1. CASE up
      <4>1. n \in Nat /\ hsize[n] \in Nat /\ hsize[h] \in Nat /\ h + HEADER + hsize[h] = n
        BY <3>1, <1>4, <1>5, <1>6, <1>7 DEF End
      <4>2. hsize'[h] = hsize[h] + hsize[n] + HEADER
        BY <3>1, <1>11 DEF size1
      <4>3. h + HEADER + hsize'[h] = n + HEADER + hsize[n]
        <5> HIDE DEF h, n
        <5> QED BY <4>1, <4>2, <1>4, HeapAssumption
      <4> QED BY <3>1, <4>3 DEF End
    <3>2. CASE ~up
      BY <3>2, <1>11 DEF End, size1
    <3> QED BY <3>1, <3>2
  <2>4. down => End(hsize', q) = E
    <3> SUFFICES ASSUME down PROVE End(hsize', q) = End(hsize', h)
      BY <2>3
    <3>1. q + HEADER + hsize[q] = h /\ hsize[q] \in Nat
      BY <1>5, <1>8 DEF End
    <3>2. hsize'[q] = hsize[q] + size1 + HEADER /\ hsize'[h] = size1
      BY <1>11
    <3> HIDE DEF h, q, down
    <3> QED BY <3>1, <3>2, <1>4, <1>9, HeapAssumption DEF End
  <2>5. \A c \in list : c # q \/ ~down => End(hsize', c) = End(hsize, c)
    BY <1>2, <1>3, <1>11 DEF End
  <2>6. list' \subseteq list \cup {h} /\ (down => h \notin list')
    BY <1>1
  <2> SUFFICES ASSUME NEW c \in list', NEW d \in list', End(hsize', c) = d PROVE FALSE
    BY DEF Apart
  <2>7. CASE c = h \/ (c = q /\ down)
    BY <2>1, <2>3, <2>4, <2>6, <2>7
  <2>8. CASE ~(c = h \/ (c = q /\ down))
    <3>1. c \in list /\ End(hsize, c) = d
      BY <2>5, <2>6, <2>8
    <3>2. d = h
      BY <3>1, <2>6, <1>3 DEF Apart
    <3>3. c = q
      BY <3>1, <3>2, <2>2
    <3> QED BY <3>1, <3>2, <3>3, <2>8
  <2> QED BY <2>7, <2>8
<1>22. hsize'[HEAD] = 0
  <2>1. CASE q = HEAD
    <3>1. ~down
      BY <2>1, <1>3, <1>8, HeadBelow
    <3> QED BY <2>1, <3>1, <1>11 DEF HeapInv
  <2>2. CASE q # HEAD
    BY <2>2, <1>4, <1>11 DEF HeapInv
  <2> QED BY <2>1, <2>2
<1>23. \A b \in used' : next'[b] = HEAD /\ hsize'[b] >= asked'[b]
  <2>1. \A b \in used : b \in Addr /\ b # h /\ b # q
    BY <1>2, HeadBelow DEF HeapInv, TypeOK, BlocksApart
  <2>2. \A b \in used : next[b] = HEAD /\ hsize[b] >= asked[b]
    BY DEF HeapInv
  <2>3. used' = used /\ asked' = asked
    BY <1>1
  <2>4. \A b \in used : next'[b] = next[b] /\ hsize'[b] = hsize[b]
    <3> HIDE DEF h, q
    <3> QED BY <2>1, <1>11, <1>12
  <2> QED BY <2>2, <2>3, <2>4
<1>24. list' \subseteq list \cup {h}
  BY <1>1
<1>25. list' \subseteq Addr
  BY <1>2, <1>3, <1>24
<1>26. TypeOK' /\ CallsGood'
  <2>1. /\ pc[t] \in {"alloc_walk", "free_walk"} /\ mtx' = Nobody
        /\ pc' = [pc EXCEPT ![t] = "idle"]
        /\ UNCHANGED <<nextmem, size, qp, hp, req>> /\ UNCHANGED <<used, asked>>
    BY <1>1
  <2>2. TypeOK /\ CallsGood /\ used' \subseteq Addr /\ asked' \in [Addr -> Nat]
    BY <2>1 DEF HeapInv, TypeOK
  <2>3. next' \in Links /\ hsize' \in Sizes
    BY <1>11, <1>12
  <2> QED BY <1>25, <2>1, <2>2, <2>3, UnlockKeeps
<1>27. BlocksApart'
  BY <1>1, <1>2, <1>24 DEF HeapInv, TypeOK, BlocksApart, freeLabels
<1> QED
  BY <1>18, <1>20, <1>21, <1>22, <1>23, <1>26, <1>27 DEF HeapInv
=============================================================================

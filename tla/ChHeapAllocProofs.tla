-------------------------- MODULE ChHeapAllocProofs -------------------------
(* Taking a block, whole or split, keeps the invariant of ChHeapLemmas.     *)
EXTENDS ChHeapLemmas

(* chHeapAlloc: the block behind q is taken, whole or split.                *)
LEMMA AllocTakeKeeps ==
  ASSUME HeapInv, NEW t \in Threads, AllocTake(t)
  PROVE  HeapInv'
<1> DEFINE q == qp[t]
           b == next[q]
           s == size[t]
           fp == b + HEADER + s
<1>1. /\ pc[t] = "alloc_walk" /\ b # NULL /\ hsize[b] >= s
      /\ mtx' = Nobody /\ pc' = [pc EXCEPT ![t] = "idle"]
      /\ used' = used \cup {b} /\ asked' = [asked EXCEPT ![b] = req[t]]
      /\ UNCHANGED <<nextmem, size, qp, hp, req>>
  BY DEF AllocTake, Return, Goto, callVars
<1>2. q \in list \cup {HEAD} /\ s \in Nat /\ req[t] \in Nat /\ req[t] <= s
      /\ (s + HEADER) % SIZE_MODULUS = s + HEADER
  BY <1>1 DEF HeapInv, TypeOK, CallsGood, allocLabels, Fits
<1>3. b \in list /\ b \in Addr /\ b \in Blocks /\ b \in Nat /\ q < b /\ b # HEAD
      /\ \A c \in list : c > q => b <= c
  BY <1>1, <1>2, WalkSees, HeadBelow
<1>4. hsize \in Sizes /\ next \in Links /\ Tiled(Blocks, hsize, nextmem) /\ list \in SUBSET Addr
      /\ Sorted(next, list) /\ Apart(hsize, list)
  BY DEF HeapInv, TypeOK, Sizes, Links
<1>5. q # b /\ q \in Addr \cup {HEAD}
  BY <1>2, <1>3, <1>4, HeadBelow
<1>6. b \notin used /\ \A u \in Threads : pc[u] \in freeLabels => hp[u] # b
  BY <1>3 DEF HeapInv, BlocksApart
<1>7. Freeing' = Freeing
  BY <1>1 DEF HeapInv, TypeOK, Freeing
<1>8. /\ pc[t] \in {"alloc_walk", "free_walk"} /\ used' \subseteq Addr
      /\ asked' \in [Addr -> Nat]
  BY <1>1, <1>2, <1>3 DEF HeapInv, TypeOK
<1>9. CASE /\ next' = [next EXCEPT ![q] = next[b], ![b] = HEAD]
           /\ list' = list \ {b} /\ UNCHANGED hsize
  <2>1. /\ next' \in Links /\ next'[q] = next[b] /\ next'[b] = HEAD
        /\ \A a \in Addr \cup {HEAD} : a # q /\ a # b => next'[a] = next[a]
    BY <1>3, <1>4, <1>5, <1>9 DEF Links, Link
  <2>2. list' \subseteq Addr /\ hsize' \in Sizes
    BY <1>4, <1>9
  <2>3. TypeOK' /\ CallsGood'
    BY <1>1, <1>8, <2>1, <2>2, UnlockKeeps DEF HeapInv
  <2>4. BlocksApart'
    BY <1>1, <1>6, <1>9 DEF HeapInv, TypeOK, BlocksApart, freeLabels
  <2>5. Blocks' = Blocks
    BY <1>1, <1>3, <1>7, <1>9 DEF Blocks
  <2>6. Sorted(next', list')
    <3>1. \A a \in (list \ {b}) \cup {HEAD} : a # q => next'[a] = next[a]
      BY <1>3, <1>4, <2>1
    <3> QED BY <1>2, <1>3, <1>4, <1>9, <2>1, <3>1, SortedRemove
  <2>7. Apart(hsize', list')
    BY <1>4, <1>9 DEF Apart
  <2>8. \A c \in used' : next'[c] = HEAD /\ hsize'[c] >= asked'[c]
    <3>1. \A c \in used : c \in Addr /\ c # b /\ c # q /\ asked'[c] = asked[c]
      BY <1>1, <1>2, <1>6, HeadBelow DEF HeapInv, TypeOK, BlocksApart
    <3>2. asked'[b] = req[t] /\ hsize[b] \in Nat
      BY <1>1, <1>3, <1>4 DEF HeapInv, TypeOK, Sizes
    <3>3. \A c \in used : next[c] = HEAD /\ hsize[c] >= asked[c]
      BY DEF HeapInv
    <3>4. hsize'[b] >= asked'[b]
      BY <1>1, <1>2, <1>9, <3>2
    <3> QED BY <1>1, <1>9, <2>1, <3>1, <3>3, <3>4
  <2> QED
    BY <1>1, <1>4, <1>9, <2>3, <2>4, <2>5, <2>6, <2>7, <2>8 DEF HeapInv
<1>10. CASE /\ hsize[b] >= s + HEADER
            /\ next' = [next EXCEPT ![q] = fp, ![fp] = next[b], ![b] = HEAD]
            /\ hsize' = [hsize EXCEPT ![fp] = (hsize[b] - HEADER) - s, ![b] = s]
            /\ list' = (list \ {b}) \cup {fp}
  <2>1. /\ fp \in Addr /\ fp \notin Blocks /\ fp > b /\ hsize' \in Sizes /\ hsize'[b] = s
        /\ \A a \in Addr \cup {HEAD} : a # b /\ a # fp => hsize'[a] = hsize[a]
        /\ End(hsize', fp) = End(hsize, b)
        /\ Tiled(Blocks \cup {fp}, hsize', nextmem)
    <3>1. fp \in Addr /\ fp \notin Blocks /\ fp > b
      BY <1>2, <1>3, <1>4, <1>10, SplitPoint
    <3>2. (hsize[b] - HEADER) - s \in Nat /\ fp # b
      BY <1>2, <1>3, <1>4, <1>10, <3>1, HeapAssumption DEF Sizes
    <3>3. /\ hsize' \in Sizes /\ hsize'[b] = s /\ hsize'[fp] = (hsize[b] - HEADER) - s
          /\ \A a \in Addr \cup {HEAD} : a # b /\ a # fp => hsize'[a] = hsize[a]
      BY <1>2, <1>3, <1>4, <1>10, <3>1, <3>2 DEF Sizes
    <3>4. \A a \in Blocks : a # b => hsize'[a] = hsize[a]
      BY <1>4, <3>1, <3>3 DEF Tiled
    <3>5. End(hsize', fp) = End(hsize, b) /\ Tiled(Blocks \cup {fp}, hsize', nextmem)
      <4>1. fp = b + HEADER + s /\ hsize[b] >= s + HEADER
        BY <1>10
      <4>2. /\ hsize \in Sizes /\ hsize' \in Sizes /\ Tiled(Blocks, hsize, nextmem)
            /\ b \in Blocks /\ s \in Nat
            /\ hsize'[b] = s /\ hsize'[fp] = (hsize[b] - HEADER) - s
        BY <1>2, <1>3, <1>4, <3>3
      <4> HIDE DEF b, s, fp
      <4> QED BY <3>4, <4>1, <4>2, TiledSplit
    <3> QED BY <3>1, <3>3, <3>5
  <2>2. fp \notin list /\ fp \notin used /\ fp # HEAD /\ fp # b /\ fp # q /\ fp \in Nat
        /\ \A u \in Threads : pc[u] \in freeLabels => hp[u] # fp
    <3>1. fp \in Addr /\ fp \notin Blocks /\ fp > b
      BY <2>1
    <3>2. fp # HEAD /\ fp # b /\ fp \in Nat
      BY <1>3, <3>1, HeadBelow
    <3>3. fp \notin list /\ fp \notin used
      BY <3>1 DEF Blocks
    <3>4. \A u \in Threads : pc[u] \in freeLabels => hp[u] # fp
      BY <3>1 DEF Blocks, Freeing, freeLabels
    <3> QED BY <1>2, <3>2, <3>3, <3>4
  <2>3. /\ next' \in Links /\ next'[q] = fp /\ next'[fp] = next[b] /\ next'[b] = HEAD
        /\ \A a \in Addr \cup {HEAD} : a # q /\ a # b /\ a # fp => next'[a] = next[a]
    <3>1. /\ q \in Addr \cup {HEAD} /\ b \in Addr \cup {HEAD} /\ fp \in Addr \cup {HEAD}
          /\ q # b /\ q # fp /\ b # fp /\ fp \in Link /\ HEAD \in Link
      BY <1>3, <1>5, <2>1, <2>2 DEF Link
    <3>2. next[b] \in Link
      BY <1>3, <1>4 DEF Links
    <3>3. next' = [next EXCEPT ![q] = fp, ![fp] = next[b], ![b] = HEAD] /\ next \in Links
      BY <1>4, <1>10
    <3> HIDE DEF q, b, fp
    <3> QED BY <3>1, <3>2, <3>3 DEF Links
  <2>4. list' \subseteq Addr
    BY <1>4, <1>10, <2>1
  <2>5. TypeOK' /\ CallsGood'
    BY <1>1, <1>8, <2>1, <2>3, <2>4, UnlockKeeps DEF HeapInv
  <2>6. BlocksApart'
    BY <1>1, <1>6, <1>10, <2>2 DEF HeapInv, TypeOK, BlocksApart, freeLabels
  <2>7. Blocks' = Blocks \cup {fp}
    BY <1>1, <1>3, <1>7, <1>10 DEF Blocks
  <2>8. Sorted(next', list')
    <3>1. \A a \in (list \ {b}) \cup {HEAD} : a # q => next'[a] = next[a]
      BY <1>3, <1>4, <2>2, <2>3
    <3>2. q < fp
      BY <1>3, <1>5, <2>1, <2>2, HeadBelow
    <3>3. next[b] = NULL \/ fp < next[b]
      <4> SUFFICES ASSUME next[b] # NULL PROVE fp < next[b]
        OBVIOUS
      <4>1. next[b] \in list /\ next[b] \in Blocks /\ b < next[b]
        BY <1>3, WalkSees
      <4>2. End(hsize, b) <= next[b]
        BY <1>3, <1>4, <4>1 DEF Tiled
      <4> QED BY <1>2, <1>3, <1>4, <1>10, <4>1, <4>2, HeadBelow, HeapAssumption DEF End, Sizes
    <3>4. fp \in Addr \ list
      BY <2>1, <2>2
    <3>5. next[q] = b /\ next'[q] = fp /\ next'[fp] = next[b]
      BY <2>3
    <3> HIDE DEF q, b, fp
    <3>6. Sorted(next', (list \ {b}) \cup {fp})
      BY <1>2, <1>3, <1>4, <3>1, <3>2, <3>3, <3>4, <3>5, SortedReplace
    <3> QED BY <1>10, <3>6
  <2>9. Apart(hsize', list')
    <3> SUFFICES ASSUME NEW c \in list', NEW d \in list', End(hsize', c) = d PROVE FALSE
      BY DEF Apart
    <3>1. \A x \in Blocks : x \in Nat /\ x # fp
      BY <1>4, <2>1, HeadBelow DEF Tiled
    <3>2. CASE c = fp
      <4>1. CASE d = fp
        BY <3>2, <4>1, <2>1, <2>2, HeapAssumption DEF End, Sizes
      <4>2. CASE d # fp
        BY <1>3, <1>4, <1>10, <2>1, <3>2, <4>2 DEF Apart
      <4> QED BY <4>1, <4>2
    <3>3. CASE c # fp
      <4>1. c \in list /\ c # b /\ c \in Blocks /\ End(hsize', c) = End(hsize, c)
        BY <1>4, <1>10, <2>1, <3>3 DEF End, Blocks
      <4>2. CASE d # fp
        BY <1>4, <1>10, <4>1, <4>2 DEF Apart
      <4>3. CASE d = fp
        <5>1. End(hsize', c) <= fp /\ c # fp
          BY <4>3, <2>2, <3>3
        <5>2. End(hsize, c) = fp /\ c < fp
          <6>1. hsize[c] \in Nat /\ c \in Nat
            BY <1>4, <4>1, <3>1 DEF Sizes
          <6> QED BY <6>1, <4>1, <4>3, <2>2, HeapAssumption DEF End
        <5>3. CASE c < b
          <6>1. End(hsize, c) <= b
            BY <5>3, <4>1, <1>3, <1>4 DEF Tiled
          <6> QED BY <6>1, <5>2, <2>1, <2>2, <1>3
        <5>4. CASE b < c
          <6>1. End(hsize, b) <= c
            BY <5>4, <4>1, <1>3, <1>4 DEF Tiled
          <6>2. End(hsize, b) > fp
            BY <1>2, <1>3, <1>4, <1>10, HeapAssumption DEF End, Sizes
          <6>3. End(hsize, b) \in Nat
            BY <1>3, <1>4, HeapAssumption DEF End, Sizes
          <6> QED BY <6>1, <6>2, <6>3, <5>2, <2>2, <3>1, <4>1
        <5> QED BY <5>3, <5>4, <4>1, <3>1, <1>3
      <4> QED BY <4>2, <4>3
    <3> QED BY <3>2, <3>3
  <2>10. hsize'[HEAD] = 0
    BY <1>3, <2>1, <2>2 DEF HeapInv
  <2>11. \A c \in used' : next'[c] = HEAD /\ hsize'[c] >= asked'[c]
    <3>1. \A c \in used : c \in Addr /\ c # b /\ c # q /\ c # fp /\ asked'[c] = asked[c]
      BY <1>1, <1>2, <1>6, <2>2, HeadBelow DEF HeapInv, TypeOK, BlocksApart
    <3>2. asked'[b] = req[t]
      BY <1>1, <1>3 DEF HeapInv, TypeOK
    <3>3. \A c \in used : next[c] = HEAD /\ hsize[c] >= asked[c]
      BY DEF HeapInv
    <3>4. hsize'[b] >= asked'[b]
      BY <1>2, <2>1, <3>2
    <3> QED BY <1>1, <2>1, <2>3, <3>1, <3>3, <3>4
  <2> QED
    BY <1>1, <2>1, <2>5, <2>6, <2>7, <2>8, <2>9, <2>10, <2>11 DEF HeapInv
<1> QED
  <2>1. hsize[b] \in Nat /\ HEADER \in Nat
    BY <1>3, <1>4, HeapAssumption DEF Sizes
  <2> QED BY <1>2, <1>9, <1>10, <2>1 DEF AllocTake, Rest
=============================================================================

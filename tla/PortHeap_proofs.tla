--------------------------- MODULE PortHeap_proofs ----------------------------
(***************************************************************************)
(* What is proved of the heap, for every size of it: prvHeapInit,          *)
(* pvPortMalloc and vPortFree keep its blocks a tiling of the memory, its  *)
(* list the free blocks in the order of their addresses, no two of them    *)
(* beside each other, and its count of free bytes what they hold (Sound).  *)
(*                                                                         *)
(* The walks along the list and the sum of the sizes are recursive.  What  *)
(* they find is shown with the least natural number that would be an       *)
(* exception: a recursion that ends has a value (WalkExists, SumsExist),   *)
(* and no place of the list, no set of blocks is the first to be wrong     *)
(* (WalkEnds, SumsAgree, SumsRemove).                                      *)
(***************************************************************************)
EXTENDS PortHeap, FiniteSetTheorems, WellFoundedInduction, TLAPS

-----------------------------------------------------------------------------
(* Least and greatest numbers.                                               *)

LEMMA NatOrder ==
    \E R : /\ IsWellFoundedOn(R, Nat)
           /\ \A x, y \in Nat : <<y, x>> \in R <=> y < x
<1> WITNESS OpToRel(<, Nat)
<1>1. IsWellFoundedOn(OpToRel(<, Nat), Nat)
  BY NatLessThanWellFounded
<1>2. \A x, y \in Nat : <<y, x>> \in OpToRel(<, Nat) <=> y < x
  BY DEF OpToRel
<1>3. QED
  BY <1>1, <1>2

LEMMA LeastNat ==
    ASSUME NEW T \in SUBSET Nat, T # {}
    PROVE  \E m \in T : \A n \in T : m <= n
<1>1. PICK R : /\ IsWellFoundedOn(R, Nat)
               /\ \A x, y \in Nat : <<y, x>> \in R <=> y < x
  BY NatOrder
<1>2. PICK m \in T : \A y \in T : <<y, m>> \notin R
  BY <1>1, WFMin, Zenon
<1>3. ASSUME NEW n \in T PROVE m <= n
  <2>1. m \in Nat /\ n \in Nat
    OBVIOUS
  <2>2. ~(n < m)
    BY <1>1, <1>2, <2>1, Zenon
  <2>3. QED
    BY <2>1, <2>2
<1>4. QED
  BY <1>3

LEMMA GreatestBelow ==
    ASSUME NEW T \in SUBSET Nat, T # {}, NEW limit \in Nat, \A n \in T : n <= limit
    PROVE  \E m \in T : \A n \in T : n <= m
<1> DEFINE D == {d \in Nat : \E n \in T : d = limit - n}
<1>1. \A n \in T : n \in Nat /\ limit - n \in D
  OBVIOUS
<1>2. D \in SUBSET Nat /\ D # {}
  BY <1>1
<1>3. PICK d \in D : \A e \in D : d <= e
  BY <1>2, LeastNat
<1>4. PICK m \in T : d = limit - m
  OBVIOUS
<1>5. ASSUME NEW n \in T PROVE n <= m
  <2>1. d <= limit - n
    BY <1>1, <1>3
  <2>2. QED
    BY <1>1, <1>4, <2>1
<1>6. QED
  BY <1>5

-----------------------------------------------------------------------------
(* The heap as it must be.                                                   *)

Tiles(size, end) == DOMAIN size \ {xStart, end}

\* The blocks fill the memory from Base to end without gap or overlap.
Tiling(size, end) ==
    /\ end \in Nat /\ Base < end
    /\ {xStart, Base, end} \subseteq DOMAIN size
    /\ DOMAIN size \subseteq {xStart} \cup Base..end
    /\ size \in [DOMAIN size -> Nat] /\ size[xStart] = 0
    /\ \A b \in Tiles(size, end) : size[b] > 0 /\ b + size[b] \in DOMAIN size
    /\ \A b, c \in Tiles(size, end) : b < c => b + size[b] <= c
    /\ \A c \in DOMAIN size : Base < c => \E b \in Tiles(size, end) : b + size[b] = c

\* The list visits all the blocks in free, in the order of their addresses.
Sorted(next, free, end) ==
    \A p \in free \cup {xStart} :
        /\ next[p] \in free \cup {end} /\ p < next[p]
        /\ \A f \in free \cup {end} : p < f => next[p] <= f

Listed(h, out) == FreeBlocks(h) \ out

\* A record with the fields of a heap.
HeapOf(size, next, owned, end, remaining, minimum) ==
    [xBlockSize |-> size, pxNextFreeBlock |-> next, owned |-> owned, pxEnd |-> end,
     xFreeBytesRemaining |-> remaining, xMinimumEverFreeBytesRemaining |-> minimum]

IsHeap(h) ==
    h = HeapOf(h.xBlockSize, h.pxNextFreeBlock, h.owned, h.pxEnd,
               h.xFreeBytesRemaining, h.xMinimumEverFreeBytesRemaining)

\* A heap as the code keeps it between its calls, except that some blocks which
\* are not allocated are not in the list (yet, or any more).
WellFormedBut(h, out) ==
    /\ IsHeap(h)
    /\ Tiling(h.xBlockSize, h.pxEnd)
    /\ h.owned \subseteq Blocks(h) /\ out \subseteq FreeBlocks(h)
    /\ h.pxNextFreeBlock \in [DOMAIN h.xBlockSize -> Nat]
    /\ Sorted(h.pxNextFreeBlock, Listed(h, out), h.pxEnd)
    /\ \A b \in DOMAIN h.xBlockSize \ (Listed(h, out) \cup out \cup {xStart}) :
        h.pxNextFreeBlock[b] = NULL
    /\ \A b \in Listed(h, out) : b + h.xBlockSize[b] \notin Listed(h, out)

\* Those blocks may still be linked to the list.
LinkedToList(h, out) ==
    \A b \in out :
        \/ h.pxNextFreeBlock[b] = NULL
        \/ /\ b < h.pxNextFreeBlock[b]
           /\ h.pxNextFreeBlock[b] \in Listed(h, out) \cup {h.pxEnd}

USE DEF xStart, Base, NULL, portBYTE_ALIGNMENT

-----------------------------------------------------------------------------
(* The record of a heap.                                                     *)

\* What pvPortMalloc stores once it has its block.
Allocated(h, next, owned, remaining, minimum) ==
    [h EXCEPT !.owned = owned, !.pxNextFreeBlock = next, !.xFreeBytesRemaining = remaining,
              !.xMinimumEverFreeBytesRemaining = minimum]

Redirected(next, p, q) == [next EXCEPT ![p] = q]

LEMMA HeapFields ==
    ASSUME NEW a, NEW b, NEW c, NEW d, NEW e, NEW f, NEW h, h = HeapOf(a, b, c, d, e, f)
    PROVE  /\ h.xBlockSize = a /\ h.pxNextFreeBlock = b /\ h.owned = c /\ h.pxEnd = d
           /\ h.xFreeBytesRemaining = e /\ h.xMinimumEverFreeBytesRemaining = f
           /\ IsHeap(h)
  BY DEF HeapOf, IsHeap

\* The updates of several fields that the operations make.
LEMMA HeapExcept ==
    ASSUME NEW h, IsHeap(h), NEW a, NEW b, NEW c, NEW e
    PROVE  /\ [h EXCEPT !.xBlockSize = a, !.pxNextFreeBlock = b]
                = HeapOf(a, b, h.owned, h.pxEnd, h.xFreeBytesRemaining,
                         h.xMinimumEverFreeBytesRemaining)
           /\ [h EXCEPT !.pxNextFreeBlock = b]
                = HeapOf(h.xBlockSize, b, h.owned, h.pxEnd, h.xFreeBytesRemaining,
                         h.xMinimumEverFreeBytesRemaining)
           /\ [h EXCEPT !.owned = c, !.xFreeBytesRemaining = e]
                = HeapOf(h.xBlockSize, h.pxNextFreeBlock, c, h.pxEnd, e,
                         h.xMinimumEverFreeBytesRemaining)
<1> DEFINE size == h.xBlockSize
           next == h.pxNextFreeBlock
           owned == h.owned
           end == h.pxEnd
           remaining == h.xFreeBytesRemaining
           minimum == h.xMinimumEverFreeBytesRemaining
<1>1. h = HeapOf(size, next, owned, end, remaining, minimum)
  BY DEF IsHeap
<1> HIDE DEF size, next, owned, end, remaining, minimum
<1> DEFINE same == HeapOf(size, next, owned, end, remaining, minimum)
<1>2. [[h EXCEPT !.xBlockSize = a] EXCEPT !.pxNextFreeBlock = b]
        = HeapOf(a, b, owned, end, remaining, minimum)
  <2>1. [same EXCEPT !.xBlockSize = a] = HeapOf(a, next, owned, end, remaining, minimum)
    BY DEF HeapOf
  <2>2. [HeapOf(a, next, owned, end, remaining, minimum) EXCEPT !.pxNextFreeBlock = b]
          = HeapOf(a, b, owned, end, remaining, minimum)
    BY DEF HeapOf
  <2>3. QED
    BY <1>1, <2>1, <2>2, Zenon
<1>3. [h EXCEPT !.pxNextFreeBlock = b] = HeapOf(size, b, owned, end, remaining, minimum)
  <2>1. [same EXCEPT !.pxNextFreeBlock = b] = HeapOf(size, b, owned, end, remaining, minimum)
    BY DEF HeapOf
  <2>2. QED
    BY <1>1, <2>1, Zenon
<1>4. [[h EXCEPT !.owned = c] EXCEPT !.xFreeBytesRemaining = e]
        = HeapOf(size, next, c, end, e, minimum)
  <2>1. [same EXCEPT !.owned = c] = HeapOf(size, next, c, end, remaining, minimum)
    BY DEF HeapOf
  <2>2. [HeapOf(size, next, c, end, remaining, minimum) EXCEPT !.xFreeBytesRemaining = e]
          = HeapOf(size, next, c, end, e, minimum)
    BY DEF HeapOf
  <2>3. QED
    BY <1>1, <2>1, <2>2, Zenon
<1>5. QED
  BY <1>2, <1>3, <1>4, Zenon DEF size, next, owned, end, remaining, minimum

LEMMA HeapAllocated ==
    ASSUME NEW h, IsHeap(h), NEW b, NEW c, NEW e, NEW f
    PROVE  Allocated(h, b, c, e, f) = HeapOf(h.xBlockSize, b, c, h.pxEnd, e, f)
<1> DEFINE size == h.xBlockSize
           next == h.pxNextFreeBlock
           owned == h.owned
           end == h.pxEnd
           remaining == h.xFreeBytesRemaining
           minimum == h.xMinimumEverFreeBytesRemaining
           same == HeapOf(size, next, owned, end, remaining, minimum)
<1>1. h = same
  BY DEF IsHeap
<1> HIDE DEF size, next, owned, end, remaining, minimum
<1>2. [[[[h EXCEPT !.owned = c] EXCEPT !.pxNextFreeBlock = b] EXCEPT !.xFreeBytesRemaining = e]
        EXCEPT !.xMinimumEverFreeBytesRemaining = f]
        = HeapOf(size, b, c, end, e, f)
  <2>1. [same EXCEPT !.owned = c] = HeapOf(size, next, c, end, remaining, minimum)
    BY DEF HeapOf
  <2>2. [HeapOf(size, next, c, end, remaining, minimum) EXCEPT !.pxNextFreeBlock = b]
          = HeapOf(size, b, c, end, remaining, minimum)
    BY DEF HeapOf
  <2>3. [HeapOf(size, b, c, end, remaining, minimum) EXCEPT !.xFreeBytesRemaining = e]
          = HeapOf(size, b, c, end, e, minimum)
    BY DEF HeapOf
  <2>4. [HeapOf(size, b, c, end, e, minimum) EXCEPT !.xMinimumEverFreeBytesRemaining = f]
          = HeapOf(size, b, c, end, e, f)
    BY DEF HeapOf
  <2>5. QED
    BY <1>1, <2>1, <2>2, <2>3, <2>4, Zenon
<1>3. Allocated(h, b, c, e, f) = HeapOf(size, b, c, end, e, f)
  BY <1>2, Zenon DEF Allocated
<1>4. QED
  BY <1>3, Zenon DEF size, end

-----------------------------------------------------------------------------
(* Blocks are merged and cut.                                                *)

\* Two blocks beside each other become one.
LEMMA MergeTiles ==
    ASSUME NEW size, NEW end, Tiling(size, end),
           NEW b \in Tiles(size, end), NEW c \in Tiles(size, end), b + size[b] = c
    PROVE  Tiling([x \in DOMAIN size \ {c} |-> IF x = b THEN size[b] + size[c] ELSE size[x]], end)
<1> DEFINE merged == [x \in DOMAIN size \ {c} |-> IF x = b THEN size[b] + size[c] ELSE size[x]]
<1> USE DEF Tiles, Tiling
<1>1. /\ end \in Nat /\ Base < end
      /\ \A x \in DOMAIN size : x \in Nat /\ size[x] \in Nat
      /\ b # c /\ Base <= b /\ b < c /\ c < end
  OBVIOUS
<1>2. /\ DOMAIN merged = DOMAIN size \ {c}
      /\ \A x \in DOMAIN merged : merged[x] = IF x = b THEN size[b] + size[c] ELSE size[x]
  OBVIOUS
<1> HIDE DEF merged
<1>3. /\ {xStart, Base, end} \subseteq DOMAIN merged
      /\ DOMAIN merged \subseteq {xStart} \cup Base..end
      /\ merged \in [DOMAIN merged -> Nat] /\ merged[xStart] = 0
  BY <1>1, <1>2 DEF merged
<1>4. \A x \in Tiles(merged, end) : merged[x] > 0 /\ x + merged[x] \in DOMAIN merged
  <2> SUFFICES ASSUME NEW x \in Tiles(merged, end)
               PROVE  merged[x] > 0 /\ x + merged[x] \in DOMAIN merged
    OBVIOUS
  <2>1. CASE x = b
    BY <1>1, <1>2, <2>1
  <2>2. CASE x # b
    <3>1. x \in Tiles(size, end) /\ merged[x] = size[x] /\ x # c
      BY <1>2, <2>2
    <3>2. x + size[x] # c
      BY <1>1, <2>2, <3>1
    <3>3. QED
      BY <1>2, <3>1, <3>2
  <2>3. QED
    BY <2>1, <2>2
<1>5. \A x, y \in Tiles(merged, end) : x < y => x + merged[x] <= y
  <2> SUFFICES ASSUME NEW x \in Tiles(merged, end), NEW y \in Tiles(merged, end), x < y
               PROVE  x + merged[x] <= y
    OBVIOUS
  <2>1. x \in Tiles(size, end) /\ y \in Tiles(size, end) /\ y # c
    BY <1>2
  <2>2. CASE x = b
    BY <1>1, <1>2, <2>1, <2>2
  <2>3. CASE x # b
    BY <1>2, <2>1, <2>3
  <2>4. QED
    BY <2>2, <2>3
<1>6. \A y \in DOMAIN merged : Base < y => \E x \in Tiles(merged, end) : x + merged[x] = y
  <2> SUFFICES ASSUME NEW y \in DOMAIN merged, Base < y
               PROVE  \E x \in Tiles(merged, end) : x + merged[x] = y
    OBVIOUS
  <2>1. PICK x \in Tiles(size, end) : x + size[x] = y
    BY <1>2
  <2>2. CASE x = c
    BY <1>1, <1>2, <2>1, <2>2
  <2>3. CASE x # c
    BY <1>1, <1>2, <2>1, <2>3
  <2>4. QED
    BY <2>2, <2>3
<1>7. Tiling(merged, end)
  BY <1>1, <1>3, <1>4, <1>5, <1>6
<1>8. QED
  BY <1>7 DEF merged

\* A block is cut in two.
LEMMA CutTile ==
    ASSUME NEW size, NEW end, Tiling(size, end),
           NEW b \in Tiles(size, end), NEW n \in Nat, 0 < n, n < size[b]
    PROVE  /\ b + n \notin DOMAIN size
           /\ Tiling([x \in DOMAIN size \cup {b + n} |->
                        IF x = b + n THEN size[b] - n ELSE IF x = b THEN n ELSE size[x]], end)
<1> DEFINE rest == b + n
           cut == [x \in DOMAIN size \cup {rest} |->
                        IF x = rest THEN size[b] - n ELSE IF x = b THEN n ELSE size[x]]
<1> USE DEF Tiles, Tiling
<1>1. /\ end \in Nat /\ Base < end
      /\ \A x \in DOMAIN size : x \in Nat /\ size[x] \in Nat
      /\ Base <= b /\ b < rest /\ rest < b + size[b] /\ b + size[b] <= end /\ rest \in Nat
  OBVIOUS
<1>2. rest \notin DOMAIN size
  <2>1. ASSUME rest \in DOMAIN size PROVE FALSE
    <3>1. rest \in Tiles(size, end)
      BY <1>1, <2>1
    <3>2. b + size[b] <= rest
      BY <1>1, <3>1
    <3>3. QED
      BY <1>1, <3>2
  <2>2. QED
    BY <2>1
<1>3. /\ DOMAIN cut = DOMAIN size \cup {rest}
      /\ cut[rest] = size[b] - n /\ cut[b] = n
      /\ \A x \in DOMAIN size \ {b} : cut[x] = size[x]
  BY <1>1, <1>2
<1> HIDE DEF cut, rest
<1>4. /\ {xStart, Base, end} \subseteq DOMAIN cut
      /\ DOMAIN cut \subseteq {xStart} \cup Base..end
      /\ cut \in [DOMAIN cut -> Nat] /\ cut[xStart] = 0
  <2>1. \A x \in DOMAIN cut : cut[x] \in Nat
    BY <1>1, <1>2, <1>3
  <2>2. cut = [x \in DOMAIN cut |-> cut[x]]
    BY DEF cut
  <2>3. QED
    BY <1>1, <1>3, <2>1, <2>2
<1>5. \A x \in Tiles(cut, end) : cut[x] > 0 /\ x + cut[x] \in DOMAIN cut
  <2> SUFFICES ASSUME NEW x \in Tiles(cut, end)
               PROVE  cut[x] > 0 /\ x + cut[x] \in DOMAIN cut
    OBVIOUS
  <2>1. CASE x = b
    BY <1>1, <1>3, <2>1 DEF rest
  <2>2. CASE x = rest
    BY <1>1, <1>3, <2>2 DEF rest
  <2>3. CASE x # b /\ x # rest
    BY <1>1, <1>3, <2>3
  <2>4. QED
    BY <2>1, <2>2, <2>3
<1>6. \A x, y \in Tiles(cut, end) : x < y => x + cut[x] <= y
  <2> SUFFICES ASSUME NEW x \in Tiles(cut, end), NEW y \in Tiles(cut, end), x < y
               PROVE  x + cut[x] <= y
    OBVIOUS
  <2>1. CASE x \notin {b, rest} /\ y \notin {b, rest}
    BY <1>1, <1>3, <2>1
  <2>2. CASE x = b
    BY <1>1, <1>3, <2>2 DEF rest
  <2>3. CASE x = rest
    BY <1>1, <1>3, <2>3 DEF rest
  <2>4. CASE x \notin {b, rest} /\ y = b
    BY <1>1, <1>3, <2>4
  <2>5. CASE x \notin {b, rest} /\ y = rest
    <3>1. x \in Tiles(size, end) /\ x # b /\ cut[x] = size[x]
      BY <1>3, <2>5
    <3>2. CASE x < b
      BY <1>1, <2>5, <3>1, <3>2
    <3>3. CASE b < x
      BY <1>1, <2>5, <3>1, <3>3
    <3>4. QED
      BY <1>1, <3>1, <3>2, <3>3
  <2>6. QED
    BY <2>1, <2>2, <2>3, <2>4, <2>5
<1>7. \A y \in DOMAIN cut : Base < y => \E x \in Tiles(cut, end) : x + cut[x] = y
  <2> SUFFICES ASSUME NEW y \in DOMAIN cut, Base < y
               PROVE  \E x \in Tiles(cut, end) : x + cut[x] = y
    OBVIOUS
  <2>1. CASE y = rest
    BY <1>1, <1>3, <2>1 DEF rest
  <2>2. CASE y # rest
    <3>1. PICK x \in Tiles(size, end) : x + size[x] = y
      BY <1>3, <2>2
    <3>2. CASE x = b
      BY <1>1, <1>3, <3>1, <3>2 DEF rest
    <3>3. CASE x # b
      BY <1>3, <3>1, <3>3
    <3>4. QED
      BY <3>2, <3>3
  <2>3. QED
    BY <2>1, <2>2
<1>8. Tiling(cut, end)
  BY <1>1, <1>4, <1>5, <1>6, <1>7
<1>9. QED
  BY <1>2, <1>8 DEF cut, rest

-----------------------------------------------------------------------------
(* The walks along the list.                                                 *)

\* A walk from place to place of S that ends at the first one in stop: what the
\* recursive functions of the heap compute.  L may hold places besides the list.
WalkPlaces(L, S, stop, next, limit) ==
    /\ L \in SUBSET Nat /\ S \in SUBSET L /\ limit \in Nat
    /\ \A p \in L : p <= limit
    /\ \A p \in L \ stop : next[p] \in S /\ p < next[p]
    /\ \A p \in S \ stop : \A q \in S : p < q => next[p] <= q

IsWalk(L, stop, next, walk) ==
    walk = [p \in L |-> IF p \in stop THEN p ELSE walk[next[p]]]

\* Such a function exists ...
LEMMA WalkExists ==
    ASSUME NEW L, NEW S, NEW stop, NEW next, NEW limit, WalkPlaces(L, S, stop, next, limit)
    PROVE  \E walk : IsWalk(L, stop, next, walk)
<1> USE DEF WalkPlaces
<1> DEFINE ends(p) == {q \in S \cap stop : p <= q}
           Ending(p, q) == q \in ends(p) /\ \A r \in ends(p) : q <= r
<1>1. \A p \in S : \E q : Ending(p, q)
  <2> SUFFICES ASSUME NEW p \in S PROVE \E q : Ending(p, q)
    OBVIOUS
  <2> DEFINE from == {q \in S : p <= q}
  <2>1. PICK m \in from : \A q \in from : q <= m
    <3>1. from \in SUBSET Nat /\ \A q \in from : q <= limit
      OBVIOUS
    <3>2. from # {}
      <4>1. p \in Nat
        OBVIOUS
      <4>2. p \in from
        BY <4>1
      <4>3. QED
        BY <4>2
    <3> HIDE DEF from
    <3>3. QED
      BY <3>1, <3>2, GreatestBelow
  <2>2. m \in stop
    <3>1. ASSUME m \notin stop PROVE FALSE
      <4>1. next[m] \in S /\ m < next[m] /\ m \in Nat /\ next[m] \in Nat /\ p \in Nat
        BY <3>1
      <4>2. next[m] \in from /\ m \in from
        BY <4>1
      <4>3. QED
        BY <2>1, <4>1, <4>2
    <3>2. QED
      BY <3>1
  <2>3. ends(p) \in SUBSET Nat /\ m \in ends(p)
    BY <2>1, <2>2
  <2>4. \E q \in ends(p) : \A r \in ends(p) : q <= r
    BY <2>3, LeastNat
  <2>5. QED
    BY <2>4
<1> DEFINE end(p) == CHOOSE q : Ending(p, q)
<1>2. \A p \in S : Ending(p, end(p))
  BY <1>1
<1>3. \A p \in S \cap stop : end(p) = p
  BY <1>2
<1>4. \A p \in S \ stop : end(p) = end(next[p])
  <2> SUFFICES ASSUME NEW p \in S \ stop PROVE end(p) = end(next[p])
    OBVIOUS
  <2>1. next[p] \in S /\ p < next[p] /\ p \in Nat /\ next[p] \in Nat
    OBVIOUS
  <2>2. \A q \in S \cap stop : p <= q <=> next[p] <= q
    <3> SUFFICES ASSUME NEW q \in S \cap stop PROVE p <= q <=> next[p] <= q
      OBVIOUS
    <3>1. q \in Nat /\ q # p
      OBVIOUS
    <3>2. p < q => next[p] <= q
      OBVIOUS
    <3>3. QED
      BY <2>1, <3>1, <3>2
  <2>3. \A q : Ending(p, q) <=> Ending(next[p], q)
    BY <2>2
  <2>4. QED
    BY <2>3
<1> HIDE DEF Ending, end, ends
<1> DEFINE g == [p \in L |-> IF p \in stop THEN p
                             ELSE IF p \in S THEN end(p) ELSE end(next[p])]
<1>5. g = [p \in L |-> IF p \in stop THEN p ELSE g[next[p]]]
  <2>1. \A p \in L \ stop : g[next[p]] = end(next[p])
    BY <1>3
  <2>2. \A p \in L : g[p] = IF p \in stop THEN p ELSE g[next[p]]
    BY <1>4, <2>1
  <2>3. QED
    BY <2>2, Zenon
<1>6. QED
  BY <1>5 DEF IsWalk

\* ... and ends at the first place in stop, behind a place that is not.
LEMMA WalkEnds ==
    ASSUME NEW L, NEW S, NEW stop, NEW next, NEW limit, WalkPlaces(L, S, stop, next, limit),
           NEW walk, IsWalk(L, stop, next, walk)
    PROVE  \A p \in S : /\ walk[p] \in S \cap stop
                        /\ walk[p] = p \/ \E q \in S \ stop : walk[p] = next[q]
                        /\ \A q \in S : p <= q /\ q < walk[p] => q \notin stop
<1>1. \A p \in L : walk[p] = IF p \in stop THEN p ELSE walk[next[p]]
  BY Zenon DEF IsWalk
<1> USE DEF WalkPlaces
<1> DEFINE Good(p) == /\ walk[p] \in S \cap stop
                      /\ walk[p] = p \/ \E q \in S \ stop : walk[p] = next[q]
                      /\ \A q \in S : p <= q /\ q < walk[p] => q \notin stop
           bad == {p \in S : ~Good(p)}
<1>2. bad = {}
  <2>1. SUFFICES ASSUME bad # {} PROVE FALSE
    OBVIOUS
  <2>2. bad \in SUBSET Nat /\ \A p \in bad : p <= limit
    OBVIOUS
  <2>3. PICK p \in bad : \A q \in bad : q <= p
    BY <2>1, <2>2, GreatestBelow
  <2>4. p \notin stop
    <3>1. ASSUME p \in stop PROVE FALSE
      <4>1. walk[p] = p
        BY <1>1, <3>1
      <4>2. \A q \in S : p <= q /\ q < walk[p] => q \notin stop
        BY <4>1
      <4>3. QED
        BY <3>1, <4>1, <4>2
    <3>2. QED
      BY <3>1
  <2>5. next[p] \in S /\ p < next[p] /\ p \in Nat /\ next[p] \in Nat
    BY <2>4
  <2>6. next[p] \notin bad
    BY <2>3, <2>5
  <2>7. Good(next[p]) /\ walk[p] = walk[next[p]]
    BY <1>1, <2>4, <2>5, <2>6
  <2>8. \A q \in S : p <= q /\ q < walk[p] => q \notin stop
    <3> SUFFICES ASSUME NEW q \in S, p <= q, q < walk[p] PROVE q \notin stop
      OBVIOUS
    <3>1. q = p \/ next[p] <= q
      BY <2>4, <2>5
    <3>2. QED
      BY <2>4, <2>7, <3>1
  <2>9. QED
    BY <2>4, <2>7, <2>8
<1>3. QED
  BY <1>2

\* The place found for a block that is to be inserted: the last one before it.
LEMMA PlaceBeforeBlock ==
    ASSUME NEW h, NEW out, WellFormedBut(h, out), LinkedToList(h, out), NEW b \in out
    PROVE  /\ PlaceBefore(h, b) \in Listed(h, out) \cup {xStart}
           /\ PlaceBefore(h, b) < b
           /\ b < h.pxNextFreeBlock[PlaceBefore(h, b)]
<1> DEFINE L == Linked(h)
           S == Listed(h, out) \cup {xStart}
           next == h.pxNextFreeBlock
           stop == {p \in L : ~(next[p] < b)}
           walk == CHOOSE g : IsWalk(L, stop, next, g)
<1>1. /\ h.pxEnd \in Nat /\ b \in Nat /\ b < h.pxEnd /\ b > xStart /\ b \notin S
      /\ DOMAIN next = DOMAIN h.xBlockSize /\ \A p \in DOMAIN next : p \in xStart..h.pxEnd
      /\ \A p \in DOMAIN next : next[p] \in Nat
      /\ S \subseteq DOMAIN next
  BY DEF WellFormedBut, Tiling, Listed, FreeBlocks, Blocks
<1>2. \A p \in S : /\ next[p] \in Listed(h, out) \cup {h.pxEnd} /\ p < next[p]
                   /\ \A q \in S : p < q => next[p] <= q
  <2>1. Sorted(next, Listed(h, out), h.pxEnd)
    BY DEF WellFormedBut
  <2>2. QED
    BY <1>1, <2>1 DEF Sorted
<1>3. L \in SUBSET Nat /\ S \in SUBSET L /\ \A p \in L : p <= h.pxEnd
  BY <1>1, <1>2 DEF Linked
<1>4. \A p \in L \ stop : next[p] \in S /\ p < next[p]
  <2> SUFFICES ASSUME NEW p \in L, next[p] < b PROVE next[p] \in S /\ p < next[p]
    OBVIOUS
  <2>1. next[p] \in Listed(h, out) \cup {h.pxEnd} /\ p < next[p]
    BY <1>1, <1>2 DEF WellFormedBut, LinkedToList, Linked
  <2>2. QED
    BY <1>1, <1>3, <2>1
<1>5. \A p \in S \ stop : \A q \in S : p < q => next[p] <= q
  BY <1>2
<1>6. PlaceBefore(h, b) = walk[xStart]
  <2>1. \A g : [p \in L |-> IF p \in stop THEN p ELSE g[next[p]]]
                = [p \in L |-> IF next[p] < b THEN g[next[p]] ELSE p]
    OBVIOUS
  <2>2. walk = CHOOSE g : g = [p \in L |-> IF next[p] < b THEN g[next[p]] ELSE p]
    BY <2>1 DEF IsWalk
  <2>3. PlaceBefore(h, b)
          = (CHOOSE g : g = [p \in L |-> IF next[p] < b THEN g[next[p]] ELSE p])[xStart]
    BY DEF PlaceBefore
  <2>4. QED
    BY <2>2, <2>3
<1> HIDE DEF L, S, stop, next
<1>7. /\ walk[xStart] \in S \cap stop
      /\ walk[xStart] = xStart \/ \E q \in S \ stop : walk[xStart] = next[q]
  <2>1. xStart \in S
    BY DEF S
  <2>2. WalkPlaces(L, S, stop, next, h.pxEnd)
    BY <1>1, <1>3, <1>4, <1>5 DEF WalkPlaces
  <2>3. IsWalk(L, stop, next, walk)
    BY <2>2, WalkExists
  <2> HIDE DEF walk
  <2>4. QED
    BY <2>1, <2>2, <2>3, WalkEnds
<1> HIDE DEF walk
<1> DEFINE place == walk[xStart]
<1>8. /\ place \in S /\ ~(next[place] < b)
      /\ place = xStart \/ \E q \in S : place = next[q] /\ next[q] < b
  BY <1>3, <1>7 DEF stop
<1>9. next[place] # b
  BY <1>1, <1>2, <1>8 DEF S
<1>10. QED
  BY <1>1, <1>6, <1>8, <1>9 DEF S, next

\* The place found for a request: behind it is a block that is large enough, or
\* the end of the list if there is none.
LEMMA PlaceOfFitBlock ==
    ASSUME NEW h, NEW bytes \in Nat, WellFormedBut(h, {})
    PROVE  /\ PlaceOfFit(h, bytes) \in FreeBlocks(h) \cup {xStart}
           /\ h.pxNextFreeBlock[PlaceOfFit(h, bytes)] # h.pxEnd =>
                h.xBlockSize[h.pxNextFreeBlock[PlaceOfFit(h, bytes)]] >= bytes
           /\ h.pxNextFreeBlock[PlaceOfFit(h, bytes)] = h.pxEnd =>
                \A f \in FreeBlocks(h) : h.xBlockSize[f] < bytes
<1> DEFINE L == Linked(h)
           S == FreeBlocks(h) \cup {xStart}
           next == h.pxNextFreeBlock
           size == h.xBlockSize
           stop == {p \in L : ~(size[next[p]] < bytes /\ next[next[p]] # NULL)}
           walk == CHOOSE g : IsWalk(L, stop, next, g)
<1>1. /\ h.pxEnd \in Nat
      /\ DOMAIN next = DOMAIN size /\ \A p \in DOMAIN next : p \in xStart..h.pxEnd
      /\ \A p \in DOMAIN next : next[p] \in Nat /\ size[p] \in Nat
      /\ S \subseteq DOMAIN next /\ FreeBlocks(h) = Listed(h, {})
  BY DEF WellFormedBut, Tiling, Listed, FreeBlocks, Blocks
<1>2. \A p \in S : /\ next[p] \in FreeBlocks(h) \cup {h.pxEnd} /\ p < next[p]
                   /\ \A q \in S : p < q => next[p] <= q
  <2>1. Sorted(next, FreeBlocks(h), h.pxEnd)
    BY <1>1 DEF WellFormedBut
  <2>2. QED
    BY <1>1, <2>1 DEF Sorted
<1>3. L = S
  <2>1. \A p \in DOMAIN next \ S : next[p] = NULL
    BY <1>1 DEF WellFormedBut
  <2>2. QED
    BY <1>1, <1>2, <2>1 DEF Linked
<1>4. next[h.pxEnd] = NULL
  BY <1>1 DEF WellFormedBut, Tiling, FreeBlocks, Blocks
<1>5. \A p \in L \ stop : next[p] \in S /\ p < next[p]
  BY <1>2, <1>3, <1>4
<1>6. PlaceOfFit(h, bytes) = walk[xStart]
  <2>1. \A g : [p \in L |-> IF p \in stop THEN p ELSE g[next[p]]]
                = [p \in L |-> IF size[next[p]] < bytes /\ next[next[p]] # NULL
                               THEN g[next[p]] ELSE p]
    OBVIOUS
  <2>2. walk = CHOOSE g : g = [p \in L |-> IF size[next[p]] < bytes /\ next[next[p]] # NULL
                                           THEN g[next[p]] ELSE p]
    BY <2>1 DEF IsWalk
  <2>3. PlaceOfFit(h, bytes)
          = (CHOOSE g : g = [p \in L |-> IF size[next[p]] < bytes /\ next[next[p]] # NULL
                                         THEN g[next[p]] ELSE p])[xStart]
    BY DEF PlaceOfFit
  <2>4. QED
    BY <2>2, <2>3
<1> HIDE DEF L, S, stop, next, size
<1>7. /\ walk[xStart] \in S \cap stop
      /\ \A q \in S : xStart <= q /\ q < walk[xStart] => q \notin stop
  <2>1. xStart \in S /\ L \in SUBSET Nat /\ S \in SUBSET L /\ \A p \in L : p <= h.pxEnd
    BY <1>1, <1>3 DEF S
  <2>2. \A p \in S \ stop : \A q \in S : p < q => next[p] <= q
    BY <1>2
  <2>3. WalkPlaces(L, S, stop, next, h.pxEnd)
    BY <1>1, <1>5, <2>1, <2>2 DEF WalkPlaces
  <2>4. IsWalk(L, stop, next, walk)
    BY <2>3, WalkExists
  <2> HIDE DEF walk
  <2>5. QED
    BY <2>1, <2>3, <2>4, WalkEnds
<1> HIDE DEF walk
<1> DEFINE place == walk[xStart]
<1>8. place \in S /\ (size[next[place]] >= bytes \/ next[next[place]] = NULL)
  <2>1. place \in S /\ next[place] \in DOMAIN next
    BY <1>1, <1>2, <1>7 DEF WellFormedBut, Tiling, FreeBlocks, Blocks, next, S
  <2>2. QED
    BY <1>1, <1>7, <2>1 DEF stop
<1>9. next[place] # h.pxEnd => next[next[place]] # NULL
  BY <1>1, <1>2, <1>8 DEF S
<1> HIDE DEF place
<1>10. ASSUME next[place] = h.pxEnd, NEW f \in FreeBlocks(h) PROVE size[f] < bytes
  <2> DEFINE before == {q \in S : q < f}
  <2>1. \A q \in S : q \in Nat /\ xStart <= q
    BY <1>1
  <2>2. f \in Nat /\ xStart < f /\ f < h.pxEnd /\ f \in S /\ xStart \in S
    BY <1>1 DEF WellFormedBut, Tiling, FreeBlocks, Blocks, S
  <2>3. PICK q \in before : \A r \in before : r <= q
    <3>1. xStart \in before
      BY <2>2
    <3>2. \A r \in before : r \in Nat /\ r <= f
      BY <2>1, <2>2
    <3>3. f \in Nat /\ before \in SUBSET Nat
      BY <2>2, <3>2
    <3> HIDE DEF before
    <3>4. QED
      BY <3>1, <3>2, <3>3, GreatestBelow
  <2>4. q \in S /\ q < f /\ q \in Nat /\ next[q] <= f /\ q < next[q]
    BY <1>2, <2>1, <2>2, <2>3
  <2>5. next[q] = f
    <3>1. next[q] \in S /\ next[q] \in Nat
      BY <1>1, <1>2, <2>2, <2>4 DEF S
    <3>2. next[q] \notin before
      BY <2>3, <2>4, <3>1
    <3>3. QED
      BY <2>2, <2>4, <3>1, <3>2
  <2>6. q < place
    <3>1. ASSUME place <= q PROVE FALSE
      <4>1. place # q
        BY <2>2, <2>5, <1>10
      <4>2. place < q
        BY <1>8, <2>1, <2>4, <3>1, <4>1
      <4>3. next[place] <= q
        BY <1>2, <1>8, <2>4, <4>2
      <4>4. QED
        BY <1>1, <1>10, <2>2, <2>4, <4>3
    <3>2. place \in Nat
      BY <1>8, <2>1
    <3>3. QED
      BY <2>4, <3>1, <3>2
  <2>7. q \notin stop /\ q \in L
    BY <1>3, <1>7, <2>1, <2>4, <2>6 DEF place
  <2>8. QED
    BY <2>5, <2>7 DEF stop
<1>11. QED
  BY <1>6, <1>8, <1>9, <1>10 DEF S, next, size, place

-----------------------------------------------------------------------------
(* A block comes back to the list.                                           *)

\* Block b, which is not in the list, has its place in it behind p, and there is
\* joined with the block before it or the block after it, or not.
Joined(size, next, list, end, p, b, joinsFront, joinsBack) ==
    /\ Tiling(size, end) /\ Sorted(next, list, end)
    /\ list \subseteq Tiles(size, end)
    /\ DOMAIN next = DOMAIN size
    /\ \A x \in list : x + size[x] \notin list
    /\ b \in Tiles(size, end) \ list
    /\ p \in list \cup {xStart} /\ p < b /\ b < next[p]
    /\ joinsFront \in BOOLEAN /\ (joinsFront <=> p # xStart /\ p + size[p] = b)
    /\ joinsBack \in BOOLEAN /\ (joinsBack <=> next[p] # end /\ b + size[b] = next[p])

\* What the heap forgets then, and the sizes and the list that remain.
InsertGone(p, b, after, joinsFront, joinsBack) ==
    (IF joinsFront THEN {b} ELSE {}) \cup (IF joinsBack THEN {after} ELSE {})

InsertSizes(size, p, b, after, joinsFront, joinsBack) ==
    [x \in DOMAIN size \ InsertGone(p, b, after, joinsFront, joinsBack) |->
        IF x = (IF joinsFront THEN p ELSE b)
        THEN (IF joinsFront THEN size[p] + size[b] ELSE size[b])
               + (IF joinsBack THEN size[after] ELSE 0)
        ELSE size[x]]

InsertNexts(next, p, b, after, joinsFront, joinsBack) ==
    [x \in DOMAIN next \ InsertGone(p, b, after, joinsFront, joinsBack) |->
        IF x = (IF joinsFront THEN p ELSE b)
        THEN IF joinsBack THEN next[after] ELSE after
        ELSE IF x = p THEN b ELSE next[x]]

\* The list after the insertion of b behind p, joined with the blocks before and
\* after it or not, is sorted again.
LEMMA InsertSorted ==
    ASSUME NEW size, NEW next, NEW list, NEW end, NEW p, NEW b, NEW joinsFront, NEW joinsBack,
           Joined(size, next, list, end, p, b, joinsFront, joinsBack)
    PROVE  Sorted(InsertNexts(next, p, b, next[p], joinsFront, joinsBack),
                  (list \cup {b}) \ InsertGone(p, b, next[p], joinsFront, joinsBack), end)
<1> DEFINE after == next[p]
           block == IF joinsFront THEN p ELSE b
           last == IF joinsBack THEN next[after] ELSE after
           gone == InsertGone(p, b, after, joinsFront, joinsBack)
           left == (list \cup {b}) \ gone
           new == InsertNexts(next, p, b, after, joinsFront, joinsBack)
<1>a. /\ list \in SUBSET Nat /\ end \in Nat /\ Sorted(next, list, end)
      /\ \A f \in list : xStart < f /\ f < end
      /\ p \in list \cup {xStart} /\ b \in Nat /\ p < b /\ b < next[p]
      /\ joinsFront \in BOOLEAN /\ joinsBack \in BOOLEAN
      /\ (joinsFront => p \in list) /\ (joinsBack => after # end)
  BY DEF Joined, Tiling, Tiles
<1>b. left = (list \cup {b}) \ ((IF joinsFront THEN {b} ELSE {})
                                  \cup (IF joinsBack THEN {after} ELSE {}))
  BY DEF InsertGone
<1>c. \A x \in left \cup {xStart} :
        new[x] = IF x = block THEN last ELSE IF x = p THEN b ELSE next[x]
  <2>1. left \cup {xStart} \subseteq DOMAIN next \ gone
    <3>1. list \cup {b} \cup {xStart} \subseteq DOMAIN next
      BY DEF Joined, Tiling, Tiles
    <3>2. xStart \notin gone
      <4>1. gone \subseteq {b, after} /\ b # xStart /\ (joinsBack => after # xStart)
        BY <1>a DEF InsertGone, Sorted
      <4>2. QED
        BY <1>a, <4>1 DEF InsertGone
    <3>3. QED
      BY <3>1, <3>2
  <2>2. QED
    BY <2>1 DEF InsertNexts
<1> HIDE DEF left, new
<1> USE <1>a, <1>b, <1>c
<1>1. /\ xStart < end /\ after \in list \cup {end} /\ after \in Nat /\ p \in Nat /\ b < end
      /\ \A q \in list \cup {xStart} : /\ next[q] \in list \cup {end} /\ q < next[q] /\ q \in Nat
                                       /\ next[q] \in Nat
                                       /\ \A f \in list \cup {end} : q < f => next[q] <= f
  <2>1. \A q \in list \cup {xStart} : /\ next[q] \in list \cup {end} /\ q < next[q]
                                      /\ \A f \in list \cup {end} : q < f => next[q] <= f
    BY <1>a DEF Sorted
  <2>2. \A q \in list \cup {xStart} : q \in Nat /\ next[q] \in Nat /\ next[q] <= end
    <3>1. \A q \in list \cup {xStart} : q \in Nat
      OBVIOUS
    <3>2. \A q \in list \cup {end} : q \in Nat /\ q <= end
      OBVIOUS
    <3>3. QED
      BY <2>1, <3>1, <3>2
  <2>3. after \in list \cup {end} /\ after \in Nat /\ after <= end /\ p \in Nat /\ b < after
    BY <2>1, <2>2
  <2>4. b < end /\ xStart < end
    BY <2>3
  <2>5. QED
    BY <2>1, <2>2, <2>3, <2>4
<1>2. b \notin list /\ b # xStart /\ b # end
  BY <1>1
<1>3. \A f \in list \cup {end} : b < f => after <= f
  BY <1>1
<1>4. joinsBack => /\ after \in list /\ last \in list \cup {end} /\ after < last
                   /\ \A f \in list \cup {end} : after < f => last <= f
  BY <1>1
<1>5. /\ last \in left \cup {end} /\ b < last /\ last \in Nat
      /\ \A f \in left \cup {end} : b < f => last <= f
  <2>1. CASE joinsBack
    <3>1. last # after /\ last # b /\ last \in Nat
      BY <1>1, <1>4, <2>1
    <3>2. \A f \in left \cup {end} : b < f => after < f /\ f \in list \cup {end}
      BY <1>1, <1>3, <2>1
    <3>3. QED
      BY <1>1, <1>4, <2>1, <3>1, <3>2
  <2>2. CASE ~joinsBack
    <3>1. last = after /\ after # b
      BY <1>1, <2>2
    <3>2. QED
      BY <1>1, <1>3, <2>2, <3>1
  <2>3. QED
    BY <2>1, <2>2
<1>6. ASSUME NEW q \in left \cup {xStart}
      PROVE  new[q] \in left \cup {end} /\ q < new[q] /\ \A f \in left \cup {end} : q < f => new[q] <= f
  <2>1. CASE q = block
    <3>1. new[q] = last
      BY <2>1
    <3>2. CASE joinsFront
      <4>1. q = p /\ b \notin left
        BY <2>1, <3>2
      <4>2. \A f \in left \cup {end} : p < f => b < f
        BY <1>1, <4>1
      <4>3. QED
        BY <1>1, <1>5, <3>1, <4>1, <4>2
    <3>3. CASE ~joinsFront
      BY <1>5, <2>1, <3>1, <3>3
    <3>4. QED
      BY <3>2, <3>3
  <2>2. CASE q # block /\ q = p
    <3>1. new[q] = b /\ block = b /\ b \in left
      BY <1>1, <2>2
    <3>2. \A f \in left \cup {end} : p < f => b <= f
      BY <1>1
    <3>3. QED
      BY <2>2, <3>1, <3>2
  <2>3. CASE q # block /\ q # p
    <3>1. new[q] = next[q] /\ q # b /\ q \in list \cup {xStart}
      BY <2>3
    <3>2. next[q] # after
      <4>1. CASE q < p
        BY <1>1, <3>1, <4>1
      <4>2. CASE p < q
        BY <1>1, <3>1, <4>2
      <4>3. QED
        BY <1>1, <2>3, <3>1, <4>1, <4>2
    <3>3. next[q] \in left \cup {end} /\ q < next[q]
      BY <1>1, <1>2, <3>1, <3>2
    <3>4. q < b => next[q] <= b
      <4>1. CASE q < p
        BY <1>1, <3>1, <4>1
      <4>2. CASE p < q
        BY <1>1, <3>1, <4>2
      <4>3. QED
        BY <1>1, <2>3, <3>1, <4>1, <4>2
    <3>5. QED
      BY <1>1, <3>1, <3>3, <3>4
  <2>4. QED
    BY <2>1, <2>2, <2>3
<1>7. Sorted(new, left, end)
  BY <1>6 DEF Sorted
<1>8. QED
  BY <1>7 DEF left, new

\* What is inserted still fills the memory.
LEMMA InsertTiles ==
    ASSUME NEW size, NEW next, NEW list, NEW end, NEW p, NEW b, NEW joinsFront, NEW joinsBack,
           Joined(size, next, list, end, p, b, joinsFront, joinsBack)
    PROVE  Tiling(InsertSizes(size, p, b, next[p], joinsFront, joinsBack), end)
<1> DEFINE after == next[p]
           new == InsertSizes(size, p, b, after, joinsFront, joinsBack)
<1>0. /\ Tiling(size, end)
      /\ b \in Tiles(size, end)
      /\ p \in Tiles(size, end) \cup {xStart} /\ after \in Tiles(size, end) \cup {end}
      /\ joinsFront \in BOOLEAN /\ joinsBack \in BOOLEAN
      /\ joinsFront => p # xStart /\ p + size[p] = b
      /\ joinsBack => after # end /\ b + size[b] = after
  BY DEF Joined, Sorted
<1> SUFFICES Tiling(new, end)
  OBVIOUS
<1> HIDE DEF after
<1> USE <1>0
<1>1. /\ \A x \in DOMAIN size : x \in Nat /\ size[x] \in Nat
      /\ size = [x \in DOMAIN size |-> size[x]]
      /\ b \in DOMAIN size /\ p \in DOMAIN size /\ after \in DOMAIN size
      /\ size[b] > 0
      /\ b # xStart /\ b # end
  BY DEF Tiling, Tiles
<1>2. CASE ~joinsFront /\ ~joinsBack
  <2>1. new = [x \in DOMAIN size |-> IF x = b THEN size[b] + 0 ELSE size[x]]
    BY <1>2 DEF InsertSizes, InsertGone
  <2>2. size[b] + 0 = size[b]
    BY <1>1
  <2>3. new = size
    BY <1>1, <2>1, <2>2
  <2>4. QED
    BY <2>3
<1>3. CASE joinsFront /\ ~joinsBack
  <2>1. new = [x \in DOMAIN size \ {b} |-> IF x = p THEN size[p] + size[b] + 0 ELSE size[x]]
    BY <1>3 DEF InsertSizes, InsertGone
  <2>2. size[p] + size[b] + 0 = size[p] + size[b]
    BY <1>1
  <2>3. p \in Tiles(size, end)
    BY <1>3
  <2>4. new = [x \in DOMAIN size \ {b} |-> IF x = p THEN size[p] + size[b] ELSE size[x]]
    BY <2>1, <2>2
  <2>5. Tiling([x \in DOMAIN size \ {b} |-> IF x = p THEN size[p] + size[b] ELSE size[x]], end)
    BY <1>3, <2>3, MergeTiles
  <2> HIDE DEF new
  <2>6. QED
    BY <2>4, <2>5 DEF new
<1>4. CASE ~joinsFront /\ joinsBack
  <2>1. new = [x \in DOMAIN size \ {after} |-> IF x = b THEN size[b] + size[after] ELSE size[x]]
    BY <1>4 DEF InsertSizes, InsertGone
  <2>2. after \in Tiles(size, end) /\ b + size[b] = after
    BY <1>4
  <2>3. Tiling([x \in DOMAIN size \ {after} |->
                  IF x = b THEN size[b] + size[after] ELSE size[x]], end)
    BY <2>2, MergeTiles
  <2> HIDE DEF new
  <2>4. QED
    BY <2>1, <2>3 DEF new
<1>5. CASE joinsFront /\ joinsBack
  <2> DEFINE m == [x \in DOMAIN size \ {b} |-> IF x = p THEN size[p] + size[b] ELSE size[x]]
  <2>1. p \in Tiles(size, end) /\ after \in Tiles(size, end)
    BY <1>5
  <2>2. Tiling(m, end)
    BY <1>5, <2>1, MergeTiles
  <2>3. /\ p # b /\ after # b /\ p # after
    BY <1>1, <1>5, <2>1 DEF Tiling, Tiles
  <2>4. /\ DOMAIN m = DOMAIN size \ {b} /\ m[p] = size[p] + size[b]
        /\ \A x \in DOMAIN m \ {p} : m[x] = size[x]
    BY <1>1, <2>3
  <2>5. p \in Tiles(m, end) /\ after \in Tiles(m, end) /\ p + m[p] = after
    BY <1>1, <1>5, <2>1, <2>3, <2>4 DEF Tiles
  <2>6. new = [x \in DOMAIN m \ {after} |-> IF x = p THEN m[p] + m[after] ELSE m[x]]
    <3>1. new = [x \in (DOMAIN size \ {b}) \ {after} |->
                   IF x = p THEN size[p] + size[b] + size[after] ELSE size[x]]
      <4>1. DOMAIN size \ InsertGone(p, b, after, joinsFront, joinsBack)
              = (DOMAIN size \ {b}) \ {after}
        BY <1>5 DEF InsertGone
      <4>2. QED
        BY <1>5, <4>1 DEF InsertSizes
    <3>2. m[after] = size[after]
      BY <1>1, <2>3
    <3> HIDE DEF m, new
    <3>3. QED
      BY <2>4, <3>1, <3>2
  <2>7. Tiling([x \in DOMAIN m \ {after} |-> IF x = p THEN m[p] + m[after] ELSE m[x]], end)
    <3> HIDE DEF m, new
    <3>1. QED
      BY <2>2, <2>5, MergeTiles
  <2> HIDE DEF m, new
  <2>8. QED
    BY <2>6, <2>7 DEF new
<1>6. QED
  BY <1>2, <1>3, <1>4, <1>5 DEF after

\* What InsertBlock does, given the place in the list.
LEMMA InsertShape ==
    ASSUME NEW h, NEW out, WellFormedBut(h, out), LinkedToList(h, out), NEW b \in out
    PROVE  \E p, joinsFront, joinsBack :
             LET size == h.xBlockSize
                 next == h.pxNextFreeBlock
             IN  /\ Joined(size, next, Listed(h, out), h.pxEnd, p, b, joinsFront, joinsBack)
                 /\ InsertBlock(h, b) =
                      HeapOf(InsertSizes(size, p, b, next[p], joinsFront, joinsBack),
                             InsertNexts(next, p, b, next[p], joinsFront, joinsBack),
                             h.owned, h.pxEnd, h.xFreeBytesRemaining,
                             h.xMinimumEverFreeBytesRemaining)
<1> DEFINE size == h.xBlockSize
           next == h.pxNextFreeBlock
           p == PlaceBefore(h, b)
           after == next[p]
           joinsFront == p + size[p] = b
           block == IF joinsFront THEN p ELSE b
           bytes == IF joinsFront THEN size[p] + size[b] ELSE size[b]
           joinsBack == block + bytes = after /\ after # h.pxEnd
           gone == (IF joinsFront THEN {b} ELSE {}) \cup (IF joinsBack THEN {after} ELSE {})
           size1 == [size EXCEPT ![block] = IF joinsBack THEN bytes + size[after] ELSE bytes]
           next1 == [next EXCEPT ![p] = block,
                                 ![block] = IF joinsBack THEN next[after] ELSE after]
<1>1. p \in Listed(h, out) \cup {xStart} /\ p < b /\ b < after
  BY PlaceBeforeBlock
<1>2. /\ DOMAIN next = DOMAIN size
      /\ \A x \in DOMAIN size : x \in Nat /\ size[x] \in Nat
      /\ size[xStart] = 0 /\ xStart \in DOMAIN size /\ h.pxEnd \in Nat
      /\ Listed(h, out) \subseteq DOMAIN size
      /\ b \in DOMAIN size /\ Base <= b
  BY DEF WellFormedBut, Tiling, Listed, FreeBlocks, Blocks
<1>3. p \in DOMAIN size /\ after \in Nat
  <2>1. next \in [DOMAIN size -> Nat]
    BY DEF WellFormedBut
  <2> HIDE DEF next, size, p
  <2>2. QED
    BY <1>1, <1>2, <2>1
<1>4. InsertBlock(h, b) = [h EXCEPT !.xBlockSize = Restrict(size1, DOMAIN size1 \ gone),
                                    !.pxNextFreeBlock = Restrict(next1, DOMAIN next1 \ gone)]
  BY DEF InsertBlock
<1>5. IsHeap(h)
  BY DEF WellFormedBut
<1>6. InsertBlock(h, b) =
        HeapOf(Restrict(size1, DOMAIN size1 \ gone), Restrict(next1, DOMAIN next1 \ gone),
               h.owned, h.pxEnd, h.xFreeBytesRemaining, h.xMinimumEverFreeBytesRemaining)
  <2> HIDE DEF size1, next1, gone
  <2>1. QED
    BY <1>4, <1>5, HeapExcept
<1> HIDE DEF size, next, p
<1>7. joinsFront <=> p # xStart /\ p + size[p] = b
  BY <1>2
<1>8. joinsBack <=> after # h.pxEnd /\ b + size[b] = after
  BY <1>2, <1>3
<1>9. joinsFront \in BOOLEAN /\ joinsBack \in BOOLEAN
  OBVIOUS
<1>10. gone = InsertGone(p, b, after, joinsFront, joinsBack)
  BY DEF InsertGone
<1> HIDE DEF joinsFront, joinsBack, after, gone
<1>11. Restrict(size1, DOMAIN size1 \ gone) = InsertSizes(size, p, b, after, joinsFront, joinsBack)
  <2>1. DOMAIN size1 = DOMAIN size
    OBVIOUS
  <2>2. \A x \in DOMAIN size : size1[x] = IF x = block
                                          THEN IF joinsBack THEN bytes + size[after] ELSE bytes
                                          ELSE size[x]
    OBVIOUS
  <2>3. joinsBack => after \in DOMAIN size
    <3>1. joinsBack => after \in Listed(h, out)
      <4>1. Sorted(next, Listed(h, out), h.pxEnd)
        BY DEF WellFormedBut, next
      <4>2. after \in Listed(h, out) \cup {h.pxEnd}
        BY <1>1, <4>1 DEF Sorted, after
      <4>3. QED
        BY <1>8, <4>2
    <3>2. QED
      BY <1>2, <3>1
  <2>4. bytes \in Nat /\ (joinsBack => size[after] \in Nat) /\ bytes + 0 = bytes
    BY <1>2, <1>3, <2>3
  <2>5. \A x \in DOMAIN size : size1[x] = IF x = block
                                          THEN bytes + IF joinsBack THEN size[after] ELSE 0
                                          ELSE size[x]
    BY <2>2, <2>4
  <2> HIDE DEF size1
  <2>6. QED
    BY <1>10, <2>1, <2>5 DEF Restrict, InsertSizes
<1>12. Restrict(next1, DOMAIN next1 \ gone) = InsertNexts(next, p, b, after, joinsFront, joinsBack)
  <2>1. DOMAIN next1 = DOMAIN next
    OBVIOUS
  <2>2. \A x \in DOMAIN next : next1[x] = IF x = block
                                          THEN IF joinsBack THEN next[after] ELSE after
                                          ELSE IF x = p THEN b ELSE next[x]
    OBVIOUS
  <2> HIDE DEF next1
  <2>3. QED
    BY <1>10, <2>1, <2>2 DEF Restrict, InsertNexts
<1>13. InsertBlock(h, b) =
         HeapOf(InsertSizes(size, p, b, after, joinsFront, joinsBack),
                InsertNexts(next, p, b, after, joinsFront, joinsBack),
                h.owned, h.pxEnd, h.xFreeBytesRemaining, h.xMinimumEverFreeBytesRemaining)
  BY <1>6, <1>11, <1>12
<1>14. Joined(size, next, Listed(h, out), h.pxEnd, p, b, joinsFront, joinsBack)
  <2>1. /\ Tiling(size, h.pxEnd) /\ Sorted(next, Listed(h, out), h.pxEnd)
        /\ Listed(h, out) \subseteq Tiles(size, h.pxEnd)
        /\ \A x \in Listed(h, out) : x + size[x] \notin Listed(h, out)
        /\ b \in Tiles(size, h.pxEnd) \ Listed(h, out)
    BY DEF WellFormedBut, Tiles, Listed, FreeBlocks, Blocks, size, next
  <2>2. QED
    BY <1>1, <1>2, <1>7, <1>8, <1>9, <2>1 DEF Joined, after
<1>15. QED
  BY <1>13, <1>14 DEF after, size, next

\* No two blocks of the list come to lie beside each other.
LEMMA InsertApart ==
    ASSUME NEW size, NEW next, NEW list, NEW end, NEW p, NEW b, NEW joinsFront, NEW joinsBack,
           Joined(size, next, list, end, p, b, joinsFront, joinsBack),
           NEW new, new = InsertSizes(size, p, b, next[p], joinsFront, joinsBack),
           NEW left, left = (list \cup {b}) \ InsertGone(p, b, next[p], joinsFront, joinsBack)
    PROVE  \A x \in left : x + new[x] \notin left
<1>0. Joined(size, next, list, end, p, b, joinsFront, joinsBack)
  OBVIOUS
<1> USE <1>0 DEF Joined
<1> DEFINE after == next[p]
           block == IF joinsFront THEN p ELSE b
<1>1. /\ \A x \in DOMAIN size : x \in Nat /\ size[x] \in Nat
      /\ list \subseteq DOMAIN size \ {xStart, end} /\ b \in DOMAIN size \ {xStart, end}
      /\ end \in DOMAIN size
      /\ \A x, y \in Tiles(size, end) : x < y => x + size[x] <= y
      /\ size[b] > 0
  BY DEF Tiling, Tiles
<1>2. /\ after \in list \cup {end}
      /\ \A x \in list \cup {xStart} : \A f \in list \cup {end} : x < f => next[x] <= f
  BY DEF Sorted
<1>3. after \in Nat /\ p \in Nat /\ after \in DOMAIN size
  BY <1>1, <1>2
<1> HIDE DEF after
<1>4. SUFFICES ASSUME NEW x \in left PROVE x + new[x] \notin left
  OBVIOUS
<1>5. /\ \A y \in left : y \in list \cup {b}
      /\ joinsFront => b \notin left
      /\ joinsBack => after \notin left
  BY DEF InsertGone, after
<1>6. /\ x \in list \cup {b}
      /\ new[x] = IF x = block
                  THEN (IF joinsFront THEN size[p] + size[b] ELSE size[b])
                         + (IF joinsBack THEN size[after] ELSE 0)
                  ELSE size[x]
  <2>1. x \in DOMAIN size \ InsertGone(p, b, after, joinsFront, joinsBack)
    BY <1>1 DEF after
  <2>2. QED
    BY <1>5, <2>1 DEF InsertSizes, after
<1>7. p # b /\ b \notin list
  BY <1>1, <1>3
<1>8. CASE x = block
  <2>1. joinsFront => p + size[p] = b /\ p \in DOMAIN size
    BY <1>1
  <2>2. CASE joinsBack
    <3>1. after \in list /\ b + size[b] = after /\ size[after] \in Nat
      BY <1>1, <1>2, <2>2 DEF after
    <3>2. x + new[x] = after + size[after]
      BY <1>1, <1>3, <1>6, <1>8, <2>1, <2>2, <3>1
    <3>3. after + size[after] # b /\ after + size[after] \notin list
      BY <1>1, <1>3, <3>1
    <3>4. QED
      BY <1>5, <3>2, <3>3
  <2>3. CASE ~joinsBack
    <3>1. x + new[x] = b + size[b]
      BY <1>1, <1>3, <1>6, <1>8, <2>1, <2>3
    <3>2. b + size[b] # b
      BY <1>1
    <3>3. ASSUME b + size[b] \in list PROVE FALSE
      <4>1. b + size[b] \in DOMAIN size /\ b + size[b] # end /\ b + size[b] > b
        BY <1>1, <3>3
      <4>2. after <= b + size[b]
        BY <1>1, <1>2, <1>3, <3>3, <4>1 DEF after
      <4>3. after # end
        <5>1. CASE after = end
          <6>1. b + size[b] <= end
            BY <1>1, <3>3 DEF Tiling
          <6>2. QED
            BY <1>1, <1>3, <4>1, <4>2, <5>1, <6>1
        <5>2. QED
          BY <5>1
      <4>4. after \in Tiles(size, end)
        BY <1>2, <4>3
      <4>5. b + size[b] <= after
        BY <1>1, <4>4 DEF after
      <4>6. QED
        BY <1>1, <1>3, <2>3, <4>2, <4>3, <4>5 DEF after
    <3>4. QED
      BY <1>5, <3>1, <3>2, <3>3
  <2>4. QED
    BY <2>2, <2>3
<1>9. CASE x # block
  <2>1. x \in list /\ x # b /\ new[x] = size[x]
    BY <1>5, <1>6, <1>9
  <2>2. x + size[x] \notin list
    BY <2>1
  <2>3. ASSUME x + size[x] = b, b \in left PROVE FALSE
    <3>1. ~joinsFront
      BY <1>5, <2>3
    <3>2. x \in Nat /\ size[x] \in Nat /\ x \in Tiles(size, end) /\ size[x] > 0
      BY <1>1, <2>1 DEF Tiling
    <3>3. ~(p < x)
      BY <1>1, <1>2, <1>3, <2>1, <2>3, <3>2 DEF after
    <3>4. x = p
      <4>1. CASE x < p
        <5>1. p \in Tiles(size, end)
          BY <1>1, <3>2, <4>1 DEF Tiling
        <5>2. x + size[x] <= p
          BY <1>1, <3>2, <4>1, <5>1
        <5>3. QED
          BY <1>1, <1>3, <2>3, <5>2
      <4>2. QED
        BY <1>3, <3>2, <3>3, <4>1
    <3>5. QED
      BY <1>1, <2>1, <2>3, <3>1, <3>4
  <2>4. QED
    BY <1>5, <2>1, <2>2, <2>3
<1>10. QED
  BY <1>8, <1>9

\* prvInsertBlockIntoFreeList keeps the heap as it must be, and the allocated blocks
\* (and others outside the list) as they are.
LEMMA InsertKeeps ==
    ASSUME NEW h, NEW out, WellFormedBut(h, out), LinkedToList(h, out), NEW b \in out,
           NEW g, g = InsertBlock(h, b)
    PROVE  /\ WellFormedBut(g, out \ {b})
           /\ g.owned = h.owned
           /\ g.pxEnd = h.pxEnd
           /\ g.xFreeBytesRemaining = h.xFreeBytesRemaining
           /\ g.xMinimumEverFreeBytesRemaining = h.xMinimumEverFreeBytesRemaining
           /\ \A c \in h.owned \cup (out \ {b}) : g.xBlockSize[c] = h.xBlockSize[c]
           /\ \A c \in Blocks(g) : c \in Blocks(h) /\ g.xBlockSize[c] >= h.xBlockSize[c]
<1> DEFINE size == h.xBlockSize
           next == h.pxNextFreeBlock
           end == h.pxEnd
           list == Listed(h, out)
<1>1. PICK p, joinsFront, joinsBack :
             /\ Joined(size, next, list, end, p, b, joinsFront, joinsBack)
             /\ g = HeapOf(InsertSizes(size, p, b, next[p], joinsFront, joinsBack),
                           InsertNexts(next, p, b, next[p], joinsFront, joinsBack),
                           h.owned, h.pxEnd, h.xFreeBytesRemaining,
                           h.xMinimumEverFreeBytesRemaining)
  BY InsertShape
<1> DEFINE after == next[p]
           gone == InsertGone(p, b, after, joinsFront, joinsBack)
           block == IF joinsFront THEN p ELSE b
           new == g.xBlockSize
           left == (list \cup {b}) \ gone
<1>2. /\ Tiling(size, end) /\ Sorted(next, list, end)
      /\ end \in Nat /\ DOMAIN next = DOMAIN size
      /\ \A x \in DOMAIN size : x \in Nat /\ next[x] \in Nat /\ size[x] \in Nat /\ x <= end
      /\ Tiles(size, end) = Blocks(h)
      /\ \A x \in Tiles(size, end) : x \in Nat /\ xStart < x /\ x < end
      /\ list \subseteq Tiles(size, end) \ h.owned
      /\ b \in Tiles(size, end) \ h.owned /\ b \notin list
      /\ h.owned \subseteq Tiles(size, end) /\ out \subseteq Tiles(size, end) \ h.owned
      /\ list = (Tiles(size, end) \ h.owned) \ out
      /\ \A x \in DOMAIN size \ (list \cup out \cup {xStart}) : next[x] = NULL
      /\ \A x \in list : x + size[x] \notin list
      /\ {xStart, Base, end} \cup Tiles(size, end) \subseteq DOMAIN size
  BY DEF WellFormedBut, Tiling, Tiles, Listed, FreeBlocks, Blocks
<1>3. /\ new = InsertSizes(size, p, b, after, joinsFront, joinsBack)
      /\ g.pxNextFreeBlock = InsertNexts(next, p, b, after, joinsFront, joinsBack)
      /\ g.owned = h.owned /\ g.pxEnd = end
      /\ g.xFreeBytesRemaining = h.xFreeBytesRemaining
      /\ g.xMinimumEverFreeBytesRemaining = h.xMinimumEverFreeBytesRemaining
      /\ IsHeap(g)
  BY <1>1, HeapFields
<1> HIDE DEF size, next, end, list, new
<1>4. /\ p < b /\ b < after /\ p \in list \cup {xStart}
      /\ after \in list \cup {end} /\ after \in Nat /\ p \in Nat /\ p # b
      /\ after \in DOMAIN size /\ p \in DOMAIN size
      /\ joinsBack => after \in list
      /\ joinsFront => p \in list
  <2>1. p \in list \cup {xStart} /\ p < b /\ b < after
    BY <1>1 DEF Joined
  <2>2. after \in list \cup {end}
    BY <1>2, <2>1 DEF Sorted
  <2>3. after \in DOMAIN size /\ p \in DOMAIN size
    BY <1>2, <2>1, <2>2
  <2>4. (joinsBack => after \in list) /\ (joinsFront => p \in list)
    BY <1>1, <2>1, <2>2 DEF Joined
  <2>5. b \in Nat
    BY <1>2
  <2>6. QED
    BY <1>2, <2>1, <2>2, <2>3, <2>4, <2>5
<1>5. gone \subseteq list \cup {b} /\ p \notin gone /\ gone \cap h.owned = {}
  <2>1. p # after
    BY <1>2, <1>4
  <2>2. QED
    BY <1>2, <1>4, <2>1 DEF InsertGone
<1>6. Tiling(new, end)
  BY <1>1, <1>3, InsertTiles
<1>7. /\ DOMAIN new = DOMAIN size \ gone
      /\ DOMAIN g.pxNextFreeBlock = DOMAIN size \ gone
      /\ \A x \in DOMAIN size \ gone : x # block => new[x] = size[x]
      /\ \A x \in DOMAIN size \ gone :
            g.pxNextFreeBlock[x] = IF x = block
                                   THEN IF joinsBack THEN next[after] ELSE after
                                   ELSE IF x = p THEN b ELSE next[x]
  BY <1>2, <1>3 DEF InsertSizes, InsertNexts
<1>8. /\ Blocks(g) = Blocks(h) \ gone
      /\ FreeBlocks(g) = FreeBlocks(h) \ gone
      /\ Listed(g, out \ {b}) = left
  <2>1. Blocks(g) = Blocks(h) \ gone
    BY <1>3, <1>7 DEF Blocks, new, size, end
  <2>2. FreeBlocks(g) = FreeBlocks(h) \ gone
    BY <1>3, <2>1 DEF FreeBlocks
  <2>3. Listed(g, out \ {b}) = left
    BY <1>2, <1>4, <1>5, <2>2 DEF Listed, FreeBlocks, InsertGone
  <2>4. QED
    BY <2>1, <2>2, <2>3
<1>9. out \ {b} \subseteq FreeBlocks(g) /\ g.owned \subseteq Blocks(g)
  <2>1. gone \cap (out \ {b}) = {}
    BY <1>2, <1>5
  <2>2. QED
    BY <1>2, <1>3, <1>5, <1>8, <2>1 DEF FreeBlocks
<1>10. Sorted(g.pxNextFreeBlock, left, end)
  <2>1. Joined(size, next, list, end, p, b, joinsFront, joinsBack)
    BY <1>1
  <2>2. Sorted(InsertNexts(next, p, b, next[p], joinsFront, joinsBack), left, end)
    BY <2>1, InsertSorted
  <2> HIDE DEF left
  <2>3. QED
    BY <1>3, <2>2
<1>11. \A x \in left : x + new[x] \notin left
  <2>1. Joined(size, next, list, end, p, b, joinsFront, joinsBack)
    BY <1>1
  <2>2. new = InsertSizes(size, p, b, next[p], joinsFront, joinsBack)
    BY <1>3
  <2>3. left = (list \cup {b}) \ InsertGone(p, b, next[p], joinsFront, joinsBack)
    OBVIOUS
  <2> HIDE DEF left
  <2>4. QED
    BY <2>1, <2>2, <2>3, InsertApart
<1>12. g.pxNextFreeBlock \in [DOMAIN new -> Nat]
  <2>1. \A x \in DOMAIN size \ gone : g.pxNextFreeBlock[x] \in Nat
    BY <1>2, <1>4, <1>7
  <2>2. g.pxNextFreeBlock = [x \in DOMAIN size \ gone |-> g.pxNextFreeBlock[x]]
    BY <1>2, <1>3 DEF InsertNexts
  <2>3. QED
    BY <1>7, <2>1, <2>2
<1>13. \A x \in DOMAIN new \ (left \cup (out \ {b}) \cup {xStart}) : g.pxNextFreeBlock[x] = NULL
  <2> SUFFICES ASSUME NEW x \in DOMAIN new \ (left \cup (out \ {b}) \cup {xStart})
               PROVE  g.pxNextFreeBlock[x] = NULL
    OBVIOUS
  <2>1. x \in DOMAIN size \ gone /\ x \notin list /\ x # b /\ x \notin out /\ x # xStart
    BY <1>7
  <2>2. x # p /\ x # block
    BY <1>4, <2>1
  <2>3. QED
    BY <1>2, <1>7, <2>1, <2>2
<1>14. WellFormedBut(g, out \ {b})
  BY <1>3, <1>6, <1>8, <1>9, <1>10, <1>11, <1>12, <1>13 DEF WellFormedBut, new
<1>15. \A c \in h.owned \cup (out \ {b}) : new[c] = size[c]
  <2> SUFFICES ASSUME NEW c \in h.owned \cup (out \ {b}) PROVE new[c] = size[c]
    OBVIOUS
  <2>1. c \in DOMAIN size /\ c # b /\ c \notin list
    BY <1>2 DEF Tiles
  <2>2. c \notin gone /\ c # block
    <3>1. c # p
      BY <1>2, <1>4, <2>1 DEF Tiles
    <3>2. QED
      BY <1>5, <2>1, <3>1
  <2>3. QED
    BY <1>7, <2>1, <2>2
<1>16. ASSUME NEW c \in Blocks(g) PROVE c \in Blocks(h) /\ new[c] >= size[c]
  <2>1. c \in Tiles(size, end) /\ c \in DOMAIN size \ gone /\ size[c] \in Nat
    BY <1>2, <1>8 DEF Tiles
  <2>2. CASE c # block
    BY <1>2, <1>7, <2>1, <2>2
  <2>3. CASE c = block
    <3>1. /\ size[p] \in Nat /\ size[b] \in Nat /\ size[after] \in Nat
      BY <1>2, <1>4
    <3>2. new[c] = (IF joinsFront THEN size[p] + size[b] ELSE size[b])
                     + (IF joinsBack THEN size[after] ELSE 0)
      BY <1>3, <2>1, <2>3 DEF InsertSizes
    <3>3. QED
      BY <1>2, <2>1, <2>3, <3>1, <3>2
  <2>4. QED
    BY <2>2, <2>3
<1>17. QED
  BY <1>3, <1>14, <1>15, <1>16 DEF new, size, end

\* A block that is cut has its second part in the list afterwards.
Cut(h, block, bytes, g) ==
    /\ WellFormedBut(g, {block})
    /\ g.owned = h.owned
    /\ g.pxEnd = h.pxEnd
    /\ \A c \in h.owned : g.xBlockSize[c] = h.xBlockSize[c]
    /\ g.xBlockSize[block] = bytes
    /\ \A c \in Blocks(g) \ {block} :
        \/ c = block + bytes /\ g.xBlockSize[c] >= h.xBlockSize[block] - bytes
        \/ c \in Blocks(h) /\ g.xBlockSize[c] >= h.xBlockSize[c]

LEMMA SplitKeeps ==
    ASSUME NEW h, NEW block, WellFormedBut(h, {block}), LinkedToList(h, {block}),
           NEW bytes \in Nat, 0 < bytes, bytes < h.xBlockSize[block],
           NEW g, g = Split(h, block, bytes)
    PROVE  Cut(h, block, bytes, g)
<1> DEFINE size == h.xBlockSize
           next == h.pxNextFreeBlock
           end == h.pxEnd
           rest == block + bytes
           list == Listed(h, {block})
           cutSize == [b \in DOMAIN size \cup {rest} |->
                    IF b = rest THEN size[block] - bytes ELSE IF b = block THEN bytes ELSE size[b]]
           cutNext == [b \in DOMAIN next \cup {rest} |-> IF b = rest THEN NULL ELSE next[b]]
           cut == HeapOf(cutSize, cutNext, h.owned, h.pxEnd, h.xFreeBytesRemaining,
                         h.xMinimumEverFreeBytesRemaining)
<1>1. g = InsertBlock(cut, rest)
  <2>1. [h EXCEPT !.xBlockSize = cutSize, !.pxNextFreeBlock = cutNext] = cut
    <3>1. IsHeap(h)
      BY DEF WellFormedBut
    <3> HIDE DEF cutSize, cutNext
    <3>2. QED
      BY <3>1, HeapExcept
  <2>2. QED
    BY <2>1 DEF Split
<1>2. /\ Tiling(size, end) /\ Sorted(next, list, end)
      /\ end \in Nat /\ DOMAIN next = DOMAIN size
      /\ \A x \in DOMAIN size : x \in Nat /\ next[x] \in Nat /\ size[x] \in Nat
      /\ Tiles(size, end) = Blocks(h)
      /\ block \in Tiles(size, end) \ h.owned
      /\ h.owned \subseteq Tiles(size, end)
      /\ list = (Tiles(size, end) \ h.owned) \ {block}
      /\ \A x \in DOMAIN size \ (list \cup {block} \cup {xStart}) : next[x] = NULL
      /\ \A x \in list : x + size[x] \notin list
      /\ {xStart, Base, end} \cup Tiles(size, end) \subseteq DOMAIN size
  BY DEF WellFormedBut, Tiling, Tiles, Listed, FreeBlocks, Blocks
<1>3. /\ \/ next[block] = NULL
         \/ block < next[block] /\ next[block] \in list \cup {end}
  BY DEF LinkedToList
<1> HIDE DEF size, next, end, list
<1>4. rest \notin DOMAIN size /\ Tiling(cutSize, end) /\ rest \in Nat
  <2>1. bytes < size[block] /\ block \in Tiles(size, end)
    BY <1>2 DEF size
  <2>2. QED
    BY <1>2, <2>1, CutTile
<1>5. /\ DOMAIN cutSize = DOMAIN size \cup {rest} /\ DOMAIN cutNext = DOMAIN size \cup {rest}
      /\ cutSize[block] = bytes /\ cutNext[rest] = NULL
      /\ cutSize[rest] = size[block] - bytes
      /\ \A x \in DOMAIN size : cutNext[x] = next[x]
      /\ \A x \in DOMAIN size \ {block} : cutSize[x] = size[x]
      /\ cut.xBlockSize = cutSize /\ cut.pxNextFreeBlock = cutNext
      /\ cut.owned = h.owned /\ cut.pxEnd = end
      /\ cut.xFreeBytesRemaining = h.xFreeBytesRemaining
      /\ cut.xMinimumEverFreeBytesRemaining = h.xMinimumEverFreeBytesRemaining
      /\ IsHeap(cut)
  <2>1. /\ cut.xBlockSize = cutSize /\ cut.pxNextFreeBlock = cutNext
        /\ cut.owned = h.owned /\ cut.pxEnd = h.pxEnd
        /\ cut.xFreeBytesRemaining = h.xFreeBytesRemaining
        /\ cut.xMinimumEverFreeBytesRemaining = h.xMinimumEverFreeBytesRemaining
        /\ IsHeap(cut)
    BY HeapFields
  <2>2. QED
    BY <1>2, <1>4, <2>1 DEF end
<1>6. cutNext \in [DOMAIN cutSize -> Nat]
  <2>1. \A x \in DOMAIN size \cup {rest} : cutNext[x] \in Nat
    BY <1>2, <1>5
  <2>2. cutNext = [x \in DOMAIN size \cup {rest} |-> cutNext[x]]
    BY <1>2
  <2>3. QED
    BY <1>5, <2>1, <2>2
<1> HIDE DEF cut, cutSize, cutNext, rest
<1>7. /\ Blocks(cut) = Blocks(h) \cup {rest}
      /\ Listed(cut, {block, rest}) = list
      /\ FreeBlocks(cut) = FreeBlocks(h) \cup {rest}
      /\ {block, rest} \subseteq FreeBlocks(cut) /\ cut.owned \subseteq Blocks(cut)
  <2>1. Blocks(cut) = Blocks(h) \cup {rest}
    BY <1>2, <1>4, <1>5 DEF Blocks, size, end
  <2>2. rest \notin h.owned /\ rest \notin list
    BY <1>2, <1>4
  <2>3. FreeBlocks(cut) = FreeBlocks(h) \cup {rest}
    BY <1>5, <2>1, <2>2 DEF FreeBlocks
  <2>4. Listed(cut, {block, rest}) = list
    BY <2>2, <2>3 DEF Listed, list
  <2>5. block \in FreeBlocks(h) /\ h.owned \subseteq Blocks(h)
    BY <1>2 DEF FreeBlocks
  <2>6. QED
    BY <1>5, <2>1, <2>3, <2>4, <2>5
<1>8. Sorted(cutNext, list, end)
  <2>1. \A x \in list \cup {xStart} : cutNext[x] = next[x]
    BY <1>2, <1>5
  <2>2. QED
    BY <1>2, <2>1 DEF Sorted
<1>9. \A x \in list : cutSize[x] = size[x]
  BY <1>2, <1>5
<1>10. \A x \in DOMAIN cutSize \ (list \cup {block, rest} \cup {xStart}) : cutNext[x] = NULL
  BY <1>2, <1>5
<1>11. WellFormedBut(cut, {block, rest})
  BY <1>2, <1>4, <1>5, <1>6, <1>7, <1>8, <1>9, <1>10 DEF WellFormedBut
<1>12. LinkedToList(cut, {block, rest})
  <2>1. cutNext[block] = next[block]
    BY <1>2, <1>5
  <2>2. \/ cutNext[block] = NULL
        \/ /\ block < cutNext[block]
           /\ cutNext[block] \in list \cup {end}
    BY <1>3, <2>1
  <2>3. cut.pxNextFreeBlock = cutNext /\ cut.pxEnd = end /\ cutNext[rest] = NULL
    BY <1>5
  <2>4. QED
    BY <1>7, <2>2, <2>3 DEF LinkedToList
<1>13. {block, rest} \ {rest} = {block}
  BY <1>2, <1>4
<1>14. \A c \in h.owned : cutSize[c] = size[c]
  BY <1>2, <1>5
<1>15. /\ WellFormedBut(g, {block, rest} \ {rest})
       /\ g.owned = cut.owned
       /\ g.pxEnd = cut.pxEnd
       /\ g.xFreeBytesRemaining = cut.xFreeBytesRemaining
       /\ g.xMinimumEverFreeBytesRemaining = cut.xMinimumEverFreeBytesRemaining
       /\ \A c \in cut.owned \cup ({block, rest} \ {rest}) : g.xBlockSize[c] = cut.xBlockSize[c]
       /\ \A c \in Blocks(g) : c \in Blocks(cut) /\ g.xBlockSize[c] >= cut.xBlockSize[c]
  <2>1. rest \in {block, rest}
    OBVIOUS
  <2>2. WellFormedBut(g, {block, rest} \ {rest})
    BY <1>1, <1>11, <1>12, <2>1, InsertKeeps
  <2>3. QED
    BY <1>1, <1>11, <1>12, <2>1, <2>2, InsertKeeps
<1>16. ASSUME NEW c \in Blocks(g) \ {block}
       PROVE  \/ c = rest /\ g.xBlockSize[c] >= size[block] - bytes
              \/ c \in Blocks(h) /\ g.xBlockSize[c] >= size[c]
  <2>1. c \in Blocks(cut) /\ g.xBlockSize[c] >= cutSize[c]
    BY <1>5, <1>15
  <2>2. CASE c = rest
    BY <1>5, <2>1, <2>2
  <2>3. CASE c # rest
    <3>1. c \in Blocks(h) /\ c \in DOMAIN size \ {block}
      BY <1>2, <1>7, <2>1, <2>3
    <3>2. QED
      BY <1>5, <2>1, <3>1
  <2>4. QED
    BY <2>2, <2>3
<1>17. g.xBlockSize[block] = bytes
  BY <1>5, <1>13, <1>15
<1>18. QED
  BY <1>5, <1>13, <1>14, <1>15, <1>16, <1>17 DEF Cut, size, end, rest

-----------------------------------------------------------------------------
(* The heap's functions.                                                     *)

LEMMA Aligned ==
    ASSUME NEW n \in Nat
    PROVE  /\ AlignedDown(n) \in Nat /\ AlignedDown(n) <= n /\ n - 7 <= AlignedDown(n)
           /\ AlignedUp(n) \in Nat /\ n <= AlignedUp(n) /\ AlignedUp(n) <= n + 7
  BY DEF AlignedDown, AlignedUp

LEMMA InitWellFormed ==
    ASSUME NEW bytes \in Nat, bytes >= 3 * portBYTE_ALIGNMENT,
           NEW offset \in 0..(portBYTE_ALIGNMENT - 1), NEW h, h = HeapInit(bytes, offset)
    PROVE  /\ WellFormedBut(h, {}) /\ h.owned = {}
           /\ h.xFreeBytesRemaining = h.pxEnd - Base
           /\ Blocks(h) = {Base}
<1> DEFINE skipped == AlignedUp(offset) - offset
           end == AlignedDown(Base + bytes - skipped - xHeapStructSize)
           size == [b \in {xStart, Base, end} |-> IF b = Base THEN end - Base ELSE 0]
           next == [b \in {xStart, Base, end} |->
                      IF b = xStart THEN Base ELSE IF b = Base THEN end ELSE NULL]
<1>1. end \in Nat /\ Base < end
  <2>1. skipped \in 0..7
    <3>1. offset \in Nat
      OBVIOUS
    <3>2. AlignedUp(offset) \in Nat /\ offset <= AlignedUp(offset) /\ AlignedUp(offset) <= offset + 7
      BY <3>1, Aligned
    <3>3. QED
      BY <3>1, <3>2
  <2>2. Base + bytes - skipped - xHeapStructSize \in Nat
    BY <2>1 DEF xHeapStructSize
  <2>3. Base + bytes - skipped - xHeapStructSize >= 17
    BY <2>1 DEF xHeapStructSize
  <2> HIDE DEF skipped
  <2>4. QED
    BY <2>2, <2>3, Aligned
<1>2. /\ h.xBlockSize = size /\ h.pxNextFreeBlock = next /\ h.owned = {} /\ h.pxEnd = end
      /\ h.xFreeBytesRemaining = end - Base
      /\ IsHeap(h)
  BY HeapFields DEF HeapInit, IsHeap, HeapOf
<1> HIDE DEF end
<1>3. /\ DOMAIN size = {xStart, Base, end} /\ DOMAIN next = {xStart, Base, end}
      /\ size[xStart] = 0 /\ size[Base] = end - Base /\ size[end] = 0
      /\ next[xStart] = Base /\ next[Base] = end /\ next[end] = NULL
      /\ size \in [{xStart, Base, end} -> Nat] /\ next \in [{xStart, Base, end} -> Nat]
  BY <1>1
<1> HIDE DEF size, next
<1>4. Tiles(size, end) = {Base} /\ Blocks(h) = {Base} /\ Listed(h, {}) = {Base}
      /\ FreeBlocks(h) = {Base}
  BY <1>1, <1>2, <1>3 DEF Tiles, Blocks, FreeBlocks, Listed
<1>5. Tiling(size, end)
  BY <1>1, <1>3, <1>4 DEF Tiling
<1>6. Sorted(next, {Base}, end)
  BY <1>1, <1>3 DEF Sorted
<1>7. Base + size[Base] \notin {Base}
  BY <1>1, <1>3
<1>8. /\ h.pxNextFreeBlock \in [DOMAIN h.xBlockSize -> Nat]
      /\ h.owned \subseteq Blocks(h) /\ {} \subseteq FreeBlocks(h)
      /\ \A b \in DOMAIN h.xBlockSize \ (Listed(h, {}) \cup {} \cup {xStart}) :
            h.pxNextFreeBlock[b] = NULL
  BY <1>2, <1>3, <1>4
<1>9. WellFormedBut(h, {})
  BY <1>2, <1>4, <1>5, <1>6, <1>7, <1>8 DEF WellFormedBut
<1>10. QED
  BY <1>2, <1>4, <1>9

\* vPortFree.
LEMMA FreeKeeps ==
    ASSUME NEW h, WellFormedBut(h, {}), NEW block \in h.owned, NEW g, g = Free(h, block)
    PROVE  /\ WellFormedBut(g, {})
           /\ g.owned = h.owned \ {block}
           /\ g.pxEnd = h.pxEnd
           /\ g.xFreeBytesRemaining = h.xFreeBytesRemaining + h.xBlockSize[block]
           /\ \A c \in g.owned : g.xBlockSize[c] = h.xBlockSize[c]
           /\ \A c \in Blocks(g) : c \in Blocks(h) /\ g.xBlockSize[c] >= h.xBlockSize[c]
<1> DEFINE back == [h EXCEPT !.owned = @ \ {block},
                             !.xFreeBytesRemaining = @ + h.xBlockSize[block]]
<1>1. /\ g = InsertBlock(back, block)
      /\ back.xBlockSize = h.xBlockSize /\ back.pxNextFreeBlock = h.pxNextFreeBlock
      /\ back.owned = h.owned \ {block} /\ back.pxEnd = h.pxEnd
      /\ back.xFreeBytesRemaining = h.xFreeBytesRemaining + h.xBlockSize[block]
      /\ IsHeap(back)
  <2>1. back = HeapOf(h.xBlockSize, h.pxNextFreeBlock, h.owned \ {block}, h.pxEnd,
                      h.xFreeBytesRemaining + h.xBlockSize[block],
                      h.xMinimumEverFreeBytesRemaining)
    BY HeapExcept DEF WellFormedBut
  <2>2. g = InsertBlock(back, block)
    BY DEF Free
  <2> HIDE DEF back
  <2>3. QED
    BY <2>1, <2>2, HeapFields
<1> HIDE DEF back
<1>2. /\ Blocks(back) = Blocks(h) /\ FreeBlocks(back) = FreeBlocks(h) \cup {block}
      /\ Listed(back, {block}) = Listed(h, {}) /\ block \in Blocks(h)
      /\ block \notin Listed(h, {}) /\ block # xStart
  <2>1. h.owned \subseteq Blocks(h)
    BY DEF WellFormedBut
  <2>2. Blocks(back) = Blocks(h) /\ block \in Blocks(h) /\ block # xStart
    BY <1>1, <2>1 DEF Blocks
  <2>3. FreeBlocks(back) = FreeBlocks(h) \cup {block} /\ block \notin FreeBlocks(h)
    BY <1>1, <2>2 DEF FreeBlocks
  <2>4. QED
    BY <2>2, <2>3 DEF Listed
<1>3. WellFormedBut(back, {block})
  BY <1>1, <1>2 DEF WellFormedBut
<1>4. LinkedToList(back, {block})
  BY <1>1, <1>2 DEF WellFormedBut, LinkedToList, Blocks
<1>5. {block} \ {block} = {}
  OBVIOUS
<1>6. /\ WellFormedBut(g, {block} \ {block})
      /\ g.owned = back.owned
      /\ g.pxEnd = back.pxEnd
      /\ g.xFreeBytesRemaining = back.xFreeBytesRemaining
      /\ \A c \in back.owned \cup ({block} \ {block}) : g.xBlockSize[c] = back.xBlockSize[c]
      /\ \A c \in Blocks(g) : c \in Blocks(back) /\ g.xBlockSize[c] >= back.xBlockSize[c]
  <2>1. block \in {block}
    OBVIOUS
  <2>2. WellFormedBut(g, {block} \ {block})
    BY <1>1, <1>3, <1>4, <2>1, InsertKeeps
  <2>3. QED
    BY <1>1, <1>3, <1>4, <2>1, <2>2, InsertKeeps
<1>7. QED
  BY <1>1, <1>2, <1>5, <1>6

\* The block found is taken out of the list ...
LEMMA UnlinkKeeps ==
    ASSUME NEW h, WellFormedBut(h, {}), NEW place \in FreeBlocks(h) \cup {xStart},
           NEW block, block = h.pxNextFreeBlock[place], block # h.pxEnd,
           NEW g, g = HeapOf(h.xBlockSize,
                             Redirected(h.pxNextFreeBlock, place, h.pxNextFreeBlock[block]),
                             h.owned, h.pxEnd, h.xFreeBytesRemaining,
                             h.xMinimumEverFreeBytesRemaining)
    PROVE  /\ block \in FreeBlocks(h)
           /\ WellFormedBut(g, {block}) /\ LinkedToList(g, {block})
           /\ g.xBlockSize = h.xBlockSize /\ g.owned = h.owned /\ g.pxEnd = h.pxEnd
           /\ g.xFreeBytesRemaining = h.xFreeBytesRemaining
<1> DEFINE size == h.xBlockSize
           next == h.pxNextFreeBlock
           end == h.pxEnd
           list == FreeBlocks(h)
           new == [next EXCEPT ![place] = next[block]]
<1>1. /\ IsHeap(h) /\ Tiling(size, end) /\ Sorted(next, list, end)
      /\ DOMAIN next = DOMAIN size /\ next \in [DOMAIN size -> Nat]
      /\ \A x \in DOMAIN size : x \in Nat /\ next[x] \in Nat
      /\ Tiles(size, end) = Blocks(h) /\ h.owned \subseteq Blocks(h)
      /\ list = Blocks(h) \ h.owned
      /\ list \cup {xStart, end} \subseteq DOMAIN size
      /\ end \notin list /\ xStart \notin list /\ end # xStart
      /\ \A x \in DOMAIN size \ (list \cup {xStart}) : next[x] = NULL
      /\ \A x \in list : x + size[x] \notin list
  BY DEF WellFormedBut, Tiling, Tiles, Listed, FreeBlocks, Blocks
<1>2. /\ g.xBlockSize = size /\ g.pxNextFreeBlock = new /\ g.owned = h.owned /\ g.pxEnd = end
      /\ g.xFreeBytesRemaining = h.xFreeBytesRemaining /\ IsHeap(g)
  <2> HIDE DEF new
  <2>1. g = HeapOf(h.xBlockSize, new, h.owned, h.pxEnd, h.xFreeBytesRemaining,
                   h.xMinimumEverFreeBytesRemaining)
    BY DEF new, Redirected
  <2>2. QED
    BY <2>1, HeapFields
<1> HIDE DEF size, next, end, list
<1>3. /\ \A q \in list \cup {xStart} : /\ next[q] \in list \cup {end} /\ q < next[q]
                                       /\ q \in Nat /\ next[q] \in Nat
                                       /\ \A f \in list \cup {end} : q < f => next[q] <= f
  BY <1>1 DEF Sorted
<1>4. block \in list /\ place \in list \cup {xStart} /\ block = next[place]
  BY <1>3 DEF list, next, end
<1>5. /\ DOMAIN new = DOMAIN size /\ new[place] = next[block]
      /\ \A x \in DOMAIN size \ {place} : new[x] = next[x]
      /\ new \in [DOMAIN size -> Nat]
  BY <1>1, <1>4
<1>6. /\ place < block /\ block < next[block] /\ next[block] \in list \cup {end}
      /\ place \in Nat /\ block \in Nat
  BY <1>3, <1>4
<1> HIDE DEF new
<1>7. FreeBlocks(g) = list /\ Blocks(g) = Blocks(h) /\ Listed(g, {block}) = list \ {block}
  BY <1>2 DEF FreeBlocks, Blocks, Listed, list, size, end
<1>8. Sorted(new, list \ {block}, end)
  <2>1. ASSUME NEW x \in (list \ {block}) \cup {xStart}
        PROVE  /\ new[x] \in (list \ {block}) \cup {end} /\ x < new[x]
               /\ \A f \in (list \ {block}) \cup {end} : x < f => new[x] <= f
    <3>1. CASE x = place
      <4>1. new[x] = next[block] /\ next[block] # block
        BY <1>5, <1>6, <3>1
      <4>2. \A f \in (list \ {block}) \cup {end} : place < f => block < f
        <5>1. \A f \in list \cup {end} : f \in Nat /\ (place < f => block <= f)
          BY <1>1, <1>3, <1>4
        <5>2. block # end
          BY <1>1, <1>4
        <5>3. QED
          BY <1>6, <5>1, <5>2
      <4>3. \A f \in list \cup {end} : block < f => next[block] <= f
        BY <1>3, <1>4
      <4>4. x < next[block]
        BY <1>3, <1>4, <1>6, <3>1
      <4>5. QED
        BY <1>6, <3>1, <4>1, <4>2, <4>3, <4>4
    <3>2. CASE x # place
      <4>1. x \in list \cup {xStart} /\ x \in DOMAIN size /\ new[x] = next[x] /\ x \in Nat
        BY <1>1, <1>5, <3>2
      <4>2. next[x] # block
        <5>1. CASE x < place
          <6>1. place \in list
            BY <1>1, <1>3, <1>4, <4>1, <5>1 DEF Tiling, Tiles, list, FreeBlocks, Blocks
          <6>2. next[x] <= place
            BY <1>3, <4>1, <5>1, <6>1
          <6>3. QED
            BY <1>3, <1>6, <4>1, <6>2
        <5>2. CASE place < x
          <6>1. x \in list
            BY <1>6, <3>2, <4>1, <1>1, <5>2, <1>4 DEF Tiling
          <6>2. block <= x /\ x < next[x]
            BY <1>3, <1>4, <4>1, <5>2, <6>1
          <6>3. QED
            BY <1>3, <1>6, <4>1, <6>2
        <5>3. QED
          BY <1>6, <3>2, <4>1, <5>1, <5>2
      <4>3. QED
        BY <1>3, <4>1, <4>2
    <3>3. QED
      BY <3>1, <3>2
  <2>2. QED
    BY <2>1 DEF Sorted
<1>9. \A x \in DOMAIN size \ ((list \ {block}) \cup {block} \cup {xStart}) : new[x] = NULL
  BY <1>1, <1>4, <1>5
<1>10. WellFormedBut(g, {block})
  BY <1>1, <1>2, <1>4, <1>5, <1>7, <1>8, <1>9 DEF WellFormedBut
<1>11. new[block] = next[block]
  BY <1>1, <1>4, <1>5, <1>6
<1>12. LinkedToList(g, {block})
  <2>1. next[block] \in (list \ {block}) \cup {end} /\ block < next[block]
    BY <1>6
  <2>2. g.pxNextFreeBlock[block] = next[block] /\ g.pxEnd = end
    BY <1>2, <1>11
  <2>3. QED
    BY <1>7, <2>1, <2>2 DEF LinkedToList
<1>13. QED
  BY <1>2, <1>4, <1>10, <1>12 DEF size, end, list

\* ... and is allocated.
TakenHeap(h, block, remaining, minimum) ==
    HeapOf(h.xBlockSize, Redirected(h.pxNextFreeBlock, block, NULL),
           h.owned \cup {block}, h.pxEnd, remaining, minimum)

LEMMA TakeKeeps ==
    ASSUME NEW h, NEW block, WellFormedBut(h, {block}), NEW remaining, NEW minimum,
           NEW g, g = TakenHeap(h, block, remaining, minimum)
    PROVE  /\ WellFormedBut(g, {})
           /\ g.xBlockSize = h.xBlockSize /\ g.owned = h.owned \cup {block} /\ g.pxEnd = h.pxEnd
           /\ g.xFreeBytesRemaining = remaining
<1> DEFINE size == h.xBlockSize
           next == h.pxNextFreeBlock
           end == h.pxEnd
           list == Listed(h, {block})
           new == [next EXCEPT ![block] = NULL]
<1>1. /\ IsHeap(h) /\ Tiling(size, end) /\ Sorted(next, list, end)
      /\ DOMAIN next = DOMAIN size /\ next \in [DOMAIN size -> Nat]
      /\ h.owned \subseteq Blocks(h)
      /\ block \in Blocks(h) \ h.owned /\ block # xStart /\ block \notin list
      /\ list = FreeBlocks(h) \ {block}
      /\ list \cup {xStart} \subseteq DOMAIN size
      /\ \A x \in DOMAIN size \ (list \cup {block} \cup {xStart}) : next[x] = NULL
      /\ \A x \in list : x + size[x] \notin list
  BY DEF WellFormedBut, Tiling, Tiles, Listed, FreeBlocks, Blocks
<1>2. /\ g.xBlockSize = size /\ g.pxNextFreeBlock = new /\ g.owned = h.owned \cup {block}
      /\ g.pxEnd = end /\ g.xFreeBytesRemaining = remaining /\ IsHeap(g)
  <2> HIDE DEF new
  <2>1. g = HeapOf(h.xBlockSize, new, h.owned \cup {block}, h.pxEnd, remaining, minimum)
    BY DEF new, Redirected, TakenHeap
  <2>2. QED
    BY <2>1, HeapFields
<1> HIDE DEF size, next, end, list
<1>3. /\ \A x \in DOMAIN size \ {block} : new[x] = next[x]
      /\ \A x \in DOMAIN size : x = block => new[x] = NULL
      /\ new \in [DOMAIN size -> Nat]
  BY <1>1
<1> HIDE DEF new
<1>4. /\ Blocks(g) = Blocks(h) /\ FreeBlocks(g) = list /\ Listed(g, {}) = list
      /\ g.owned \subseteq Blocks(g)
  <2>1. Blocks(g) = Blocks(h)
    BY <1>2 DEF Blocks, size, end
  <2>2. FreeBlocks(g) = list
    BY <1>1, <1>2, <2>1 DEF FreeBlocks
  <2>3. QED
    BY <1>1, <1>2, <2>1, <2>2 DEF Listed
<1>5. Sorted(new, list, end)
  <2>1. \A x \in list \cup {xStart} : new[x] = next[x]
    BY <1>1, <1>3
  <2>2. QED
    BY <1>1, <2>1 DEF Sorted
<1>6. \A x \in DOMAIN size \ (list \cup {} \cup {xStart}) : new[x] = NULL
  BY <1>1, <1>3
<1>7. WellFormedBut(g, {})
  BY <1>1, <1>2, <1>3, <1>4, <1>5, <1>6 DEF WellFormedBut
<1>8. QED
  BY <1>2, <1>7 DEF size, end

\* No block is taken only if none is large enough, and one that is taken keeps what
\* is not worth a block of its own.
NoneFits(h, bytes) ==
    \/ bytes = 0 \/ bytes > h.xFreeBytesRemaining
    \/ \A f \in FreeBlocks(h) : h.xBlockSize[f] < bytes

CutToFit(h, block, g, bytes) ==
    /\ g.xBlockSize[block] >= bytes /\ g.xBlockSize[block] <= bytes + heapMINIMUM_BLOCK_SIZE
    /\ h.xBlockSize[block] > bytes + heapMINIMUM_BLOCK_SIZE => g.xBlockSize[block] = bytes
    /\ \A c \in Blocks(g) \ {block} :
        \/ c = block + bytes /\ g.xBlockSize[c] > heapMINIMUM_BLOCK_SIZE
        \/ c \in Blocks(h) /\ g.xBlockSize[c] >= h.xBlockSize[c]

\* pvPortMalloc.
LEMMA MallocKeeps ==
    ASSUME NEW h, WellFormedBut(h, {}), NEW wanted \in Nat, NEW m, m = Malloc(h, wanted)
    PROVE  \/ m.block = NULL /\ m.heap = h /\ NoneFits(h, BlockFor(wanted))
           \/ /\ m.block \in FreeBlocks(h)
              /\ WellFormedBut(m.heap, {})
              /\ m.heap.owned = h.owned \cup {m.block}
              /\ m.heap.pxEnd = h.pxEnd
              /\ m.heap.xFreeBytesRemaining
                   = h.xFreeBytesRemaining - m.heap.xBlockSize[m.block]
              /\ \A c \in h.owned : m.heap.xBlockSize[c] = h.xBlockSize[c]
              /\ CutToFit(h, m.block, m.heap, BlockFor(wanted))
<1> DEFINE bytes == BlockFor(wanted)
           place == PlaceOfFit(h, bytes)
           block == h.pxNextFreeBlock[place]
           unlinked == [h EXCEPT !.pxNextFreeBlock[place] = h.pxNextFreeBlock[block]]
           splits == h.xBlockSize[block] - bytes > heapMINIMUM_BLOCK_SIZE
           taken == IF splits THEN Split(unlinked, block, bytes) ELSE unlinked
           remaining == h.xFreeBytesRemaining - taken.xBlockSize[block]
           minimum == Min({taken.xMinimumEverFreeBytesRemaining, remaining})
           fails == bytes = 0 \/ bytes > h.xFreeBytesRemaining \/ block = h.pxEnd
           after == [taken EXCEPT
                       !.owned = taken.owned \cup {block},
                       !.pxNextFreeBlock = [taken.pxNextFreeBlock EXCEPT ![block] = NULL],
                       !.xFreeBytesRemaining = remaining,
                       !.xMinimumEverFreeBytesRemaining = minimum]
<1>1. m = IF fails THEN [block |-> NULL, heap |-> h] ELSE [block |-> block, heap |-> after]
  BY DEF Malloc
<1>2. bytes \in Nat
  <2>1. CASE wanted = 0
    BY <2>1 DEF BlockFor
  <2>2. CASE wanted # 0
    <3>1. wanted + xHeapStructSize \in Nat
      BY DEF xHeapStructSize
    <3>2. QED
      BY <2>2, <3>1, Aligned DEF BlockFor
  <2>3. QED
    BY <2>1, <2>2
<1>3. IsHeap(h)
  BY DEF WellFormedBut
<1>4. unlinked = HeapOf(h.xBlockSize,
                        Redirected(h.pxNextFreeBlock, place, h.pxNextFreeBlock[block]),
                        h.owned, h.pxEnd, h.xFreeBytesRemaining,
                        h.xMinimumEverFreeBytesRemaining)
  <2> DEFINE nexts == [h.pxNextFreeBlock EXCEPT ![place] = h.pxNextFreeBlock[block]]
  <2> HIDE DEF nexts
  <2>1. [h EXCEPT !.pxNextFreeBlock = nexts]
          = HeapOf(h.xBlockSize, nexts, h.owned, h.pxEnd, h.xFreeBytesRemaining,
                   h.xMinimumEverFreeBytesRemaining)
    BY <1>3, HeapExcept
  <2>2. QED
    BY <2>1, Zenon DEF nexts, Redirected
<1>5. /\ place \in FreeBlocks(h) \cup {xStart}
      /\ block # h.pxEnd => h.xBlockSize[block] >= bytes
      /\ block = h.pxEnd => \A f \in FreeBlocks(h) : h.xBlockSize[f] < bytes
  <2> HIDE DEF bytes
  <2>1. QED
    BY <1>2, PlaceOfFitBlock
<1> HIDE DEF unlinked, bytes, place, block
<1>6. CASE fails
  <2>1. NoneFits(h, bytes)
    BY <1>5, <1>6 DEF NoneFits
  <2>2. QED
    BY <1>1, <1>6, <2>1 DEF bytes
<1>7. CASE ~fails
  <2>1. 0 < bytes /\ block # h.pxEnd
    BY <1>2, <1>7
  <2>2. /\ block \in FreeBlocks(h)
        /\ WellFormedBut(unlinked, {block}) /\ LinkedToList(unlinked, {block})
        /\ unlinked.xBlockSize = h.xBlockSize /\ unlinked.owned = h.owned
        /\ unlinked.pxEnd = h.pxEnd
    BY <1>4, <1>5, <2>1, UnlinkKeeps DEF block
  <2>3. h.xBlockSize[block] \in Nat
    BY <2>2 DEF WellFormedBut, Tiling, FreeBlocks, Blocks
  <2>4. /\ WellFormedBut(taken, {block})
        /\ taken.owned = h.owned /\ taken.pxEnd = h.pxEnd
        /\ \A c \in h.owned : taken.xBlockSize[c] = h.xBlockSize[c]
        /\ CutToFit(h, block, taken, bytes)
    <3>1. CASE splits
      <4>1. bytes < unlinked.xBlockSize[block]
        BY <1>2, <2>2, <2>3, <3>1 DEF heapMINIMUM_BLOCK_SIZE, xHeapStructSize
      <4>2. taken = Split(unlinked, block, bytes)
        BY <3>1
      <4> HIDE DEF taken
      <4>3. Cut(unlinked, block, bytes, taken)
        <5>1. WellFormedBut(unlinked, {block}) /\ LinkedToList(unlinked, {block})
          BY <2>2
        <5>2. bytes \in Nat /\ 0 < bytes
          BY <1>2, <2>1
        <5>3. QED
          BY <4>1, <4>2, <5>1, <5>2, SplitKeeps
      <4>4. Blocks(unlinked) = Blocks(h)
        BY <2>2 DEF Blocks
      <4>5. CutToFit(h, block, taken, bytes)
        <5>1. \A c \in Blocks(taken) : taken.xBlockSize[c] \in Nat
          BY <4>3 DEF Cut, WellFormedBut, Tiling, Blocks
        <5>2. \A c \in Blocks(taken) \ {block} :
                \/ c = block + bytes /\ taken.xBlockSize[c] >= h.xBlockSize[block] - bytes
                \/ c \in Blocks(h) /\ taken.xBlockSize[c] >= h.xBlockSize[c]
          BY <2>2, <4>3, <4>4 DEF Cut
        <5>3. h.xBlockSize[block] - bytes > heapMINIMUM_BLOCK_SIZE /\ heapMINIMUM_BLOCK_SIZE = 16
          BY <3>1 DEF heapMINIMUM_BLOCK_SIZE, xHeapStructSize
        <5> HIDE DEF splits
        <5>4. \A c \in Blocks(taken) \ {block} :
                \/ c = block + bytes /\ taken.xBlockSize[c] > heapMINIMUM_BLOCK_SIZE
                \/ c \in Blocks(h) /\ taken.xBlockSize[c] >= h.xBlockSize[c]
          BY <1>2, <2>3, <5>1, <5>2, <5>3
        <5>5. QED
          BY <1>2, <4>3, <5>3, <5>4 DEF Cut, CutToFit
      <4>6. QED
        BY <2>2, <4>3, <4>5 DEF Cut
    <3>2. CASE ~splits
      <4>1. taken = unlinked
        BY <3>2
      <4>2. h.xBlockSize[block] <= bytes + heapMINIMUM_BLOCK_SIZE
        BY <1>2, <2>3, <3>2 DEF heapMINIMUM_BLOCK_SIZE, xHeapStructSize
      <4> HIDE DEF taken, splits
      <4>3. \A c \in Blocks(h) : h.xBlockSize[c] \in Nat
        BY DEF WellFormedBut, Tiling, Blocks
      <4>4. Blocks(taken) = Blocks(h) /\ taken.xBlockSize = h.xBlockSize
        BY <2>2, <4>1 DEF Blocks
      <4>5. h.xBlockSize[block] >= bytes /\ heapMINIMUM_BLOCK_SIZE = 16
        BY <1>5, <2>1 DEF heapMINIMUM_BLOCK_SIZE, xHeapStructSize
      <4>6. CutToFit(h, block, taken, bytes)
        BY <1>2, <2>3, <4>2, <4>3, <4>4, <4>5 DEF CutToFit
      <4>7. QED
        BY <2>2, <4>1, <4>6
    <3>3. QED
      BY <3>1, <3>2
  <2> HIDE DEF taken, remaining, minimum
  <2> DEFINE nexts == Redirected(taken.pxNextFreeBlock, block, NULL)
             owned == taken.owned \cup {block}
  <2>5. after = HeapOf(taken.xBlockSize, nexts, owned, taken.pxEnd, remaining, minimum)
    <3>1. IsHeap(taken)
      BY <2>4 DEF WellFormedBut
    <3>2. after = Allocated(taken, nexts, owned, remaining, minimum)
      BY Zenon DEF Allocated, Redirected
    <3> HIDE DEF nexts, owned, after
    <3>3. QED
      BY <3>1, <3>2, HeapAllocated
  <2> HIDE DEF after
  <2>6. /\ WellFormedBut(after, {})
        /\ after.xBlockSize = taken.xBlockSize /\ after.owned = taken.owned \cup {block}
        /\ after.pxEnd = taken.pxEnd /\ after.xFreeBytesRemaining = remaining
    <3>1. after = TakenHeap(taken, block, remaining, minimum)
      BY <2>5 DEF TakenHeap
    <3>2. WellFormedBut(taken, {block})
      BY <2>4
    <3>3. WellFormedBut(after, {})
      BY <3>1, <3>2, TakeKeeps
    <3>4. QED
      BY <2>5, <3>3, HeapFields
  <2>7. m.block = block /\ m.heap = after
    BY <1>1, <1>7
  <2>8. CutToFit(h, block, after, bytes)
    <3>1. Blocks(after) = Blocks(taken)
      BY <2>6 DEF Blocks
    <3>2. QED
      BY <2>4, <2>6, <3>1 DEF CutToFit
  <2>9. QED
    BY <2>2, <2>4, <2>6, <2>7, <2>8 DEF remaining, bytes
<1>8. QED
  BY <1>6, <1>7

-----------------------------------------------------------------------------
(* The bytes of a set of blocks.                                             *)

BytesIn(size, S) == MapThenSumSet(LAMBDA b : size[b], S)

\* What MapThenSumSet computes: the sums of the subsets of all.
SumsTo(size, sum, s) ==
    IF s = {} THEN 0 ELSE size[CHOOSE x \in s : TRUE] + sum[s \ {CHOOSE x \in s : TRUE}]

AreSums(size, all, sum) == sum = [s \in SUBSET all |-> SumsTo(size, sum, s)]

Sized(size, all) == IsFiniteSet(all) /\ \A x \in all : size[x] \in Int

LEMMA SumsExist ==
    ASSUME NEW size, NEW all, Sized(size, all)
    PROVE  \E sum \in [SUBSET all -> Int] : AreSums(size, all, sum)
<1> USE DEF Sized
<1> DEFINE Upto(n, sum) == \A s \in SUBSET all : Cardinality(s) <= n => sum[s] = SumsTo(size, sum, s)
           bad == {n \in Nat : ~\E sum \in [SUBSET all -> Int] : Upto(n, sum)}
<1>1. \A s \in SUBSET all : /\ IsFiniteSet(s) /\ Cardinality(s) \in Nat
                            /\ Cardinality(s) <= Cardinality(all)
                            /\ (Cardinality(s) = 0 <=> s = {})
  BY FS_Subset, FS_CardinalityType, FS_EmptySet
<1>2. \A s \in SUBSET all : \A sum \in [SUBSET all -> Int] : SumsTo(size, sum, s) \in Int
  BY DEF SumsTo
<1>3. \A s \in SUBSET all : s # {} =>
        LET c == CHOOSE x \in s : TRUE
        IN  c \in s /\ s \ {c} \in SUBSET all /\ Cardinality(s \ {c}) = Cardinality(s) - 1
  <2> SUFFICES ASSUME NEW s \in SUBSET all, s # {}
               PROVE  LET c == CHOOSE x \in s : TRUE
                      IN  c \in s /\ s \ {c} \in SUBSET all /\ Cardinality(s \ {c}) = Cardinality(s) - 1
    OBVIOUS
  <2>1. (CHOOSE x \in s : TRUE) \in s
    OBVIOUS
  <2>2. QED
    BY <1>1, <2>1, FS_RemoveElement
<1>4. bad = {}
  <2>1. SUFFICES ASSUME bad # {} PROVE FALSE
    OBVIOUS
  <2>2. PICK n \in bad : \A k \in bad : n <= k
    <3>1. bad \in SUBSET Nat
      OBVIOUS
    <3> HIDE DEF bad
    <3>2. QED
      BY <2>1, <3>1, LeastNat
  <2>3. CASE n = 0
    <3> DEFINE zero == [s \in SUBSET all |-> 0]
    <3>1. zero \in [SUBSET all -> Int] /\ \A s \in SUBSET all : zero[s] = 0
      OBVIOUS
    <3>2. \A s \in SUBSET all : Cardinality(s) <= 0 => s = {}
      BY <1>1
    <3>3. Upto(0, zero)
      BY <3>1, <3>2 DEF SumsTo
    <3>4. QED
      BY <2>3, <3>1, <3>3
  <2>4. CASE n # 0
    <3>1. n - 1 \in Nat /\ n - 1 \notin bad /\ n \in Nat
      <4>1. n \in Nat
        OBVIOUS
      <4> HIDE DEF bad
      <4>2. n - 1 \in Nat /\ ~(n <= n - 1)
        BY <2>4, <4>1
      <4>3. QED
        BY <2>2, <4>1, <4>2
    <3>2. PICK sum \in [SUBSET all -> Int] : Upto(n - 1, sum)
      BY <3>1
    <3> DEFINE next == [s \in SUBSET all |-> SumsTo(size, sum, s)]
    <3>3. next \in [SUBSET all -> Int] /\ \A s \in SUBSET all : next[s] = SumsTo(size, sum, s)
      BY <1>2
    <3>4. ASSUME NEW s \in SUBSET all, Cardinality(s) <= n
          PROVE  SumsTo(size, sum, s) = SumsTo(size, next, s)
      <4>1. CASE s = {}
        BY <4>1 DEF SumsTo
      <4>2. CASE s # {}
        <5> DEFINE c == CHOOSE x \in s : TRUE
        <5>1. s \ {c} \in SUBSET all /\ Cardinality(s \ {c}) <= n - 1
          BY <1>1, <1>3, <3>1, <3>4, <4>2
        <5> HIDE DEF next
        <5>2. next[s \ {c}] = sum[s \ {c}]
          BY <3>2, <3>3, <5>1
        <5>3. QED
          BY <5>2 DEF SumsTo
      <4>3. QED
        BY <4>1, <4>2
    <3>5. Upto(n, next)
      <4> HIDE DEF next
      <4>1. QED
        BY <3>3, <3>4
    <3>6. n \notin bad
      BY <3>3, <3>5
    <3>7. QED
      BY <3>6
  <2>5. QED
    BY <2>3, <2>4
<1>5. PICK sum \in [SUBSET all -> Int] : Upto(Cardinality(all), sum)
  BY <1>1, <1>4
<1>6. \A s \in SUBSET all : sum[s] = SumsTo(size, sum, s)
  BY <1>1, <1>5
<1>7. QED
  BY <1>6, Zenon DEF AreSums

\* Two such functions agree where the sizes do.
LEMMA SumsAgree ==
    ASSUME NEW size, NEW all, NEW sum, IsFiniteSet(all), AreSums(size, all, sum),
           NEW size2, NEW all2, NEW sum2, AreSums(size2, all2, sum2),
           NEW S, S \subseteq all, S \subseteq all2, \A x \in S : size[x] = size2[x]
    PROVE  sum[S] = sum2[S]
<1> DEFINE bad == {n \in Nat : \E s \in SUBSET S : Cardinality(s) = n /\ sum[s] # sum2[s]}
<1>1. \A s \in SUBSET S : sum[s] = SumsTo(size, sum, s) /\ sum2[s] = SumsTo(size2, sum2, s)
  <2>1. \A s \in SUBSET all : sum[s] = SumsTo(size, sum, s)
    BY Zenon DEF AreSums
  <2>2. \A s \in SUBSET all2 : sum2[s] = SumsTo(size2, sum2, s)
    BY Zenon DEF AreSums
  <2>3. QED
    BY <2>1, <2>2
<1>2. \A s \in SUBSET S : IsFiniteSet(s) /\ Cardinality(s) \in Nat
  BY FS_Subset, FS_CardinalityType
<1>3. bad = {}
  <2>1. SUFFICES ASSUME bad # {} PROVE FALSE
    OBVIOUS
  <2>2. PICK n \in bad : \A k \in bad : n <= k
    <3>1. bad \in SUBSET Nat
      OBVIOUS
    <3> HIDE DEF bad
    <3>2. QED
      BY <2>1, <3>1, LeastNat
  <2>3. PICK s \in SUBSET S : Cardinality(s) = n /\ sum[s] # sum2[s]
    BY <2>2
  <2>4. s # {}
    BY <1>1, <2>3 DEF SumsTo
  <2> DEFINE c == CHOOSE x \in s : TRUE
  <2>5. c \in s /\ s \ {c} \in SUBSET S
    BY <2>4
  <2>6. Cardinality(s \ {c}) = n - 1
    <3>1. IsFiniteSet(s)
      BY <1>2
    <3> HIDE DEF c
    <3>2. QED
      BY <2>3, <2>5, <3>1, FS_RemoveElement
  <2>7. Cardinality(s \ {c}) \notin bad /\ Cardinality(s \ {c}) \in Nat
    BY <1>2, <2>2, <2>5, <2>6
  <2>8. sum[s \ {c}] = sum2[s \ {c}]
    BY <2>5, <2>7
  <2>9. sum[s] = size[c] + sum[s \ {c}] /\ sum2[s] = size2[c] + sum2[s \ {c}]
    BY <1>1, <2>4 DEF SumsTo
  <2>10. size[c] = size2[c]
    BY <2>5
  <2> HIDE DEF c
  <2>11. QED
    BY <2>3, <2>8, <2>9, <2>10
<1>4. QED
  BY <1>2, <1>3

\* It does not matter which block is counted first.
LEMMA SumsRemove ==
    ASSUME NEW size, NEW all, NEW sum, \A s \in SUBSET all : sum[s] \in Int, Sized(size, all),
           AreSums(size, all, sum), NEW y \in all
    PROVE  sum[all] = size[y] + sum[all \ {y}]
<1> USE DEF Sized
<1> DEFINE Good(s) == \A x \in s : sum[s] = size[x] + sum[s \ {x}]
           bad == {n \in Nat : \E s \in SUBSET all : Cardinality(s) = n /\ ~Good(s)}
<1>1. \A s \in SUBSET all : /\ sum[s] \in Int /\ sum[s] = SumsTo(size, sum, s)
                            /\ IsFiniteSet(s) /\ Cardinality(s) \in Nat
  <2>1. \A s \in SUBSET all : sum[s] = SumsTo(size, sum, s)
    BY Zenon DEF AreSums
  <2>2. QED
    BY <2>1, FS_Subset, FS_CardinalityType
<1>2. bad = {}
  <2>1. SUFFICES ASSUME bad # {} PROVE FALSE
    OBVIOUS
  <2>2. PICK n \in bad : \A k \in bad : n <= k
    <3>1. bad \in SUBSET Nat
      OBVIOUS
    <3> HIDE DEF bad
    <3>2. QED
      BY <2>1, <3>1, LeastNat
  <2>3. PICK s \in SUBSET all : Cardinality(s) = n /\ ~Good(s)
    BY <2>2
  <2>4. PICK x \in s : sum[s] # size[x] + sum[s \ {x}]
    BY <2>3
  <2> DEFINE c == CHOOSE z \in s : TRUE
  <2>5. c \in s
    OBVIOUS
  <2>6. sum[s] = size[c] + sum[s \ {c}]
    BY <1>1, <2>4 DEF SumsTo
  <2> HIDE DEF c
  <2>7. c # x
    BY <2>4, <2>6
  <2>8. ASSUME NEW z \in s PROVE Good(s \ {z})
    <3>1. s \ {z} \in SUBSET all /\ Cardinality(s \ {z}) = n - 1
      BY <1>1, <2>3, FS_RemoveElement
    <3>2. n - 1 \notin bad /\ n - 1 \in Nat
      BY <1>1, <2>2, <3>1
    <3>3. QED
      BY <3>1, <3>2
  <2>9. /\ sum[s \ {c}] = size[x] + sum[(s \ {c}) \ {x}]
        /\ sum[s \ {x}] = size[c] + sum[(s \ {x}) \ {c}]
    BY <2>5, <2>7, <2>8
  <2>10. (s \ {c}) \ {x} = (s \ {x}) \ {c}
    OBVIOUS
  <2>11. size[x] \in Int /\ size[c] \in Int /\ sum[(s \ {x}) \ {c}] \in Int
    BY <1>1, <2>5
  <2> DEFINE t == sum[(s \ {x}) \ {c}]
  <2>12. sum[s \ {c}] = size[x] + t /\ sum[s \ {x}] = size[c] + t
    BY <2>9, <2>10
  <2> HIDE DEF t
  <2>13. size[c] + (size[x] + t) = size[x] + (size[c] + t)
    BY <2>11 DEF t
  <2>14. QED
    BY <2>4, <2>6, <2>12, <2>13, Zenon
<1>3. Good(all)
  <2>1. all \in SUBSET all
    OBVIOUS
  <2>2. QED
    BY <1>1, <1>2, <2>1
<1>4. QED
  BY <1>3

LEMMA BytesAre ==
    ASSUME NEW size, NEW S, Sized(size, S)
    PROVE  \E sum \in [SUBSET S -> Int] : AreSums(size, S, sum) /\ BytesIn(size, S) = sum[S]
<1>1. BytesIn(size, S) = (CHOOSE sum : AreSums(size, S, sum))[S]
  BY DEF BytesIn, MapThenSumSet, MapThenFoldSet, AreSums, SumsTo
<1>2. PICK sum \in [SUBSET S -> Int] : AreSums(size, S, sum)
  BY SumsExist
<1> DEFINE chosen == CHOOSE g : AreSums(size, S, g)
<1>3. AreSums(size, S, chosen)
  BY <1>2, Zenon
<1> HIDE DEF chosen
<1>4. \A s \in SUBSET S : chosen[s] = sum[s]
  <2> SUFFICES ASSUME NEW s \in SUBSET S PROVE chosen[s] = sum[s]
    OBVIOUS
  <2>1. IsFiniteSet(S) /\ s \subseteq S
    BY DEF Sized
  <2>2. QED
    BY <1>2, <1>3, <2>1, SumsAgree
<1>5. BytesIn(size, S) = sum[S]
  BY <1>1, <1>4 DEF chosen
<1>6. QED
  BY <1>2, <1>5

\* No block, no bytes; one block more or less; and the sizes of others do not count.
LEMMA NoBytes == \A size : BytesIn(size, {}) = 0
<1> SUFFICES ASSUME NEW size PROVE BytesIn(size, {}) = 0
  OBVIOUS
<1>1. Sized(size, {})
  BY FS_EmptySet DEF Sized
<1>2. PICK sum \in [SUBSET {} -> Int] : AreSums(size, {}, sum) /\ BytesIn(size, {}) = sum[{}]
  BY <1>1, BytesAre
<1>3. sum[{}] = SumsTo(size, sum, {})
  BY <1>2, Zenon DEF AreSums
<1>4. QED
  BY <1>2, <1>3 DEF SumsTo

LEMMA BytesWithout ==
    ASSUME NEW size, NEW S, Sized(size, S), NEW y \in S
    PROVE  /\ BytesIn(size, S) \in Int /\ BytesIn(size, S \ {y}) \in Int
           /\ BytesIn(size, S) = size[y] + BytesIn(size, S \ {y})
<1>1. PICK sum \in [SUBSET S -> Int] : AreSums(size, S, sum) /\ BytesIn(size, S) = sum[S]
  BY BytesAre
<1>2. Sized(size, S \ {y})
  BY FS_RemoveElement DEF Sized
<1>3. PICK sum2 \in [SUBSET (S \ {y}) -> Int] :
        AreSums(size, S \ {y}, sum2) /\ BytesIn(size, S \ {y}) = sum2[S \ {y}]
  BY <1>2, BytesAre
<1>4. sum[S] = size[y] + sum[S \ {y}]
  <2>1. (\A s \in SUBSET S : sum[s] \in Int) /\ AreSums(size, S, sum) /\ Sized(size, S)
    BY <1>1
  <2>2. QED
    BY <2>1, SumsRemove
<1>5. sum[S \ {y}] = sum2[S \ {y}]
  <2>1. IsFiniteSet(S) /\ S \ {y} \subseteq S /\ S \ {y} \subseteq S \ {y}
    BY DEF Sized
  <2>2. QED
    BY <1>1, <1>3, <2>1, SumsAgree
<1>6. QED
  BY <1>1, <1>3, <1>4, <1>5

LEMMA BytesSame ==
    ASSUME NEW size, NEW size2, NEW S, Sized(size, S), \A x \in S : size[x] = size2[x]
    PROVE  BytesIn(size, S) = BytesIn(size2, S)
<1>1. PICK sum \in [SUBSET S -> Int] : AreSums(size, S, sum) /\ BytesIn(size, S) = sum[S]
  BY BytesAre
<1>2. Sized(size2, S)
  BY DEF Sized
<1>3. PICK sum2 \in [SUBSET S -> Int] : AreSums(size2, S, sum2) /\ BytesIn(size2, S) = sum2[S]
  BY <1>2, BytesAre
<1>4. sum[S] = sum2[S]
  <2>1. IsFiniteSet(S) /\ S \subseteq S
    BY DEF Sized
  <2>2. QED
    BY <1>1, <1>3, <2>1, SumsAgree
<1>5. QED
  BY <1>1, <1>3, <1>4

\* A set of sets to which every finite set belongs, because the empty one does and
\* one more element does not matter.
LEMMA FinitelyBuilt ==
    ASSUME NEW S, IsFiniteSet(S), NEW G, {} \in G,
           \A T \in SUBSET S : \A x \in T : T \ {x} \in G => T \in G
    PROVE  S \in G
<1> DEFINE bad == {n \in Nat : \E T \in SUBSET S : Cardinality(T) = n /\ T \notin G}
<1>1. \A T \in SUBSET S : IsFiniteSet(T) /\ Cardinality(T) \in Nat
  BY FS_Subset, FS_CardinalityType
<1>2. bad = {}
  <2>1. SUFFICES ASSUME bad # {} PROVE FALSE
    OBVIOUS
  <2>2. PICK n \in bad : \A k \in bad : n <= k
    <3>1. bad \in SUBSET Nat
      OBVIOUS
    <3> HIDE DEF bad
    <3>2. QED
      BY <2>1, <3>1, LeastNat
  <2>3. PICK T \in SUBSET S : Cardinality(T) = n /\ T \notin G
    BY <2>2
  <2>4. PICK x \in T : TRUE
    BY <2>3
  <2>5. Cardinality(T \ {x}) = n - 1 /\ T \ {x} \in SUBSET S
    BY <1>1, <2>3, FS_RemoveElement
  <2>6. n - 1 \in Nat /\ n - 1 \notin bad
    BY <1>1, <2>2, <2>5
  <2>7. QED
    BY <2>3, <2>5, <2>6
<1>3. QED
  BY <1>1, <1>2

\* The bytes of the parts of a set are those of the set.
LEMMA BytesOfParts ==
    ASSUME NEW size, NEW all, Sized(size, all), NEW S, S \subseteq all
    PROVE  /\ BytesIn(size, S) \in Int /\ BytesIn(size, all \ S) \in Int
           /\ BytesIn(size, all) = BytesIn(size, S) + BytesIn(size, all \ S)
<1> DEFINE Parts(T) == /\ BytesIn(size, T) \in Int /\ BytesIn(size, all \ T) \in Int
                       /\ BytesIn(size, all) = BytesIn(size, T) + BytesIn(size, all \ T)
           G == {T \in SUBSET S : Parts(T)}
<1>1. \A T \in SUBSET all : Sized(size, T) /\ BytesIn(size, T) \in Int
  <2> SUFFICES ASSUME NEW T \in SUBSET all PROVE Sized(size, T) /\ BytesIn(size, T) \in Int
    OBVIOUS
  <2>1. Sized(size, T)
    BY FS_Subset DEF Sized
  <2>2. PICK sum \in [SUBSET T -> Int] : BytesIn(size, T) = sum[T]
    BY <2>1, BytesAre
  <2>3. QED
    BY <2>1, <2>2
<1>2. {} \in G
  <2>1. BytesIn(size, {}) = 0 /\ all \ {} = all
    BY NoBytes
  <2>2. BytesIn(size, all) \in Int
    BY <1>1
  <2>3. QED
    BY <2>1, <2>2
<1>3. ASSUME NEW T \in SUBSET S, NEW x \in T, T \ {x} \in G PROVE T \in G
  <2>1. /\ BytesIn(size, T) = size[x] + BytesIn(size, T \ {x})
        /\ BytesIn(size, T) \in Int /\ BytesIn(size, T \ {x}) \in Int
    BY <1>1, BytesWithout
  <2>2. /\ BytesIn(size, all \ (T \ {x}))
             = size[x] + BytesIn(size, (all \ (T \ {x})) \ {x})
        /\ BytesIn(size, (all \ (T \ {x})) \ {x}) \in Int
    BY <1>1, BytesWithout
  <2>3. (all \ (T \ {x})) \ {x} = all \ T
    OBVIOUS
  <2>4. size[x] \in Int
    BY DEF Sized
  <2>5. BytesIn(size, all) = BytesIn(size, T \ {x}) + BytesIn(size, all \ (T \ {x}))
    BY <1>3
  <2> DEFINE y == BytesIn(size, T \ {x})
             z == BytesIn(size, all \ T)
  <2>6. /\ BytesIn(size, all) = y + (size[x] + z) /\ BytesIn(size, T) = size[x] + y
        /\ y \in Int /\ z \in Int
    BY <2>1, <2>2, <2>3, <2>5
  <2> HIDE DEF y, z
  <2>7. y + (size[x] + z) = (size[x] + y) + z /\ size[x] + y \in Int
    BY <2>4, <2>6
  <2>8. Parts(T)
    BY <2>6, <2>7 DEF z
  <2>9. QED
    BY <2>8
<1>4. IsFiniteSet(S)
  BY FS_Subset DEF Sized
<1>5. S \in G
  <2> HIDE DEF G
  <2>1. QED
    BY <1>2, <1>3, <1>4, FinitelyBuilt
<1>6. QED
  BY <1>5

LEMMA BytesNat ==
    ASSUME NEW size, NEW S, IsFiniteSet(S), \A x \in S : size[x] \in Nat
    PROVE  BytesIn(size, S) \in Nat
<1> DEFINE G == {T \in SUBSET S : BytesIn(size, T) \in Nat}
<1>1. {} \in G
  BY NoBytes
<1>2. ASSUME NEW T \in SUBSET S, NEW x \in T, T \ {x} \in G PROVE T \in G
  <2>1. Sized(size, T)
    BY FS_Subset DEF Sized
  <2>2. BytesIn(size, T) = size[x] + BytesIn(size, T \ {x})
    BY <2>1, BytesWithout
  <2>3. QED
    BY <1>2, <2>2
<1>3. S \in G
  <2> HIDE DEF G
  <2>1. QED
    BY <1>1, <1>2, FinitelyBuilt
<1>4. QED
  BY <1>3

\* So many blocks of a limited size have so many bytes at most.
LEMMA BytesLimited ==
    ASSUME NEW size, NEW S, IsFiniteSet(S), NEW limit \in Nat,
           \A x \in S : size[x] \in Nat /\ size[x] <= limit
    PROVE  /\ BytesIn(size, S) \in Nat
           /\ BytesIn(size, S) <= limit * Cardinality(S)
<1> DEFINE G == {T \in SUBSET S : /\ BytesIn(size, T) \in Nat
                                  /\ BytesIn(size, T) <= limit * Cardinality(T)}
<1>1. {} \in G
  BY NoBytes, FS_EmptySet
<1>2. ASSUME NEW T \in SUBSET S, NEW x \in T, T \ {x} \in G PROVE T \in G
  <2>1. IsFiniteSet(T) /\ IsFiniteSet(T \ {x}) /\ Cardinality(T) \in Nat
        /\ Cardinality(T \ {x}) = Cardinality(T) - 1
    BY FS_Subset, FS_CardinalityType, FS_RemoveElement
  <2>2. Sized(size, T)
    BY <2>1 DEF Sized
  <2>3. BytesIn(size, T) = size[x] + BytesIn(size, T \ {x})
    BY <2>2, BytesWithout
  <2> DEFINE n == Cardinality(T)
             y == BytesIn(size, T \ {x})
  <2>4. y \in Nat /\ y <= limit * (n - 1) /\ n \in Nat
    BY <1>2, <2>1
  <2>5. size[x] \in Nat /\ size[x] <= limit
    OBVIOUS
  <2> HIDE DEF n, y
  <2>6. limit * (n - 1) = limit * n - limit /\ limit * n \in Int
    BY <2>4
  <2>7. size[x] + y \in Nat /\ size[x] + y <= limit * n
    BY <2>4, <2>5, <2>6
  <2>8. QED
    BY <2>3, <2>7 DEF n, y
<1>3. S \in G
  <2> HIDE DEF G
  <2>1. QED
    BY <1>1, <1>2, FinitelyBuilt
<1>4. QED
  BY <1>3

\* The blocks have together the bytes of the memory they fill.
LEMMA BytesOfTiling ==
    ASSUME NEW size, NEW end, Tiling(size, end)
    PROVE  Sized(size, Tiles(size, end)) /\ BytesIn(size, Tiles(size, end)) = end - Base
<1> DEFINE all == Tiles(size, end)
           Below(b) == {c \in all : c < b}
           bad == {b \in all \cup {end} : BytesIn(size, Below(b)) # b - Base}
<1>1. /\ end \in Nat /\ Base < end
      /\ \A b \in all : b \in Nat /\ Base <= b /\ b < end /\ size[b] \in Nat /\ size[b] > 0
      /\ \A b, c \in all : b < c => b + size[b] <= c
      /\ \A c \in all \cup {end} : Base < c => \E b \in all : b + size[b] = c
  BY DEF Tiling, Tiles
<1>2. Sized(size, all)
  <2>1. all \in SUBSET Nat /\ \A b \in all : b <= end
    BY <1>1
  <2>2. IsFiniteSet(all)
    BY <1>1, <2>1, FS_BoundedSetOfNaturals
  <2>3. QED
    BY <1>1, <2>2 DEF Sized
<1> HIDE DEF all
<1>3. bad = {}
  <2>1. SUFFICES ASSUME bad # {} PROVE FALSE
    OBVIOUS
  <2>2. PICK b \in bad : \A c \in bad : b <= c
    <3>1. bad \in SUBSET Nat
      BY <1>1
    <3> HIDE DEF bad
    <3>2. QED
      BY <2>1, <3>1, LeastNat
  <2>3. b \in all \cup {end} /\ b \in Nat /\ Base <= b /\ BytesIn(size, Below(b)) # b - Base
    BY <1>1, <2>2
  <2>4. CASE b = Base
    <3>1. \A c \in all : ~(c < b)
      BY <1>1, <2>4
    <3>2. Below(b) = {}
      BY <3>1
    <3>3. QED
      BY <2>3, <2>4, <3>2, NoBytes
  <2>5. CASE Base < b
    <3>1. PICK c \in all : c + size[c] = b
      BY <1>1, <2>3, <2>5
    <3>2. c \in Nat /\ size[c] \in Nat /\ c < b
      BY <1>1, <3>1
    <3>3. Below(b) \ {c} = Below(c) /\ c \in Below(b)
      <4>1. ASSUME NEW d \in all PROVE (d < b /\ d # c) <=> d < c
        <5>1. d \in Nat /\ (c < d => b <= d)
          BY <1>1, <3>1
        <5>2. QED
          BY <2>3, <3>2, <5>1
      <4>2. QED
        BY <3>2, <4>1
    <3>4. Sized(size, Below(b))
      <4>1. IsFiniteSet(Below(b))
        BY <1>2, FS_Subset DEF Sized
      <4>2. QED
        BY <1>2, <4>1 DEF Sized
    <3> HIDE DEF Below
    <3>5. BytesIn(size, Below(b)) = size[c] + BytesIn(size, Below(c))
      <4>1. BytesIn(size, Below(b)) = size[c] + BytesIn(size, Below(b) \ {c})
        BY <3>3, <3>4, BytesWithout
      <4>2. QED
        BY <3>3, <4>1
    <3>6. BytesIn(size, Below(c)) = c - Base
      <4>1. c \notin bad
        BY <2>2, <2>3, <3>2
      <4>2. QED
        BY <4>1
    <3>7. QED
      BY <2>3, <3>1, <3>2, <3>5, <3>6
  <2>6. QED
    BY <2>3, <2>4, <2>5
<1>4. Below(end) = all
  BY <1>1
<1>5. BytesIn(size, Below(end)) = end - Base
  BY <1>3
<1>6. QED
  BY <1>2, <1>4, <1>5 DEF all

-----------------------------------------------------------------------------
(* The heap between its operations.                                          *)

\* The bytes said to be free are those of no allocated block.
Accounted(h) ==
    h.xFreeBytesRemaining = h.pxEnd - Base - BytesIn(h.xBlockSize, h.owned)

Sound(h) == WellFormedBut(h, {}) /\ Accounted(h)

LEMMA OwnedSized ==
    ASSUME NEW h, WellFormedBut(h, {})
    PROVE  Sized(h.xBlockSize, h.owned) /\ h.pxEnd \in Nat
<1>1. /\ h.owned \in SUBSET Nat /\ h.pxEnd \in Nat
      /\ \A b \in h.owned : b <= h.pxEnd /\ h.xBlockSize[b] \in Int
  BY DEF WellFormedBut, Tiling, Blocks
<1>2. IsFiniteSet(h.owned)
  BY <1>1, FS_BoundedSetOfNaturals
<1>3. QED
  BY <1>1, <1>2 DEF Sized

\* prvHeapInit, pvPortMalloc and vPortFree keep the heap as it must be.
LEMMA InitSound ==
    ASSUME NEW bytes \in Nat, bytes >= 3 * portBYTE_ALIGNMENT,
           NEW offset \in 0..(portBYTE_ALIGNMENT - 1), NEW h, h = HeapInit(bytes, offset)
    PROVE  Sound(h) /\ h.owned = {} /\ Blocks(h) = {Base}
<1>1. /\ WellFormedBut(h, {}) /\ h.owned = {} /\ Blocks(h) = {Base}
      /\ h.xFreeBytesRemaining = h.pxEnd - Base
  BY InitWellFormed
<1>2. BytesIn(h.xBlockSize, h.owned) = 0
  BY <1>1, NoBytes
<1>3. h.pxEnd - Base - 0 = h.pxEnd - Base
  BY <1>1, OwnedSized
<1>4. QED
  BY <1>1, <1>2, <1>3 DEF Sound, Accounted

\* What a call of pvPortMalloc may have done.
Refused(h, m, bytes) == m.block = NULL /\ m.heap = h /\ NoneFits(h, bytes)

Granted(h, m, bytes) ==
    /\ m.block \in FreeBlocks(h) /\ m.block # NULL
    /\ m.heap.owned = h.owned \cup {m.block}
    /\ m.heap.xFreeBytesRemaining = h.xFreeBytesRemaining - m.heap.xBlockSize[m.block]
    /\ \A c \in h.owned : m.heap.xBlockSize[c] = h.xBlockSize[c]
    /\ CutToFit(h, m.block, m.heap, bytes)

LEMMA MallocAccounts ==
    ASSUME NEW h, Sound(h), NEW wanted \in Nat, NEW m, m = Malloc(h, wanted)
    PROVE  /\ Sound(m.heap)
           /\ Refused(h, m, BlockFor(wanted)) \/ Granted(h, m, BlockFor(wanted))
<1> DEFINE b == m.block
           g == m.heap
<1>1. CASE m.block = NULL /\ m.heap = h /\ NoneFits(h, BlockFor(wanted))
  BY <1>1 DEF Refused
<1>2. CASE /\ b \in FreeBlocks(h)
           /\ WellFormedBut(g, {})
           /\ g.owned = h.owned \cup {b}
           /\ g.pxEnd = h.pxEnd
           /\ g.xFreeBytesRemaining = h.xFreeBytesRemaining - g.xBlockSize[b]
           /\ \A c \in h.owned : g.xBlockSize[c] = h.xBlockSize[c]
           /\ CutToFit(h, b, g, BlockFor(wanted))
  <2> HIDE DEF b, g
  <2>1. b \in g.owned /\ g.owned \ {b} = h.owned
    BY <1>2 DEF FreeBlocks
  <2>2. b # NULL
    BY <1>2 DEF Sound, WellFormedBut, Tiling, FreeBlocks, Blocks
  <2>3. WellFormedBut(h, {})
    BY DEF Sound
  <2>4. Sized(g.xBlockSize, g.owned) /\ Sized(h.xBlockSize, h.owned) /\ h.pxEnd \in Nat
    BY <1>2, <2>3, OwnedSized
  <2>5. /\ BytesIn(g.xBlockSize, g.owned) = g.xBlockSize[b] + BytesIn(g.xBlockSize, h.owned)
        /\ BytesIn(g.xBlockSize, h.owned) \in Int
    <3>1. /\ BytesIn(g.xBlockSize, g.owned \ {b}) \in Int
          /\ BytesIn(g.xBlockSize, g.owned)
               = g.xBlockSize[b] + BytesIn(g.xBlockSize, g.owned \ {b})
      BY <2>1, <2>4, BytesWithout
    <3>2. QED
      BY <2>1, <3>1
  <2>6. BytesIn(h.xBlockSize, h.owned) = BytesIn(g.xBlockSize, h.owned)
    BY <1>2, <2>4, BytesSame
  <2>7. g.xBlockSize[b] \in Int
    BY <2>1, <2>4 DEF Sized
  <2>8. h.xFreeBytesRemaining = h.pxEnd - Base - BytesIn(g.xBlockSize, h.owned)
    BY <2>6 DEF Sound, Accounted
  <2> DEFINE x == g.xBlockSize[b]
             y == BytesIn(g.xBlockSize, h.owned)
             z == h.pxEnd - Base
  <2>9. z \in Int /\ x \in Int /\ y \in Int
    BY <2>4, <2>5, <2>7
  <2>10. /\ g.xFreeBytesRemaining = (z - y) - x
         /\ BytesIn(g.xBlockSize, g.owned) = x + y
         /\ g.pxEnd - Base = z
    BY <1>2, <2>5, <2>8
  <2> HIDE DEF x, y, z
  <2>11. (z - y) - x = z - (x + y)
    BY <2>9
  <2>12. Accounted(g)
    BY <2>10, <2>11 DEF Accounted
  <2>13. QED
    BY <1>2, <2>2, <2>12 DEF Sound, Granted, b, g
<1>3. QED
  BY <1>1, <1>2, MallocKeeps DEF Sound

LEMMA MallocSound ==
    ASSUME NEW h, Sound(h), NEW wanted \in Nat, NEW m, m = Malloc(h, wanted)
    PROVE  /\ Sound(m.heap)
           /\ \/ m.block = NULL /\ m.heap = h
              \/ /\ m.block \in FreeBlocks(h) /\ m.block # NULL
                 /\ m.heap.owned = h.owned \cup {m.block}
  BY MallocAccounts DEF Refused, Granted

LEMMA FreeSound ==
    ASSUME NEW h, Sound(h), NEW b \in h.owned, NEW g, g = Free(h, b)
    PROVE  /\ Sound(g) /\ g.owned = h.owned \ {b}
           /\ g.xFreeBytesRemaining = h.xFreeBytesRemaining + h.xBlockSize[b]
           /\ \A c \in g.owned : g.xBlockSize[c] = h.xBlockSize[c]
           /\ \A c \in Blocks(g) : c \in Blocks(h) /\ g.xBlockSize[c] >= h.xBlockSize[c]
<1>1. WellFormedBut(h, {})
  BY DEF Sound
<1>2. /\ WellFormedBut(g, {})
      /\ g.owned = h.owned \ {b}
      /\ g.pxEnd = h.pxEnd
      /\ g.xFreeBytesRemaining = h.xFreeBytesRemaining + h.xBlockSize[b]
      /\ \A c \in g.owned : g.xBlockSize[c] = h.xBlockSize[c]
      /\ \A c \in Blocks(g) : c \in Blocks(h) /\ g.xBlockSize[c] >= h.xBlockSize[c]
  BY <1>1, FreeKeeps
<1>3. Sized(g.xBlockSize, g.owned) /\ Sized(h.xBlockSize, h.owned) /\ h.pxEnd \in Nat
  BY <1>1, <1>2, OwnedSized
<1>4. /\ BytesIn(h.xBlockSize, h.owned) = h.xBlockSize[b] + BytesIn(h.xBlockSize, h.owned \ {b})
      /\ BytesIn(h.xBlockSize, h.owned \ {b}) \in Int
  BY <1>3, BytesWithout
<1>5. BytesIn(g.xBlockSize, g.owned) = BytesIn(h.xBlockSize, h.owned \ {b})
  <2>1. BytesIn(g.xBlockSize, g.owned) = BytesIn(h.xBlockSize, g.owned)
    BY <1>2, <1>3, BytesSame
  <2>2. QED
    BY <1>2, <2>1
<1> DEFINE x == h.xBlockSize[b]
           y == BytesIn(h.xBlockSize, h.owned \ {b})
           z == h.pxEnd - Base
<1>6. z \in Int /\ x \in Int /\ y \in Int
  BY <1>3, <1>4 DEF Sized
<1>7. h.xFreeBytesRemaining = z - (x + y)
  BY <1>4 DEF Sound, Accounted
<1>8. /\ g.xFreeBytesRemaining = (z - (x + y)) + x
      /\ BytesIn(g.xBlockSize, g.owned) = y
      /\ g.pxEnd - Base = z
  BY <1>2, <1>5, <1>7
<1> HIDE DEF x, y, z
<1>9. (z - (x + y)) + x = z - y
  BY <1>6
<1>10. Accounted(g)
  BY <1>8, <1>9 DEF Accounted
<1>11. QED
  BY <1>2, <1>10 DEF Sound

\* The bytes said to be free are those of the free blocks.
LEMMA FreeBytes ==
    ASSUME NEW h, Sound(h)
    PROVE  /\ h.xFreeBytesRemaining \in Nat
           /\ FreeBlocks(h) = {} => h.xFreeBytesRemaining = 0
           /\ \A f \in FreeBlocks(h) : h.xFreeBytesRemaining >= h.xBlockSize[f]
           /\ \A f : FreeBlocks(h) = {f} => h.xFreeBytesRemaining = h.xBlockSize[f]
<1> DEFINE size == h.xBlockSize
           all == Blocks(h)
           free == FreeBlocks(h)
<1>1. /\ Tiling(size, h.pxEnd) /\ all = Tiles(size, h.pxEnd)
      /\ h.owned \subseteq all /\ free = all \ h.owned /\ h.pxEnd \in Nat
      /\ \A b \in all : size[b] \in Nat
  BY DEF Sound, WellFormedBut, Tiling, Tiles, FreeBlocks, Blocks
<1>2. Sized(size, all) /\ BytesIn(size, all) = h.pxEnd - Base
  BY <1>1, BytesOfTiling
<1>3. /\ BytesIn(size, h.owned) \in Int /\ BytesIn(size, free) \in Int
      /\ BytesIn(size, all) = BytesIn(size, h.owned) + BytesIn(size, free)
  BY <1>1, <1>2, BytesOfParts
<1>4. h.xFreeBytesRemaining = BytesIn(size, free)
  <2>1. h.xFreeBytesRemaining = h.pxEnd - Base - BytesIn(size, h.owned)
    BY DEF Sound, Accounted
  <2>2. QED
    BY <1>1, <1>2, <1>3, <2>1
<1>5. \A T \in SUBSET all : IsFiniteSet(T) /\ Sized(size, T)
  BY <1>2, FS_Subset DEF Sized
<1>6. \A T \in SUBSET all : BytesIn(size, T) \in Nat
  <2> SUFFICES ASSUME NEW T \in SUBSET all PROVE BytesIn(size, T) \in Nat
    OBVIOUS
  <2>1. \A b \in T : size[b] \in Nat /\ size[b] <= h.pxEnd
    BY <1>1 DEF Tiling, Tiles
  <2>2. IsFiniteSet(T)
    BY <1>5
  <2>3. QED
    BY <1>1, <2>1, <2>2, BytesLimited
<1>7. ASSUME NEW f \in free
      PROVE  /\ BytesIn(size, free) = size[f] + BytesIn(size, free \ {f})
             /\ BytesIn(size, free \ {f}) \in Nat /\ size[f] \in Nat
  <2>1. Sized(size, free)
    BY <1>1, <1>5
  <2>2. BytesIn(size, free) = size[f] + BytesIn(size, free \ {f})
    BY <2>1, BytesWithout
  <2>3. QED
    BY <1>1, <1>6, <2>2
<1>8. ASSUME NEW f, free = {f} PROVE BytesIn(size, free) = size[f]
  <2>1. free \ {f} = {} /\ f \in free
    BY <1>8
  <2>2. BytesIn(size, free \ {f}) = 0
    BY <2>1, NoBytes
  <2>3. QED
    BY <1>7, <2>1, <2>2
<1>9. BytesIn(size, {}) = 0 /\ BytesIn(size, free) \in Nat
  BY <1>1, <1>6, NoBytes
<1> HIDE DEF size, all
<1>10. ASSUME NEW f \in free PROVE BytesIn(size, free) >= size[f]
  <2> DEFINE x == size[f]
             y == BytesIn(size, free \ {f})
  <2>1. BytesIn(size, free) = x + y /\ x \in Nat /\ y \in Nat
    BY <1>7
  <2> HIDE DEF x, y
  <2>2. x + y >= x
    BY <2>1
  <2>3. QED
    BY <2>1, <2>2 DEF x
<1>11. QED
  BY <1>4, <1>8, <1>9, <1>10 DEF size

\* No block is smaller than the smallest worth making.
NoneTiny(h) == \A b \in Blocks(h) : h.xBlockSize[b] >= heapMINIMUM_BLOCK_SIZE

LEMMA BlockForBytes ==
    /\ \A wanted \in Nat : wanted > 0 => /\ BlockFor(wanted) \in Nat
                                         /\ BlockFor(wanted) >= heapMINIMUM_BLOCK_SIZE
    /\ heapMINIMUM_BLOCK_SIZE = 16
<1> SUFFICES ASSUME NEW wanted \in Nat, wanted > 0
             PROVE  BlockFor(wanted) \in Nat /\ BlockFor(wanted) >= 16
  BY DEF heapMINIMUM_BLOCK_SIZE, xHeapStructSize
<1>1. BlockFor(wanted) = AlignedDown(wanted + 15)
  BY DEF BlockFor, AlignedUp, xHeapStructSize
<1>2. QED
  BY <1>1 DEF AlignedDown

LEMMA MallocNoneTiny ==
    ASSUME NEW h, NEW block, NEW g, NEW bytes \in Nat, bytes >= heapMINIMUM_BLOCK_SIZE,
           CutToFit(h, block, g, bytes), NoneTiny(h), Sound(h), Sound(g)
    PROVE  NoneTiny(g)
<1>1. \A c \in Blocks(g) : g.xBlockSize[c] \in Nat
  BY DEF Sound, WellFormedBut, Tiling, Blocks
<1>2. \A c \in Blocks(h) : h.xBlockSize[c] \in Nat
  BY DEF Sound, WellFormedBut, Tiling, Blocks
<1> SUFFICES ASSUME NEW c \in Blocks(g) PROVE g.xBlockSize[c] >= 16
  BY BlockForBytes DEF NoneTiny
<1>3. CASE c = block
  BY <1>1, <1>3, BlockForBytes DEF CutToFit
<1>4. CASE c # block /\ c = block + bytes /\ g.xBlockSize[c] > heapMINIMUM_BLOCK_SIZE
  BY <1>1, <1>4, BlockForBytes
<1>5. CASE c # block /\ c \in Blocks(h) /\ g.xBlockSize[c] >= h.xBlockSize[c]
  <2>1. h.xBlockSize[c] \in Nat /\ h.xBlockSize[c] >= 16 /\ g.xBlockSize[c] \in Nat
    BY <1>1, <1>2, <1>5, BlockForBytes DEF NoneTiny
  <2>2. QED
    BY <1>5, <2>1
<1>6. QED
  BY <1>3, <1>4, <1>5 DEF CutToFit

\* As long as nothing is given back, what is taken is cut from one free block.
LEMMA MallocFromOne ==
    ASSUME NEW h, Sound(h), NoneTiny(h), NEW f, FreeBlocks(h) = {f},
           NEW wanted \in Nat, wanted > 0,
           h.xFreeBytesRemaining > BlockFor(wanted) + heapMINIMUM_BLOCK_SIZE,
           NEW m, m = Malloc(h, wanted)
    PROVE  /\ m.block # NULL /\ Sound(m.heap) /\ NoneTiny(m.heap)
           /\ m.heap.xFreeBytesRemaining = h.xFreeBytesRemaining - BlockFor(wanted)
           /\ \E e : FreeBlocks(m.heap) = {e}
<1> DEFINE bytes == BlockFor(wanted)
           g == m.heap
<1>1. /\ bytes \in Nat /\ bytes >= heapMINIMUM_BLOCK_SIZE /\ heapMINIMUM_BLOCK_SIZE = 16
      /\ h.xFreeBytesRemaining \in Nat /\ h.xFreeBytesRemaining = h.xBlockSize[f]
  BY BlockForBytes, FreeBytes
<1>2. Sound(g) /\ (Refused(h, m, bytes) \/ Granted(h, m, bytes))
  BY MallocAccounts
<1> HIDE DEF bytes
<1>3. ~NoneFits(h, bytes)
  BY <1>1 DEF NoneFits, bytes
<1>4. /\ m.block = f /\ f # NULL /\ g.owned = h.owned \cup {f}
      /\ g.xFreeBytesRemaining = h.xFreeBytesRemaining - g.xBlockSize[f]
      /\ CutToFit(h, f, g, bytes)
  BY <1>2, <1>3 DEF Refused, Granted
<1> HIDE DEF g
<1>5. g.xBlockSize[f] = bytes
  BY <1>1, <1>4 DEF CutToFit, bytes
<1>6. FreeBlocks(g) \subseteq {f + bytes}
  <2> SUFFICES ASSUME NEW c \in FreeBlocks(g) PROVE c = f + bytes
    OBVIOUS
  <2>1. c \in Blocks(g) \ {f} /\ c \notin h.owned
    BY <1>4 DEF FreeBlocks
  <2>2. c \notin Blocks(h)
    BY <2>1 DEF FreeBlocks
  <2>3. QED
    BY <1>4, <2>1, <2>2 DEF CutToFit
<1>7. g.xFreeBytesRemaining = h.xFreeBytesRemaining - bytes /\ g.xFreeBytesRemaining # 0
  BY <1>1, <1>4, <1>5 DEF bytes
<1>8. FreeBlocks(g) # {}
  BY <1>2, <1>7, FreeBytes
<1>9. FreeBlocks(g) = {f + bytes}
  BY <1>6, <1>8
<1>10. NoneTiny(g)
  BY <1>1, <1>2, <1>4, MallocNoneTiny
<1>11. QED
  BY <1>2, <1>4, <1>7, <1>9, <1>10 DEF bytes, g

\* As long as any byte is free there is a block for the smallest request.
LEMMA SmallestFits ==
    ASSUME NEW h, Sound(h), NoneTiny(h), h.xFreeBytesRemaining > 0,
           NEW wanted \in Nat, BlockFor(wanted) = heapMINIMUM_BLOCK_SIZE
    PROVE  ~NoneFits(h, BlockFor(wanted))
<1>1. h.xFreeBytesRemaining \in Nat /\ heapMINIMUM_BLOCK_SIZE = 16
  BY FreeBytes, BlockForBytes
<1>2. PICK f \in FreeBlocks(h) : TRUE
  BY <1>1, FreeBytes
<1>3. h.xFreeBytesRemaining >= h.xBlockSize[f]
  BY FreeBytes
<1>4. h.xBlockSize[f] \in Nat
  BY DEF Sound, WellFormedBut, Tiling, FreeBlocks, Blocks
<1>5. h.xBlockSize[f] >= 16
  BY <1>1 DEF NoneTiny, FreeBlocks
<1>6. QED
  BY <1>1, <1>3, <1>4, <1>5 DEF NoneFits
=============================================================================

------------------------------- MODULE PortHeap -------------------------------
(***************************************************************************)
(* The kernel's heap, heap_4.c: a list of the free blocks in the order of  *)
(* their addresses, taken by first fit, split where enough is left over,   *)
(* and merged with their neighbours when they come back.                   *)
(*                                                                         *)
(* A heap is a record of what the code keeps in its static variables and   *)
(* in the headers of the blocks; a header that the merging of blocks has   *)
(* left behind is forgotten.  Addresses are numbers: the first aligned     *)
(* byte of ucHeap is Base, and xStart, which lies elsewhere, comes before. *)
(***************************************************************************)
EXTENDS Integers, FiniteSets, FiniteSetsExt, Functions

portBYTE_ALIGNMENT == 8
xHeapStructSize == 8    \* a BlockLink_t: a pointer and a size

\* Faulty variant of heapMINIMUM_BLOCK_SIZE: shifted by 2 instead of 1.
LargerMinimum == 4 * xHeapStructSize

\* Twice the header, below which a rest is not worth a block of its own.
heapMINIMUM_BLOCK_SIZE == 2 * xHeapStructSize

NULL == 0
xStart == 1
Base == portBYTE_ALIGNMENT

AlignedDown(n) == n - (n % portBYTE_ALIGNMENT)
AlignedUp(n) == AlignedDown(n + portBYTE_ALIGNMENT - 1)

-----------------------------------------------------------------------------
\* prvHeapInit for an array of so many bytes that begins offset bytes after an
\* aligned one: one free block, and pxEnd in the last place there is for it.
HeapInit(bytes, offset) ==
    LET skipped == AlignedUp(offset) - offset
        pxEnd == AlignedDown(Base + bytes - skipped - xHeapStructSize)
    IN  [xBlockSize |-> [b \in {xStart, Base, pxEnd} |-> IF b = Base THEN pxEnd - Base ELSE 0],
         pxNextFreeBlock |-> [b \in {xStart, Base, pxEnd} |->
                                IF b = xStart THEN Base ELSE IF b = Base THEN pxEnd ELSE NULL],
         owned |-> {},      \* blocks with xBlockAllocatedBit
         pxEnd |-> pxEnd,
         xFreeBytesRemaining |-> pxEnd - Base,
         xMinimumEverFreeBytesRemaining |-> pxEnd - Base]

Blocks(h) == DOMAIN h.xBlockSize \ {xStart, h.pxEnd}
FreeBlocks(h) == Blocks(h) \ h.owned

\* Where the walks along the list can be: pxEnd and the allocated blocks have
\* no next block.
Linked(h) == {p \in DOMAIN h.pxNextFreeBlock : h.pxNextFreeBlock[p] # NULL}

\* The last place of the list before block b.
PlaceBefore(h, b) ==
    LET walk[p \in Linked(h)] ==
            IF h.pxNextFreeBlock[p] < b THEN walk[h.pxNextFreeBlock[p]] ELSE p
    IN  walk[xStart]

\* Faulty variant of InsertBlock: it is not merged with the block before it.
InsertUnmerged(h, b) ==
    LET pxIterator == PlaceBefore(h, b)
    IN  [h EXCEPT !.pxNextFreeBlock = [@ EXCEPT ![b] = h.pxNextFreeBlock[pxIterator],
                                                ![pxIterator] = b]]

\* prvInsertBlockIntoFreeList: block b becomes part of the block it follows,
\* takes in the one that follows it, or is linked between the two.
InsertBlock(h, b) ==
    LET pxIterator == PlaceBefore(h, b)
        after == h.pxNextFreeBlock[pxIterator]
        joinsFront == pxIterator + h.xBlockSize[pxIterator] = b
        block == IF joinsFront THEN pxIterator ELSE b
        bytes == IF joinsFront THEN h.xBlockSize[pxIterator] + h.xBlockSize[b]
                               ELSE h.xBlockSize[b]
        joinsBack == block + bytes = after /\ after # h.pxEnd
        gone == (IF joinsFront THEN {b} ELSE {}) \cup (IF joinsBack THEN {after} ELSE {})
        size == [h.xBlockSize EXCEPT
                    ![block] = IF joinsBack THEN bytes + h.xBlockSize[after] ELSE bytes]
        next == [h.pxNextFreeBlock EXCEPT
                    ![pxIterator] = block,
                    ![block] = IF joinsBack THEN h.pxNextFreeBlock[after] ELSE after]
    IN  [h EXCEPT !.xBlockSize = Restrict(size, DOMAIN size \ gone),
                  !.pxNextFreeBlock = Restrict(next, DOMAIN next \ gone)]

-----------------------------------------------------------------------------
\* The size of the block that a request takes, header and alignment included.
BlockFor(xWantedSize) ==
    IF xWantedSize = 0 THEN 0 ELSE AlignedUp(xWantedSize + xHeapStructSize)

\* The first place of the list behind which a block is large enough, or the
\* one before the end marker.
PlaceOfFit(h, bytes) ==
    LET walk[p \in Linked(h)] ==
            LET pxBlock == h.pxNextFreeBlock[p]
            IN  IF h.xBlockSize[pxBlock] < bytes /\ h.pxNextFreeBlock[pxBlock] # NULL
                THEN walk[pxBlock] ELSE p
    IN  walk[xStart]

\* A block cut in two, the second of which goes to the free list.
Split(h, block, bytes) ==
    LET rest == block + bytes
        cut == [h EXCEPT
                 !.xBlockSize = [b \in DOMAIN @ \cup {rest} |->
                    IF b = rest THEN @[block] - bytes ELSE IF b = block THEN bytes ELSE @[b]],
                 !.pxNextFreeBlock = [b \in DOMAIN @ \cup {rest} |->
                    IF b = rest THEN NULL ELSE @[b]]]
    IN  InsertBlock(cut, rest)

\* pvPortMalloc: the block taken, NULL if there is none, and the heap then.
Malloc(h, xWantedSize) ==
    LET bytes == BlockFor(xWantedSize)
        place == PlaceOfFit(h, bytes)
        block == h.pxNextFreeBlock[place]
        unlinked == [h EXCEPT !.pxNextFreeBlock[place] = h.pxNextFreeBlock[block]]
        taken == IF h.xBlockSize[block] - bytes > heapMINIMUM_BLOCK_SIZE
                 THEN Split(unlinked, block, bytes) ELSE unlinked
        remaining == h.xFreeBytesRemaining - taken.xBlockSize[block]
    IN  IF bytes = 0 \/ bytes > h.xFreeBytesRemaining \/ block = h.pxEnd
        THEN [block |-> NULL, heap |-> h]
        ELSE [block |-> block,
              heap |-> [taken EXCEPT
                            !.owned = @ \cup {block},
                            !.pxNextFreeBlock[block] = NULL,
                            !.xFreeBytesRemaining = remaining,
                            !.xMinimumEverFreeBytesRemaining = Min({@, remaining})]]

\* vPortFree of a block that Malloc gave.
Free(h, block) ==
    InsertBlock([h EXCEPT !.owned = @ \ {block},
                          !.xFreeBytesRemaining = @ + h.xBlockSize[block]], block)
=============================================================================

------------------------------ MODULE IndexSpace -----------------------------
(* The pages of an index (sasindex.cpp; sasstringbtree.cpp has the same code).
   An index is a block of its own, its heap 1; when it may expand it takes more
   blocks of the same size, and its expand list names them all.  A block is a
   header page and pages for nodes.  A space is the number of free pages of
   every block, in the order of the expand list, and the number of blocks the
   region still has; a node's home is the number of its block.  An allocation
   that finds nothing leaves home = 0. *)
EXTENDS Integers, Sequences

CONSTANTS BlockPages, LoadFactor, MaxHeaps

ASSUME SpaceAssumption ==
    /\ BlockPages \in Nat /\ BlockPages > 1
    /\ LoadFactor \in 1..100
    /\ MaxHeaps \in Nat \ {0}

\* A fresh index, in a region with so many more blocks.
SASIndexInit(expanding, blocks) ==
    [expanding |-> expanding, free |-> <<BlockPages - 1>>, blocks |-> blocks]

SASIndexPercentUsed(space, h) == ((BlockPages - space.free[h]) * 100) \div BlockPages

SASIndexAvail(space, h) == space.free[h] > 0

\* A further block for the index, if the region has one.  With a full list the block is taken and lost.
SASIndexExpandCreate(space) ==
    IF space.blocks = 0 THEN [space |-> space, home |-> 0]
    ELSE IF Len(space.free) < MaxHeaps
         THEN [space |-> [space EXCEPT !.blocks = @ - 1, !.free = Append(@, BlockPages - 1)],
               home  |-> Len(space.free) + 1]
         ELSE [space |-> [space EXCEPT !.blocks = @ - 1], home |-> 0]

\* A page of block h.
SASIndexAllocInternal(space, h) ==
    IF SASIndexAvail(space, h) THEN [space |-> [space EXCEPT !.free[h] = @ - 1], home |-> h]
    ELSE [space |-> space, home |-> 0]

\* A page of the newest block that is not too full, of the first other one that is not, or of a
\* new block.
SASIndexAllocNoLock(space) ==
    LET last  == Len(space.free)
        Light == {h \in 1..last : SASIndexPercentUsed(space, h) < LoadFactor}
        In(grown) == IF grown.home # 0 THEN SASIndexAllocInternal(grown.space, grown.home) ELSE grown
    IN  IF ~space.expanding THEN SASIndexAllocInternal(space, 1)
        ELSE IF last \in Light THEN SASIndexAllocInternal(space, last)
        ELSE IF Light # {} THEN SASIndexAllocInternal(space, CHOOSE h \in Light : \A g \in Light : h <= g)
        ELSE In(SASIndexExpandCreate(space))

\* A page in the block of a node, or where the index has one.
SASIndexNearAllocNoLock(space, home) ==
    IF SASIndexAvail(space, home) THEN SASIndexAllocInternal(space, home) ELSE SASIndexAllocNoLock(space)

\* Gives a node's page back to its block.
SASIndexNearDeallocNoLock(space, home) == [space EXCEPT !.free[home] = @ + 1]

=============================================================================

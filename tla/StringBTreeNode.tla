---------------------------- MODULE StringBTreeNode ---------------------------
(* The nodes of the string B-tree (sasstringbtreenode.cpp).  Searches are those
   of IndexNode: the code differs in strcmp only.  What is different is the
   memory of the keys.  A node keeps the copies of its keys in its own page,
   whose memory is the free list `free`; when that is full, a copy goes to a
   spill area, a page that the block of the node lists.  A slot says where its
   key is: `area` 0 is the node's page, i the i-th spill area of its block.
   A key in a spill area is far; inserts, splits and removes bring it back when
   the page has room for it.

   Space is that of IndexSpace and, for every block, its list of spill areas. *)
EXTENDS IndexNode, FreeList

CONSTANTS Size,         \* strlen + 1 of every key
          KeySpace,     \* memory for keys in a node's page
          SpillSpace,   \* and in a spill area
          MaxSpills     \* SASBTREE_SPILLLIST_SIZE

ASSUME KeyMemoryAssumption ==
    /\ KeySpace \in Nat \ {0} /\ SpillSpace \in Nat \ {0} /\ MaxSpills \in Nat
    /\ \A key \in DOMAIN Size : Size[key] > 0 /\ Size[key] < SpillSpace

\* What an operation works on: a node, and the space that lists the spill areas of its block.
On(space, node) == [space |-> space, node |-> node]

SASStringBTreeNodeInit(home) == SASIndexNodeInit(home) @@ [free |-> <<Piece(0, KeySpace)>>]

SASStringBTreeNodeSearchNode(node, target) == SASIndexNodeSearchNode(node, target)

SASStringBTreeNodeSearch(node, target) == SASIndexNodeSearch(node, target)

\* Pages are those of an index: a page comes from the block of a node nearby, or from where the tree
\* has one.
SASStringBTreeAllocNoLock(space) == SASIndexAllocNoLock(space)

SASStringBTreeNearAllocNoLock(space, home) == SASIndexNearAllocNoLock(space, home)

SASStringBTreeNearDealloc(space, home) == SASIndexNearDeallocNoLock(space, home)

----------------------------------------------------------------------------
(* The memory of keys. *)

\* A further spill area for block h, if its list is not full and the tree has a page.
SASStringBTreeSpillAlloc(space, h) ==
    LET Listed(page) ==
            IF page.home = 0 THEN space
            ELSE [page.space EXCEPT !.spill[h] = Append(@, [home |-> page.home, free |-> <<Piece(0, SpillSpace)>>])]
    IN  IF Len(space.spill[h]) = MaxSpills THEN space ELSE Listed(SASStringBTreeNearAllocNoLock(space, h))

\* The memory of area a of a node: of its page, or of a spill area of its block.
Memory(on, a) == IF a = 0 THEN on.node.free ELSE on.space.spill[on.node.home][a].free

WithMemory(on, a, list) ==
    IF a = 0 THEN [on EXCEPT !.node.free = list] ELSE [on EXCEPT !.space.spill[on.node.home][a].free = list]

\* The areas with room for a key of n bytes.
Roomy(on, n) == {a \in 0..Len(on.space.spill[on.node.home]) : FirstFit(Memory(on, a), Round(n)) # 0}

\* Memory for a key of a node: in its page, or in the first spill area that has room, or in a new
\* spill area.  `at` is the address, `on` what the allocation leaves.
SASStringBTreeNodeNearAlloc(on, n) ==
    LET Grown == IF Roomy(on, n) # {} THEN on ELSE [on EXCEPT !.space = SASStringBTreeSpillAlloc(@, on.node.home)]
        Cut(here, a, list, i) ==
            [area |-> a, at |-> list[i].at, on |-> WithMemory(here, a, AllocNode(list, i, Round(n)))]
        Fit(here, a, list) == Cut(here, a, list, FirstFit(list, Round(n)))
        From(here, a) == Fit(here, a, Memory(here, a))
        First(here, areas) ==
            IF areas = {} THEN [area |-> 0, at |-> NULL, on |-> here]
            ELSE From(here, CHOOSE a \in areas : \A c \in areas : a <= c)
        In(here) == First(here, Roomy(here, n))
    IN  In(Grown)

\* Frees the copy of a key that a slot of the node has.
SASStringBTreeNodeNearDealloc(on, slot) ==
    IF slot = NULL THEN on
    ELSE WithMemory(on, slot.area, DeallocSpace(Memory(on, slot.area), slot.at, Size[slot.key]))

\* A key and its value, as they are passed on.
Pair(key, val) == [key |-> key, val |-> val]

\* The slot gets a copy of the key; what it had is forgotten, not freed.
SASStringBTreeNodeKeyReplace(on, pos, pair) ==
    LET Into(place) == [place.on EXCEPT !.node.slot[pos] =
                           [key |-> pair.key, val |-> pair.val, area |-> place.area, at |-> place.at]]
    IN  Into(SASStringBTreeNodeNearAlloc(on, Size[pair.key]))

\* The slot gets a copy of the key, and what it had is freed.
SASStringBTreeNodeKeyCopy_Fault(on, pos, pair) == SASStringBTreeNodeKeyReplace(on, pos, pair)
SASStringBTreeNodeKeyCopy(on, pos, pair) ==
    SASStringBTreeNodeNearDealloc(SASStringBTreeNodeKeyReplace(on, pos, pair), on.node.slot[pos])

SASStringBTreeNodeKeyDelete(on, pos) == SASStringBTreeNodeNearDealloc(on, on.node.slot[pos])

\* A copy of the key in slot i of node `from` goes to a slot of node `to`, and the original is
\* freed.  In a slot that still has a key, that key is freed and the slot cleared.
SASStringBTreeNodeKeyMove(space, from, i, to, pos) ==
    LET Out(freed, dest) == [space |-> freed.space, from |-> freed.node, to |-> dest.node]
        Then(dest) ==
            IF to.slot[pos] = NULL THEN dest
            ELSE [SASStringBTreeNodeNearDealloc(dest, to.slot[pos]) EXCEPT !.node.slot[pos] = NULL]
        Give(dest) == Out(SASStringBTreeNodeNearDealloc(On(dest.space, from), from.slot[i]), dest)
    IN  Give(Then(SASStringBTreeNodeKeyReplace(On(space, to), pos, from.slot[i])))

\* SASStringBTreeNodeMaxFragmentNoLock, -1 as an unsigned number when nothing is free: then a
\* far key is copied from one place in the spill areas to another.
RoomFor(list, n) == list = <<>> \/ \E i \in DOMAIN list : n <= list[i].size

\* A far key comes back to the node's page if there is room for it.
BringBack(on, pos) ==
    IF on.node.slot[pos].area # 0 /\ RoomFor(on.node.free, Size[on.node.slot[pos].key])
    THEN SASStringBTreeNodeKeyCopy(on, pos, on.node.slot[pos]) ELSE on

BringAllBack(on, positions) == FoldLeft(BringBack, on, positions)

\* The numbers from a to b, upwards and downwards.
Upwards(a, b) == [i \in 1..(b - a + 1) |-> a + i - 1]
Downwards(b, a) == [i \in 1..(b - a + 1) |-> b - i + 1]

----------------------------------------------------------------------------
(* Inserting. *)

\* Puts a key and the branch right of it into position k + 1.
SASStringBTreeNodePushIn(on, ref, k) ==
    LET n == on.node.count
        Shifted == [on.node EXCEPT
                       !.slot   = [i \in 1..MaxCount |-> IF i \in (k + 2)..(n + 1) THEN @[i - 1] ELSE @[i]],
                       !.branch = [i \in 0..MaxCount |-> IF i = k + 1 THEN ref.node
                                                         ELSE IF i \in (k + 2)..(n + 1) THEN @[i - 1] ELSE @[i]],
                       !.count  = n + 1]
    IN  SASStringBTreeNodeKeyReplace(BringAllBack(On(on.space, Shifted), Downwards(n + 1, k + 2)), k + 1, ref.pair)

ClearedFrom(node, c) ==
    [node EXCEPT !.slot   = [i \in 1..MaxCount |-> IF i >= c THEN NULL ELSE @[i]],
                 !.branch = [i \in 0..MaxCount |-> IF i >= c THEN NULL ELSE @[i]],
                 !.count  = c - 1]

\* The keys above the median go to the new node yr.
UpperMoved(space, node, yr, median) ==
    LET One(s, i) == SASStringBTreeNodeKeyMove(s.space, s.from, i, s.to, i - median)
        Branches(s) == [s EXCEPT
            !.to.count    = MaxCount - median,
            !.to.branch   = [i \in 0..MaxCount |-> IF i \in 1..(MaxCount - median) THEN node.branch[i + median] ELSE @[i]],
            !.from.count  = median]
    IN  Branches(FoldLeft(One, [space |-> space, from |-> node, to |-> yr], Upwards(median + 1, MaxCount)))

\* The last key of the left node goes up, and its branch becomes the right node's first.  The copy
\* of that key stays in the left node's page: only the parent's is known from now on.
Parting_Fault(space, left, right) ==
    [node |-> ClearedFrom(left, left.count), space |-> space, up |-> [pair |-> left.slot[left.count], node |-> right]]
Parting(space, left, right) ==
    LET Up(on) == [node |-> on.node, space |-> on.space,
                   up   |-> [pair |-> left.slot[left.count],
                             node |-> [right EXCEPT !.branch[0] = left.branch[left.count]]]]
    IN  Up(BringAllBack(On(space, ClearedFrom(left, left.count)), Upwards(1, left.count - 1)))

\* Splits a full node: the keys above the median move to a new node, the new key goes into one of
\* the two, and the last key of the left node goes up with the new node.
SASStringBTreeNodeSplit(space, node, ref, k) ==
    LET low    == k <= Minimum
        median == IF low THEN Minimum ELSE Minimum + 1
        Half(s, on) == Parting(on.space, IF low THEN on.node ELSE s.from, IF low THEN s.to ELSE on.node)
        Push(s) == Half(s, SASStringBTreeNodePushIn(
                               On(s.space, IF low THEN s.from ELSE s.to), ref, IF low THEN k ELSE k - median))
        With(page) == Push(UpperMoved(page.space, node, SASStringBTreeNodeInit(page.home), median))
    IN  With(SASStringBTreeNearAllocNoLock(space, node.home))

\* Inserts a key below this node.  `up` is NULL, or the key and node that the parent must take;
\* `dup` says that the key was there.
RECURSIVE SASStringBTreeNodePushDown(_, _, _, _)
SASStringBTreeNodePushDown(space, node, key, val) ==
    LET \* What this node takes from below: the new key is what a leaf takes.
        Below(pos) ==
            IF node.branch[pos] # NULL THEN SASStringBTreeNodePushDown(space, node.branch[pos], key, val)
            ELSE [node |-> NULL, space |-> space, dup |-> FALSE, up |-> [pair |-> Pair(key, val), node |-> NULL]]
        Take(here, up, room, pos) ==
            IF up = NULL THEN [node |-> here, space |-> room, up |-> NULL]
            ELSE IF here.count < MaxCount
            THEN [up |-> NULL] @@ SASStringBTreeNodePushIn(On(room, here), up, pos)
            ELSE SASStringBTreeNodeSplit(room, here, up, pos)
        After(b, pos) == [dup |-> b.dup] @@ Take([node EXCEPT !.branch[pos] = b.node], b.up, b.space, pos)
        At(s) == IF s.found THEN [node |-> node, up |-> NULL, dup |-> TRUE, space |-> space]
                 ELSE After(Below(s.pos), s.pos)
    IN  At(SASStringBTreeNodeSearchNode(node, key))

\* The first key of a tree.
SASStringBTreeNodeInitialize(space, node, key, val) ==
    LET First(on) == [on EXCEPT !.node.count = 1, !.node.branch[0] = NULL, !.node.branch[1] = NULL]
    IN  First(SASStringBTreeNodeKeyCopy(On(space, node), 1, Pair(key, val)))

\* Inserts a key.  A key that goes up from the root moves to a new root, and its copy in the old
\* one, or in a spill area, is freed.
SASStringBTreeNodeInsert(space, root, key, val) ==
    LET Top(down, top, old) ==
            [root  |-> [top EXCEPT !.count = 1, !.branch[0] = old.node, !.branch[1] = down.up.node],
             space |-> old.space, dup |-> FALSE]
        Placed(down, on) == Top(down, on.node, SASStringBTreeNodeNearDealloc(On(on.space, down.node), down.up.pair))
        New(down, page) == Placed(down, SASStringBTreeNodeKeyReplace(
                                            On(page.space, SASStringBTreeNodeInit(page.home)), 1, down.up.pair))
        Grown(down) == IF down.up = NULL THEN [root |-> down.node, dup |-> down.dup, space |-> down.space]
                       ELSE New(down, SASStringBTreeNearAllocNoLock(down.space, root.home))
    IN  Grown(SASStringBTreeNodePushDown(space, root, key, val))

----------------------------------------------------------------------------
(* Deleting. *)

\* Removes the key at pos, if the slot still has it, and the branch right of it; a node still
\* hanging there is freed.
SASStringBTreeNodeRemove(on, pos) ==
    LET Shifted(node) == [node EXCEPT
            !.slot   = [i \in 1..MaxCount |-> IF i = node.count THEN NULL
                                              ELSE IF i \in pos..(node.count - 1) THEN @[i + 1] ELSE @[i]],
            !.branch = [i \in 0..MaxCount |-> IF i = node.count THEN NULL
                                              ELSE IF i \in pos..(node.count - 1) THEN @[i + 1] ELSE @[i]],
            !.count  = @ - 1]
        q == on.node.branch[pos]
        Rest(here) == [here EXCEPT !.space = IF q = NULL THEN @ ELSE SASStringBTreeNearDealloc(@, q.home)]
        Gone(here) == Rest(BringAllBack([here EXCEPT !.node = Shifted(@)], Upwards(pos, on.node.count - 1)))
    IN  Gone(SASStringBTreeNodeKeyDelete(on, pos))

\* Joins the nodes left and right of the key at pos with that key and frees the right one.
SASStringBTreeNodeCombine(on, pos) ==
    LET q == on.node.branch[pos]
        Add(s, i) == [SASStringBTreeNodeKeyMove(s.space, s.from, i, s.to, s.to.count + 1)
                         EXCEPT !.to.count = @ + 1, !.to.branch[s.to.count + 1] = q.branch[i]]
        All(s)    == FoldLeft(Add, [space |-> s.space, from |-> q, to |-> s.to], Upwards(1, q.count))
        Pivot(s)  == [s EXCEPT !.to.count = @ + 1, !.to.branch[s.to.count + 1] = q.branch[0]]
        Joined(s, node) ==
            [SASStringBTreeNodeRemove(
                On(s.space, [node EXCEPT !.slot[pos] = NULL, !.branch[pos] = NULL, !.branch[pos - 1] = s.to]), pos)
             EXCEPT !.space = SASStringBTreeNearDealloc(@, q.home)]
        From(s) == Joined(All(Pivot(s)), s.from)
    IN  From(SASStringBTreeNodeKeyMove(on.space, on.node, pos, on.node.branch[pos - 1], on.node.branch[pos - 1].count + 1))

\* For a key of a neighbour the code asks whether it is out of the parent's page, and it always is,
\* and whether the parent's page has room for it.
Rearrange(s, i) ==
    LET Back(on) == [s EXCEPT !.space = on.space, !.from = on.node]
    IN  IF RoomFor(s.to.free, Size[s.from.slot[i].key])
        THEN Back(SASStringBTreeNodeKeyCopy(On(s.space, s.from), i, s.from.slot[i])) ELSE s

\* Moves a key from the right neighbour through the parent to the left one.
SASStringBTreeNodeMoveLeft(on, pos) ==
    LET l == on.node.branch[pos - 1]
        r == on.node.branch[pos]
        Shifted(node) == [node EXCEPT
            !.slot   = [i \in 1..MaxCount |-> IF i = r.count THEN NULL ELSE IF i < r.count THEN @[i + 1] ELSE @[i]],
            !.branch = [i \in 0..MaxCount |-> IF i = r.count THEN NULL ELSE IF i < r.count THEN @[i + 1] ELSE @[i]],
            !.count  = @ - 1]
        Left(s)  == [s.to EXCEPT !.count = @ + 1, !.branch[l.count + 1] = r.branch[0]]
        Moved(s, left) == On(s.space, [s.to EXCEPT !.branch[pos - 1] = left, !.branch[pos] = s.from])
        Rest(s, left)  == Moved(FoldLeft(Rearrange, [s EXCEPT !.from = Shifted(@)], Upwards(1, r.count - 1)), left)
        Then(s) == Rest(SASStringBTreeNodeKeyMove(s.space, r, 1, [s.from EXCEPT !.slot[pos] = NULL], pos), Left(s))
    IN  Then(SASStringBTreeNodeKeyMove(on.space, on.node, pos, l, l.count + 1))

\* Moves a key from the left neighbour through the parent to the right one.
SASStringBTreeNodeMoveRight(on, pos) ==
    LET l == on.node.branch[pos - 1]
        r == on.node.branch[pos]
        Shifted == [r EXCEPT
            !.slot   = [i \in 1..MaxCount |-> IF i = 1 THEN NULL ELSE IF i <= r.count + 1 THEN @[i - 1] ELSE @[i]],
            !.branch = [i \in 0..MaxCount |-> IF i = 0 THEN l.branch[l.count]
                                              ELSE IF i <= r.count + 1 THEN @[i - 1] ELSE @[i]],
            !.count  = @ + 1]
        Done(s, right) ==
            On(s.space, [s.to EXCEPT !.branch[pos - 1] = ClearedFrom(s.from, l.count), !.branch[pos] = right])
        Up(s)   == Done(SASStringBTreeNodeKeyMove(s.space, l, l.count, [s.from EXCEPT !.slot[pos] = NULL], pos), s.to)
        Down(s) == Up(SASStringBTreeNodeKeyMove(s.space, s.to, pos, s.from, 1))
    IN  Down(FoldLeft(Rearrange, [space |-> on.space, from |-> Shifted, to |-> on.node], Downwards(r.count + 1, 2)))

\* Brings branch[pos], which has one key too few, back to the minimum.
SASStringBTreeNodeRestore(on, pos) ==
    LET Enough(i) == on.node.branch[i].count > Minimum
        \* The right one of the neighbours between which a key moves left.
        Lender == CHOOSE i \in 1..on.node.count : i \in {pos, pos + 1} /\ Enough(i) /\ (i = pos + 1 => ~Enough(pos))
    IN  IF pos > 0 /\ Enough(pos - 1) THEN SASStringBTreeNodeMoveRight(on, pos)
        ELSE IF \E i \in {pos, pos + 1} \cap 1..on.node.count : Enough(i)
             THEN SASStringBTreeNodeMoveLeft(on, Lender)
             ELSE SASStringBTreeNodeCombine(on, IF pos = 0 THEN 1 ELSE pos)

\* Replaces the key at pos by a copy of the smallest key right of it.
SASStringBTreeNodeSuccessor_Fault(on, pos) == [on EXCEPT !.node.slot[pos] = Leftmost(on.node.branch[pos]).slot[1]]
SASStringBTreeNodeSuccessor(on, pos) == SASStringBTreeNodeKeyCopy(on, pos, Leftmost(on.node.branch[pos]).slot[1])

RECURSIVE SASStringBTreeNodeRecDelete(_, _)
SASStringBTreeNodeRecDelete(on, target) ==
    LET Restored(out, k) ==
            IF out.on.node.branch[k].count < Minimum
            THEN [out EXCEPT !.on = SASStringBTreeNodeRestore(@, k)] ELSE out
        Back(here, k, out) == Restored([out EXCEPT !.on.node = [here EXCEPT !.branch[k] = out.on.node]], k)
        Below(here, k, key) ==
            Back(here.node, k, SASStringBTreeNodeRecDelete(On(here.space, here.node.branch[k]), key))
        \* In an inner node the key gives way to the smallest one right of it, which is then deleted there.
        Into(here, s) == Below(here, s.pos, IF s.found THEN KeyAt(here.node, s.pos) ELSE target)
        At(s) ==
            IF ~s.found /\ on.node.branch[s.pos] = NULL THEN [found |-> FALSE, on |-> on]
            ELSE IF s.found /\ on.node.branch[s.pos - 1] = NULL
            THEN [found |-> TRUE, on |-> SASStringBTreeNodeRemove(on, s.pos)]
            ELSE Into(IF s.found THEN SASStringBTreeNodeSuccessor(on, s.pos) ELSE on, s)
    IN  At(SASStringBTreeNodeSearchNode(on.node, target))

SASStringBTreeNodeDelete_Fault(space, root, target) ==
    LET Rooted(out) == [root |-> IF out.on.node.count = 0 THEN out.on.node.branch[0] ELSE out.on.node,
                        spent |-> FALSE, space |-> out.on.space]
    IN  Rooted(SASStringBTreeNodeRecDelete(On(space, root), target))
\* Deletes a key; a root left without keys gives way to its only branch.
SASStringBTreeNodeDelete(space, root, target) ==
    LET Rooted(out) ==
            IF out.found /\ out.on.node.count = 0
            THEN [root |-> out.on.node.branch[0], spent |-> TRUE, space |-> out.on.space]
            ELSE [root |-> out.on.node, spent |-> FALSE, space |-> out.on.space]
    IN  Rooted(SASStringBTreeNodeRecDelete(On(space, root), target))

=============================================================================

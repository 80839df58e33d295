------------------------------ MODULE IndexNode ------------------------------
(* The nodes of the B-trees (sasindexnode.cpp; sasstringbtreenode.cpp is the
   same code with C strings for keys).  A node is the value of its page: the
   number of keys, the slots 1..MaxCount with a key and its value, the branches
   0..MaxCount.  A branch is NULL or the node it points to, so a tree is one
   nested value.  A slot holds the copy of a key that the tree owns; `at` marks
   the copy an enumeration's curkey points to, and is lost when the key is
   copied.  `home` is the block the page is in, and an operation that takes or
   gives back pages takes the space of the index and returns it.  The memory of
   the keys and its spill areas are left out. *)
EXTENDS IndexSpace, FiniteSets, SequencesExt

CONSTANTS MaxCount, NULL

ASSUME MaxCountAssumption == MaxCount \in Nat /\ MaxCount >= 2

Minimum == MaxCount \div 2

\* The page of a new node.
SASIndexNodeInit(home) ==
    [home |-> home, count |-> 0, slot |-> [i \in 1..MaxCount |-> NULL], branch |-> [i \in 0..MaxCount |-> NULL]]

IsLeaf(node) == node.branch[0] = NULL

KeyAt(node, pos) == node.slot[pos].key

Entry(key, val) == [key |-> key, val |-> val, at |-> FALSE]

----------------------------------------------------------------------------
(* Searching. *)

\* The linear search of a node with fewer than 8 keys.
LinearSearch(node, target) ==
    CHOOSE p \in 1..node.count :
        /\ p = 1 \/ target >= KeyAt(node, p)
        /\ \A j \in (p + 1)..node.count : target < KeyAt(node, j)

RECURSIVE Halve(_, _, _, _)
Halve(node, target, position, m) ==
    IF m = 0 THEN position
    ELSE IF position > node.count THEN Halve(node, target, position - m, m \div 2)
    ELSE IF target < KeyAt(node, position) THEN Halve(node, target, position - m, m \div 2)
    ELSE IF target > KeyAt(node, position) THEN Halve(node, target, position + m, m \div 2)
    ELSE position

\* The binary search of a node with 8 keys or more: it starts at the highest power of two that is
\* not above the count, and ends at the key, or beside the place where the key would be.
BinarySearch(node, target) ==
    LET start == CHOOSE p \in {2 ^ e : e \in 3..6} : p <= node.count /\ 2 * p > node.count
        Beside(position) == IF position > node.count THEN node.count
                            ELSE IF target < KeyAt(node, position) THEN position - 1 ELSE position
    IN  Beside(Halve(node, target, start, start \div 2))

\* The position of the last key that is not above the target, 0 when there is none.
SearchPosition(node, target) ==
    IF target < KeyAt(node, 1) THEN 0
    ELSE IF node.count < 8 THEN LinearSearch(node, target) ELSE BinarySearch(node, target)

SASIndexNodeSearchNode(node, target) ==
    LET At(pos) == [pos |-> pos, found |-> pos > 0 /\ KeyAt(node, pos) = target]
    IN  At(SearchPosition(node, target))

\* A reference to a key is the branches that lead to its node, and its position.
Ref(pos) == [path |-> <<>>, pos |-> pos]
Under(branch, ref) == IF ref = NULL THEN NULL ELSE [ref EXCEPT !.path = <<branch>> \o @]

RECURSIVE SASIndexNodeSearch(_, _)
SASIndexNodeSearch(node, target) ==
    LET s == SASIndexNodeSearchNode(node, target)
    IN  IF s.found THEN Ref(s.pos)
        ELSE IF node.branch[s.pos] = NULL THEN NULL
        ELSE Under(s.pos, SASIndexNodeSearch(node.branch[s.pos], target))

\* The key after position pos of this node, if there is one.
NextHere(node, pos) == IF pos < node.count THEN Ref(pos + 1) ELSE NULL
\* The key at position pos of this node, if there is one.
LastHere(pos) == IF pos > 0 THEN Ref(pos) ELSE NULL

\* What a search found below this node, or the key of this node beside the branch it took.
OrHere(below, here) == IF below # NULL THEN below ELSE here

RECURSIVE SASIndexNodeSearchGT_Fault(_, _)
SASIndexNodeSearchGT_Fault(node, target) ==
    LET s == SASIndexNodeSearchNode(node, target)
    IN  IF node.branch[s.pos] = NULL THEN NextHere(node, s.pos)
        ELSE Under(s.pos, SASIndexNodeSearchGT_Fault(node.branch[s.pos], target))

RECURSIVE SASIndexNodeSearchGT(_, _)
SASIndexNodeSearchGT(node, target) ==
    LET s == SASIndexNodeSearchNode(node, target)
    IN  IF node.branch[s.pos] = NULL THEN NextHere(node, s.pos)
        ELSE OrHere(Under(s.pos, SASIndexNodeSearchGT(node.branch[s.pos], target)),
                    IF s.found THEN NULL ELSE NextHere(node, s.pos))

RECURSIVE SASIndexNodeSearchGE(_, _)
SASIndexNodeSearchGE(node, target) ==
    LET s == SASIndexNodeSearchNode(node, target)
    IN  IF s.found THEN Ref(s.pos)
        ELSE IF node.branch[s.pos] = NULL THEN NextHere(node, s.pos)
        ELSE OrHere(Under(s.pos, SASIndexNodeSearchGE(node.branch[s.pos], target)), NextHere(node, s.pos))

RECURSIVE SASIndexNodeSearchLT(_, _)
SASIndexNodeSearchLT(node, target) ==
    LET s    == SASIndexNodeSearchNode(node, target)
        side == IF s.found THEN s.pos - 1 ELSE s.pos
    IN  IF node.branch[side] = NULL THEN LastHere(side)
        ELSE OrHere(Under(side, SASIndexNodeSearchLT(node.branch[side], target)),
                    IF s.found THEN NULL ELSE LastHere(side))

RECURSIVE SASIndexNodeSearchLE(_, _)
SASIndexNodeSearchLE(node, target) ==
    LET s == SASIndexNodeSearchNode(node, target)
    IN  IF s.found THEN Ref(s.pos)
        ELSE IF node.branch[s.pos] = NULL THEN LastHere(s.pos)
        ELSE OrHere(Under(s.pos, SASIndexNodeSearchLE(node.branch[s.pos], target)), LastHere(s.pos))

\* The node a reference names, and the key and value there.
RECURSIVE NodeOf(_, _)
NodeOf(node, path) == IF path = <<>> THEN node ELSE NodeOf(node.branch[Head(path)], Tail(path))

SlotOf(root, ref) == NodeOf(root, ref.path).slot[ref.pos]

RECURSIVE WithSlot(_, _, _, _)
WithSlot(node, path, pos, slot) ==
    IF path = <<>> THEN [node EXCEPT !.slot[pos] = slot]
    ELSE [node EXCEPT !.branch[Head(path)] = WithSlot(@, Tail(path), pos, slot)]

SASIndexNodePutValIndexed(root, ref, val) ==
    WithSlot(root, ref.path, ref.pos, [SlotOf(root, ref) EXCEPT !.val = val])

----------------------------------------------------------------------------
(* Moving keys. *)

Copied(entry) == [entry EXCEPT !.at = FALSE]

\* Puts a copy of a key into a free slot and frees the key it came from.  In a slot that still has
\* a key, the old key is freed and the slot cleared.
SASIndexNodeKeyMove(node, pos, entry) ==
    [node EXCEPT !.slot[pos] = IF @ = NULL THEN Copied(entry) ELSE NULL]

\* Puts a copy of a key into a slot and frees what the slot had.
SASIndexNodeKeyCopy(node, pos, entry) == [node EXCEPT !.slot[pos] = Copied(entry)]

\* Puts a key and the branch right of it into position k + 1.  The key is copied.
SASIndexNodePushIn(node, ref, k) ==
    [node EXCEPT
        !.count  = @ + 1,
        !.slot   = [i \in 1..MaxCount |-> IF i = k + 1 THEN Copied(ref.entry)
                                          ELSE IF i \in (k + 2)..(node.count + 1) THEN @[i - 1] ELSE @[i]],
        !.branch = [i \in 0..MaxCount |-> IF i = k + 1 THEN ref.node
                                          ELSE IF i \in (k + 2)..(node.count + 1) THEN @[i - 1] ELSE @[i]]]

\* The node with the slots and branches above position c cleared.
ClearedAbove(node, c) ==
    [node EXCEPT !.count  = c,
                 !.slot   = [i \in 1..MaxCount |-> IF i > c THEN NULL ELSE @[i]],
                 !.branch = [i \in 0..MaxCount |-> IF i > c THEN NULL ELSE @[i]]]

\* The last key of the left node goes up, and its branch becomes the right node's first.
Parted(space, left, right) ==
    [node  |-> ClearedAbove(left, left.count - 1),
     up    |-> [entry |-> left.slot[left.count], node |-> [right EXCEPT !.branch[0] = left.branch[left.count]]],
     dup   |-> FALSE,
     space |-> space]

\* Splits a full node: the keys above the median move to a new node, the new key goes into one of
\* the two, and the last key of the left node goes up with the new node.
SASIndexNodeSplit(space, node, ref, k) ==
    LET median == IF k <= Minimum THEN Minimum ELSE Minimum + 1
        page   == SASIndexNearAllocNoLock(space, node.home)
        fresh  == SASIndexNodeInit(page.home)
        upper  == [fresh EXCEPT
                      !.count  = MaxCount - median,
                      !.slot   = [i \in 1..MaxCount |->
                                     IF i <= MaxCount - median THEN Copied(node.slot[i + median]) ELSE @[i]],
                      !.branch = [i \in 0..MaxCount |->
                                     IF i \in 1..(MaxCount - median) THEN node.branch[i + median] ELSE @[i]]]
        lower  == [node EXCEPT !.count = median]
    IN  IF k <= Minimum
        THEN Parted(page.space, SASIndexNodePushIn(lower, ref, k), upper)
        ELSE Parted(page.space, lower, SASIndexNodePushIn(upper, ref, k - median))

\* Inserts a key below this node.  `up` is NULL, or the key and node that the parent must take;
\* `dup` says that the key was there.
RECURSIVE SASIndexNodePushDown(_, _, _, _)
SASIndexNodePushDown(space, node, key, val) ==
    LET s == SASIndexNodeSearchNode(node, key)
        \* The node with the changed branch and the key that comes up from it.
        Take(below, here) ==
            IF below.up = NULL THEN [below EXCEPT !.node = here]
            ELSE IF node.count < MaxCount
                 THEN [below EXCEPT !.node = SASIndexNodePushIn(here, below.up, s.pos), !.up = NULL]
                 ELSE SASIndexNodeSplit(below.space, here, below.up, s.pos)
    IN  IF s.found THEN [node |-> node, up |-> NULL, dup |-> TRUE, space |-> space]
        ELSE IF node.branch[s.pos] = NULL
        THEN Take([up |-> [entry |-> Entry(key, val), node |-> NULL], dup |-> FALSE, space |-> space, node |-> NULL], node)
        ELSE LET below == SASIndexNodePushDown(space, node.branch[s.pos], key, val)
             IN  Take(below, [node EXCEPT !.branch[s.pos] = below.node])

\* The first key of a tree.
SASIndexNodeInitialize(node, key, val) ==
    [SASIndexNodeKeyCopy(node, 1, Entry(key, val)) EXCEPT !.count = 1, !.branch[0] = NULL, !.branch[1] = NULL]

\* Inserts a key; a key that goes up from the root gets a new root.
SASIndexNodeInsert(space, root, key, val) ==
    LET New(page, down) ==
            [SASIndexNodeKeyMove(SASIndexNodeInit(page.home), 1, down.up.entry)
                EXCEPT !.count = 1, !.branch[0] = down.node, !.branch[1] = down.up.node]
        Top(page, down) == [root |-> New(page, down), dup |-> FALSE, space |-> page.space]
        Grown(down) == IF down.up = NULL THEN [root |-> down.node, dup |-> down.dup, space |-> down.space]
                       ELSE Top(SASIndexNearAllocNoLock(down.space, root.home), down)
    IN  Grown(SASIndexNodePushDown(space, root, key, val))

----------------------------------------------------------------------------
(* Deleting. *)

\* Removes the key at pos and the branch right of it; a node still hanging there is freed.
SASIndexNodeRemove(space, node, pos) ==
    [node  |-> [node EXCEPT
                   !.count  = @ - 1,
                   !.slot   = [i \in 1..MaxCount |->
                                  IF i = node.count THEN NULL
                                  ELSE IF i \in pos..(node.count - 1) THEN @[i + 1] ELSE @[i]],
                   !.branch = [i \in 0..MaxCount |->
                                  IF i = node.count THEN NULL
                                  ELSE IF i \in pos..(node.count - 1) THEN @[i + 1] ELSE @[i]]],
     space |-> IF node.branch[pos] = NULL THEN space ELSE SASIndexNearDeallocNoLock(space, node.branch[pos].home)]

\* Joins the nodes left and right of the key at pos with that key and frees the right one.
SASIndexNodeCombine(space, node, pos) ==
    LET q == node.branch[pos]
        r == node.branch[pos - 1]
        Add(to, entry, branch) ==
            [SASIndexNodeKeyMove(to, to.count + 1, entry) EXCEPT !.count = @ + 1, !.branch[to.count + 1] = branch]
        joined == FoldLeftDomain(LAMBDA to, i : Add(to, q.slot[i], q.branch[i]),
                                 Add(r, node.slot[pos], q.branch[0]), SubSeq(q.slot, 1, q.count))
        parent == [node EXCEPT !.slot[pos] = NULL, !.branch[pos - 1] = joined, !.branch[pos] = NULL]
    IN  SASIndexNodeRemove(SASIndexNearDeallocNoLock(space, q.home), parent, pos)

\* Moves a key from the right neighbour through the parent to the left one.
SASIndexNodeMoveLeft(node, pos) ==
    LET l == node.branch[pos - 1]
        r == node.branch[pos]
        left  == [SASIndexNodeKeyMove(l, l.count + 1, node.slot[pos])
                     EXCEPT !.count = l.count + 1, !.branch[l.count + 1] = r.branch[0]]
        right == ClearedAbove([r EXCEPT !.slot   = [i \in 1..MaxCount |-> IF i < r.count THEN @[i + 1] ELSE @[i]],
                                        !.branch = [i \in 0..MaxCount |-> IF i < r.count THEN @[i + 1] ELSE @[i]]],
                              r.count - 1)
    IN  [SASIndexNodeKeyMove([node EXCEPT !.slot[pos] = NULL], pos, r.slot[1])
            EXCEPT !.branch[pos - 1] = left, !.branch[pos] = right]

\* Moves a key from the left neighbour through the parent to the right one.
SASIndexNodeMoveRight(node, pos) ==
    LET l == node.branch[pos - 1]
        r == node.branch[pos]
        shifted == [r EXCEPT
                       !.count  = @ + 1,
                       !.slot   = [i \in 1..MaxCount |->
                                      IF i = 1 THEN NULL ELSE IF i <= r.count + 1 THEN @[i - 1] ELSE @[i]],
                       !.branch = [i \in 0..MaxCount |->
                                      IF i = 0 THEN l.branch[l.count]
                                      ELSE IF i <= r.count + 1 THEN @[i - 1] ELSE @[i]]]
        left == ClearedAbove(l, l.count - 1)
    IN  [SASIndexNodeKeyMove([node EXCEPT !.slot[pos] = NULL], pos, l.slot[l.count])
            EXCEPT !.branch[pos - 1] = left, !.branch[pos] = SASIndexNodeKeyMove(shifted, 1, node.slot[pos])]

\* Brings branch[pos], which has one key too few, back to the minimum.
SASIndexNodeRestore(space, node, pos) ==
    LET Enough(i) == node.branch[i].count > Minimum
        Moved(n)  == [node |-> n, space |-> space]
        \* The right one of the neighbours between which a key moves left.
        Lender    == CHOOSE i \in 1..node.count : i \in {pos, pos + 1} /\ Enough(i) /\ (i = pos + 1 => ~Enough(pos))
    IN  IF pos > 0 /\ Enough(pos - 1) THEN Moved(SASIndexNodeMoveRight(node, pos))
        ELSE IF \E i \in {pos, pos + 1} \cap 1..node.count : Enough(i)
             THEN Moved(SASIndexNodeMoveLeft(node, Lender))
             ELSE SASIndexNodeCombine(space, node, IF pos = 0 THEN 1 ELSE pos)

RECURSIVE Leftmost(_)
Leftmost(node) == IF IsLeaf(node) THEN node ELSE Leftmost(node.branch[0])

\* Replaces the key at pos by the smallest key right of it.
SASIndexNodeSuccessor_Fault(node, pos) ==
    SASIndexNodeKeyCopy(node, pos, [Leftmost(node.branch[pos]).slot[1] EXCEPT !.val = node.slot[pos].val])

SASIndexNodeSuccessor(node, pos) == SASIndexNodeKeyCopy(node, pos, Leftmost(node.branch[pos]).slot[1])

RECURSIVE SASIndexNodeRecDelete(_, _, _)
SASIndexNodeRecDelete(space, node, target) ==
    LET s == SASIndexNodeSearchNode(node, target)
        k == s.pos
        Into(here, below) == [below EXCEPT !.node = [here EXCEPT !.branch[k] = below.node]]
        Below(here, key)  == Into(here, SASIndexNodeRecDelete(space, here.branch[k], key))
        FromSuccessor(here) == Below(here, KeyAt(here, k))
        Restored(rest) ==
            IF rest.node.branch[k] # NULL /\ rest.node.branch[k].count < Minimum
            THEN [found |-> rest.found] @@ SASIndexNodeRestore(rest.space, rest.node, k) ELSE rest
    IN  Restored(IF s.found /\ node.branch[k - 1] = NULL
                 THEN [found |-> TRUE] @@ SASIndexNodeRemove(space, node, k)
                 ELSE IF s.found THEN FromSuccessor(SASIndexNodeSuccessor(node, k))
                 ELSE IF node.branch[k] = NULL THEN [node |-> node, space |-> space, found |-> FALSE]
                 ELSE Below(node, target))

\* Deletes a key; a root left without keys gives way to its only branch.
SASIndexNodeDelete(space, root, target) ==
    LET Rooted(rec) == [root  |-> IF rec.found /\ rec.node.count = 0 THEN rec.node.branch[0] ELSE rec.node,
                        spent |-> rec.found /\ rec.node.count = 0,
                        space |-> rec.space]
    IN  Rooted(SASIndexNodeRecDelete(space, root, target))

=============================================================================

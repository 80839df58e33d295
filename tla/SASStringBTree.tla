---------------------------- MODULE SASStringBTree ----------------------------
(* The string B-tree (sasstringbtree.cpp).  A tree is its root, its space with
   the spill areas, the count, and copies of the least and the greatest key in
   the memory `header` of its first page.  A call holds the lock of the tree
   from its first step to its last, so a call is one action; the _nolock
   variants differ in that their caller holds it.  Keys are numbers in the order
   of strcmp.  Enumerations are those of SASIndex. *)
EXTENDS StringBTreeNode

CONSTANTS HeaderSpace,  \* what is left of the first page behind its lists
          Keys, Vals, Loads, Blocks, MaxCalls

ASSUME TreeAssumption ==
    /\ Keys \subseteq Nat \ {0} /\ Size \in [Keys -> Nat]
    /\ HeaderSpace \in Nat /\ Blocks \in Nat /\ MaxCalls \in Nat

VARIABLES tree, answer, calls,
          contents  \* the keys in the tree and their values, read off the nodes after every step

vars == <<tree, answer, calls, contents>>

----------------------------------------------------------------------------
(* The calls, as functions of the tree. *)

\* A copy of a key in the header, or none.
NoKey == [key |-> NULL, at |-> NULL]

SASStringBTreeCreate(expanding, blocks) ==
    [root |-> NULL, count |-> 0, min_key |-> NoKey, max_key |-> NoKey, header |-> <<Piece(0, HeaderSpace)>>,
     space |-> SASIndexInit(expanding, blocks) @@ [spill |-> [h \in 1..MaxHeaps |-> <<>>]]]

\* The blocks of a destroyed tree go back to the region, and with them its spill areas.
SASStringBTreeDestroy(t) == t.space.blocks + Len(t.space.free) - 1

\* The header's memory with a new copy of a key, and the old copy freed.
HeaderAlloc(list, key) ==
    LET i == FirstFit(list, Round(Size[key]))
    IN  [at |-> list[i].at, list |-> AllocNode(list, i, Round(Size[key]))]
HeaderDealloc(list, old) == IF old.key = NULL THEN list ELSE DeallocSpace(list, old.at, Size[old.key])

SASStringBTreeUpdateMin(t, key) ==
    LET New(place) == [t EXCEPT !.min_key = [key |-> key, at |-> place.at], !.header = HeaderDealloc(place.list, t.min_key)]
    IN  New(HeaderAlloc(t.header, key))

SASStringBTreeUpdateMax(t, key) ==
    LET New(place) == [t EXCEPT !.max_key = [key |-> key, at |-> place.at], !.header = HeaderDealloc(place.list, t.max_key)]
    IN  New(HeaderAlloc(t.header, key))

\* A new key that is below the least key, or above the greatest.
Extended(t, key) ==
    LET Up(u) == IF key > u.max_key.key THEN SASStringBTreeUpdateMax(u, key) ELSE u
    IN  Up(IF key < t.min_key.key THEN SASStringBTreeUpdateMin(t, key) ELSE t)

\* Adds a key.  The count grows even when the key is refused.
SASStringBTreePut(t, key, val) ==
    LET Only(on) ==
            [tree |-> SASStringBTreeUpdateMax(SASStringBTreeUpdateMin(
                          [t EXCEPT !.root = on.node, !.space = on.space, !.count = @ + 1], key), key),
             answer |-> TRUE]
        First(page) == Only(SASStringBTreeNodeInitialize(page.space, SASStringBTreeNodeInit(page.home), key, val))
        Into(ins) ==
            [tree   |-> IF ins.dup THEN [t EXCEPT !.count = @ + 1]
                        ELSE Extended([t EXCEPT !.root = ins.root, !.space = ins.space, !.count = @ + 1], key),
             answer |-> ~ins.dup]
    IN  IF t.root = NULL THEN First(SASStringBTreeAllocNoLock(t.space))
        ELSE Into(SASStringBTreeNodeInsert(t.space, t.root, key, val))

\* Where the key is.
Found(t, key) == IF t.root = NULL THEN NULL ELSE SASStringBTreeNodeSearch(t.root, key)

ValAt(t, ref) == IF ref = NULL THEN NULL ELSE SlotOf(t.root, ref).val

SASStringBTreeGet(t, key) == ValAt(t, Found(t, key))

\* Changes the value of a key.  The count grows whether the key is there or not.
SASStringBTreeReplace(t, key, val) ==
    LET At(ref) ==
            [tree   |-> [t EXCEPT !.count = @ + 1,
                                  !.root = IF ref = NULL THEN @ ELSE SASIndexNodePutValIndexed(@, ref, val)],
             answer |-> ValAt(t, ref)]
    IN  At(Found(t, key))

\* The node the new least (greatest) key is taken from: the root's outer branch, the root itself
\* when it has no branches.
OuterNode(root, side) == IF root.branch[side] = NULL THEN root ELSE root.branch[side]

\* The tree after a key other than the last was removed.  The least and greatest key are looked up
\* again only while the count is above 0.
Shrunk(t, key) ==
    LET right == OuterNode(t.root, t.root.count)
        Up(u) == IF key = u.max_key.key THEN SASStringBTreeUpdateMax(u, KeyAt(right, right.count)) ELSE u
    IN  IF t.count <= 0 THEN t
        ELSE Up(IF key = t.min_key.key THEN SASStringBTreeUpdateMin(t, KeyAt(OuterNode(t.root, 0), 1)) ELSE t)

\* The last key was removed.
Emptied(t) ==
    [t EXCEPT !.root = NULL, !.count = 0, !.min_key = NoKey, !.max_key = NoKey,
              !.header = HeaderDealloc(HeaderDealloc(@, t.max_key), t.min_key)]

\* Removes a key.  The count shrinks whether the key was there or not.
SASStringBTreeRemove(t, key) ==
    LET Space(del)  == IF del.spent THEN SASStringBTreeNearDealloc(del.space, t.root.home) ELSE del.space
        Out(del) ==
            IF del.root = NULL THEN [Emptied(t) EXCEPT !.space = Space(del)]
            ELSE Shrunk([t EXCEPT !.root = del.root, !.space = Space(del), !.count = @ - 1], key)
    IN  [tree   |-> IF t.root = NULL THEN [t EXCEPT !.count = 0]
                    ELSE Out(SASStringBTreeNodeDelete(t.space, t.root, key)),
         answer |-> SASStringBTreeGet(t, key)]

SASStringBTreeIsEmpty(t) == t.count = 0

----------------------------------------------------------------------------
(* The system: threads that take turns. *)

RECURSIVE Slots(_)
\* The used slots of a tree.
Slots(node) ==
    IF node = NULL THEN {}
    ELSE {node.slot[i] : i \in 1..node.count} \cup UNION {Slots(node.branch[i]) : i \in 0..node.count}

Contents(root) ==
    LET slots == Slots(root)
    IN  [k \in {s.key : s \in slots} |-> (CHOOSE s \in slots : s.key = k).val]

\* A tree after some keys were put and some removed.
Loaded(load) ==
    FoldLeft(LAMBDA t, k : SASStringBTreeRemove(t, k).tree,
             FoldLeft(LAMBDA t, k : SASStringBTreePut(t, k, load.val).tree,
                      SASStringBTreeCreate(load.expanding, Blocks), load.puts),
             load.removes)

Init ==
    /\ tree \in {Loaded(load) : load \in Loads}
    /\ answer = NULL /\ calls = 0
    /\ contents = Contents(tree.root)

RECURSIVE Depth(_)
Depth(node) == IF node = NULL THEN 0 ELSE 1 + Depth(node.branch[0])

\* Enough space for every node and spill area a call may need, and lists of spill areas that are
\* not full; without it the code follows a null pointer.
HasRoom ==
    /\ Depth(tree.root) + 2 <= IF tree.space.expanding THEN tree.space.blocks ELSE tree.space.free[1]
    /\ \A h \in DOMAIN tree.space.free : Len(tree.space.spill[h]) + 1 < MaxSpills

Call == calls < MaxCalls /\ calls' = calls + 1

Returns(result) == tree' = result.tree /\ answer' = result.answer

PutKey(key, val) == Call /\ HasRoom /\ Returns(SASStringBTreePut(tree, key, val))

ReplaceKey(key, val) == Call /\ Returns(SASStringBTreeReplace(tree, key, val))

RemoveKey(key) == Call /\ HasRoom /\ Returns(SASStringBTreeRemove(tree, key))

\* The tree is destroyed, and made anew in blocks that were cleared.
Recreate ==
    /\ Call
    /\ tree' = SASStringBTreeCreate(tree.space.expanding, SASStringBTreeDestroy(tree))
    /\ answer' = NULL

Step ==
    \/ \E key \in Keys, val \in Vals : PutKey(key, val) \/ ReplaceKey(key, val)
    \/ \E key \in Keys : RemoveKey(key)
    \/ Recreate

Next == Step /\ contents' = Contents(tree'.root)

Spec == Init /\ [][Next]_vars

----------------------------------------------------------------------------
(* What must hold. *)

RECURSIVE Nodes(_, _)
\* The nodes of a tree that are in block h.
Nodes(node, h) ==
    IF node = NULL THEN 0
    ELSE (IF node.home = h THEN 1 ELSE 0)
         + FoldFunction(+, 0, [i \in 0..node.count |-> Nodes(node.branch[i], h)])

AllSpills == {<<h, i>> \in (1..MaxHeaps) \X (1..MaxSpills) : i \in DOMAIN tree.space.spill[h]}
Spill(a) == tree.space.spill[a[1]][a[2]]

\* The keys of a node are in order and between the bounds, every node but the root has at least
\* the minimum of keys, slots and branches above the count are clear, and all leaves are at one
\* depth.
RECURSIVE NodeIsSound(_, _, _, _)
NodeIsSound(node, least, low, high) ==
    LET Bound(i) == IF i = 0 THEN low ELSE IF i > node.count THEN high ELSE KeyAt(node, i)
    IN  /\ node.count \in least..MaxCount
        /\ \A i \in 1..MaxCount : (i > node.count) = (node.slot[i] = NULL)
        /\ \A i \in 0..MaxCount : (i > node.count \/ IsLeaf(node)) = (node.branch[i] = NULL)
        /\ \A i \in 0..node.count :
              /\ Bound(i) < Bound(i + 1)
              /\ ~IsLeaf(node) => /\ Depth(node.branch[i]) = Depth(node.branch[0])
                                  /\ NodeIsSound(node.branch[i], Minimum, Bound(i), Bound(i + 1))

\* The tree is a B-tree, and every page of every block of it is free, a node, or a spill area
\* (sasstringbtreenode.cpp: Split, Remove, Combine, MoveLeft, MoveRight; sasstringbtree.cpp: Remove).
TreeInv ==
    /\ tree.root # NULL => NodeIsSound(tree.root, 1, 0, Max(Keys) + 1)
    /\ \A h \in DOMAIN tree.space.free :
          tree.space.free[h] + Nodes(tree.root, h) + Cardinality({a \in AllSpills : Spill(a).home = h}) = BlockPages - 1
    /\ tree.space.blocks + Len(tree.space.free) = Blocks + 1

\* The memory of the copy of a key.
CopyAt(at, key) == Covers(Piece(at, Round(Size[key])))

\* These copies lie apart in the memory, and none is in what is free.
Apart(copies, list, memory) ==
    /\ IsFreeList(list)
    /\ \A c \in copies : /\ CopyAt(c.at, c.key) \subseteq 0..(memory - 1) \ Free(list)
                         /\ \A d \in copies \ {c} : CopyAt(c.at, c.key) \cap CopyAt(d.at, d.key) = {}

RECURSIVE KeysInPlace(_)
\* In the pages of a tree.
KeysInPlace(node) ==
    node # NULL => /\ Apart({s \in {node.slot[i] : i \in 1..node.count} : s.area = 0}, node.free, KeySpace)
                   /\ \A i \in 0..node.count : KeysInPlace(node.branch[i])

RECURSIVE FarKeys(_, _)
\* The slots whose keys are in spill area a.
FarKeys(node, a) ==
    IF node = NULL THEN {}
    ELSE {s \in {node.slot[i] : i \in 1..node.count} : node.home = a[1] /\ s.area = a[2]}
         \cup UNION {FarKeys(node.branch[i], a) : i \in 0..node.count}

\* Every key of the tree is in memory of its own that nothing has freed: in the page of its node
\* or in a spill area of the node's block, and the ends in the header (sasstringbtreenode.cpp:
\* KeyMove, KeyCopy, KeyReplace, KeyDelete and their callers).
KeysAreSafe ==
    /\ KeysInPlace(tree.root)
    /\ \A a \in AllSpills : Apart(FarKeys(tree.root, a), Spill(a).free, SpillSpace)
    /\ Apart({tree.min_key, tree.max_key} \ {NoKey}, tree.header, HeaderSpace)

Map == INSTANCE OrderedMap WITH map <- contents

\* The tree is a map: every call changes it and answers as OrderedMap says (sasstringbtree.cpp:
\* Put, Replace, Remove).
ImplementsMap == Map!Spec

RECURSIVE Taken(_)
\* The memory that copies of keys take in the pages of a tree.
Taken(node) ==
    IF node = NULL THEN 0
    ELSE KeySpace - SpaceTotal(node.free) + FoldFunction(+, 0, [i \in 0..node.count |-> Taken(node.branch[i])])

\* The memory of copies that no slot has: those that splits left behind.
Lost == Taken(tree.root)
        + FoldFunction(+, 0, [a \in AllSpills |-> SpillSpace - SpaceTotal(Spill(a).free)])
        - FoldFunction(+, 0, [k \in DOMAIN contents |-> Round(Size[k])])

\* Only a put that adds a key may leave the copy of a key behind: removes, with all the copying of
\* keys between nodes and spill areas, free every copy they replace (sasstringbtreenode.cpp:
\* KeyMove, KeyCopy, KeyDelete in Remove, Combine, MoveLeft, MoveRight, Successor).
OnlyPutsLoseMemory == [][DOMAIN contents' \subseteq DOMAIN contents => Lost' <= Lost]_vars

=============================================================================

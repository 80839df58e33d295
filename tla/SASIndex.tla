------------------------------- MODULE SASIndex ------------------------------
(* The B-tree index (sasindex.cpp, sasindexenum.cpp) and, where the code is the
   same or differs by a line, the string B-tree (sasstringbtree.cpp,
   sasstringbtreeenum.cpp).  An index is its tree of nodes, its space, and the
   common block with the count and copies of the least and the greatest key.
   A call holds the lock of the index from its first step to its last, so a
   call is one action; the _nolock variants differ in that their caller holds
   it.  Keys are numbers; 0 is the empty key an enumeration starts from. *)
EXTENDS IndexNode

CONSTANTS Keys, Vals, Loads, Blocks, MaxCalls

ASSUME IndexAssumption == Keys \subseteq Nat \ {0} /\ Blocks \in Nat /\ MaxCalls \in Nat

VARIABLES index,    \* the index
          answer,   \* what the last call that may change the index returned
          cursor,   \* an enumeration, NULL when there is none
          calls,    \* the calls made, up to MaxCalls
          contents  \* the keys in the tree and their values, read off the nodes after every step

vars == <<index, answer, cursor, calls, contents>>

----------------------------------------------------------------------------
(* The calls, as functions of the index. *)

SASIndexCreate(expanding, blocks) ==
    [root |-> NULL, space |-> SASIndexInit(expanding, blocks), count |-> 0, min_key |-> NULL, max_key |-> NULL]

\* The blocks of a destroyed index go back to the region.
SASIndexDestroy(idx) == idx.space.blocks + Len(idx.space.free) - 1

\* Adds a key.  The count grows even when the key is refused.
SASIndexPut(idx, key, val) ==
    LET grown == [idx EXCEPT !.count = @ + 1]
        First(page) ==
            [index  |-> [grown EXCEPT !.root = SASIndexNodeInitialize(SASIndexNodeInit(page.home), key, val),
                                      !.space = page.space, !.min_key = key, !.max_key = key],
             answer |-> TRUE]
        Into(ins) ==
            [index  |-> IF ins.dup THEN grown
                        ELSE [grown EXCEPT !.root = ins.root, !.space = ins.space,
                                           !.min_key = IF key < @ THEN key ELSE @,
                                           !.max_key = IF key > @ THEN key ELSE @],
             answer |-> ~ins.dup]
    IN  IF idx.root = NULL THEN First(SASIndexAllocNoLock(idx.space))
        ELSE Into(SASIndexNodeInsert(idx.space, idx.root, key, val))

\* Where the key is.
Found(idx, key) == IF idx.root = NULL THEN NULL ELSE SASIndexNodeSearch(idx.root, key)

SASIndexContainsKey(idx, key) == Found(idx, key) # NULL

ValAt(idx, ref) == IF ref = NULL THEN NULL ELSE SlotOf(idx.root, ref).val

SASIndexGet(idx, key) == ValAt(idx, Found(idx, key))

\* Changes the value of a key.  The count grows whether the key is there or not.
SASIndexReplace(idx, key, val) ==
    LET At(ref) ==
            [index  |-> [idx EXCEPT !.count = @ + 1,
                                    !.root = IF ref = NULL THEN @ ELSE SASIndexNodePutValIndexed(@, ref, val)],
             answer |-> ValAt(idx, ref)]
    IN  At(Found(idx, key))

\* The node the new least (greatest) key is taken from: the root's outer branch, the root itself
\* when it has no branches.
OuterNode(root, side) == IF root.branch[side] = NULL THEN root ELSE root.branch[side]

\* The index after a key other than the last was removed.  The least and greatest key are looked
\* up again only while the count is above 0.
SASIndexUpdateEnds(idx, key) ==
    LET right == OuterNode(idx.root, idx.root.count)
    IN  IF idx.count > 0
        THEN [idx EXCEPT !.min_key = IF key = @ THEN KeyAt(OuterNode(idx.root, 0), 1) ELSE @,
                         !.max_key = IF key = @ THEN KeyAt(right, right.count) ELSE @]
        ELSE idx

SASIndexRemove_Fault(idx, key) ==
    LET Without(del) ==
            IF del.root = NULL
            THEN [idx EXCEPT !.root = NULL, !.space = del.space, !.count = 0, !.min_key = NULL, !.max_key = NULL]
            ELSE SASIndexUpdateEnds([idx EXCEPT !.root = del.root, !.space = del.space, !.count = @ - 1], key)
    IN  [index  |-> IF idx.root = NULL THEN [idx EXCEPT !.count = 0]
                    ELSE Without(SASIndexNodeDelete(idx.space, idx.root, key)),
         answer |-> SASIndexGet(idx, key)]

\* Removes a key.  The count shrinks whether the key was there or not.
SASIndexRemove(idx, key) ==
    LET Space(del) == IF del.spent THEN SASIndexNearDeallocNoLock(del.space, idx.root.home) ELSE del.space
        Without(del) ==
            IF del.root = NULL
            THEN [idx EXCEPT !.root = NULL, !.space = Space(del), !.count = 0, !.min_key = NULL, !.max_key = NULL]
            ELSE SASIndexUpdateEnds([idx EXCEPT !.root = del.root, !.space = Space(del), !.count = @ - 1], key)
    IN  [index  |-> IF idx.root = NULL THEN [idx EXCEPT !.count = 0]
                    ELSE Without(SASIndexNodeDelete(idx.space, idx.root, key)),
         answer |-> SASIndexGet(idx, key)]

SASIndexIsEmpty(idx) == idx.count = 0
SASIndexGetMaxKey(idx) == idx.max_key
SASIndexGetMinKey(idx) == idx.min_key

----------------------------------------------------------------------------
(* Enumerations.  curkey points to the empty key of the enumeration itself or
   to the copy of a key in the tree; ref is where that copy was; fresh says that
   the tree has not been changed since (curmod = modCount). *)

Stale == Ref(0)

\* The tree with the mark on the slot that ref names, and on no other.
RECURSIVE Unmarked(_)
Unmarked(node) ==
    IF node = NULL THEN NULL
    ELSE [node EXCEPT !.slot   = [i \in 1..MaxCount |-> IF @[i] = NULL THEN NULL ELSE Copied(@[i])],
                      !.branch = [i \in 0..MaxCount |-> Unmarked(@[i])]]

Marked(root, ref) ==
    WithSlot(Unmarked(root), ref.path, ref.pos, [Copied(SlotOf(root, ref)) EXCEPT !.at = TRUE])

RECURSIVE HasMark(_)
HasMark(node) ==
    node # NULL /\ \/ \E i \in 1..node.count : node.slot[i].at
                   \/ \E i \in 0..node.count : HasMark(node.branch[i])

\* curkey points to a key that is still there.
KeyIsThere == cursor.own \/ HasMark(index.root)

\* The key that reading curkey gives: any, once its memory was freed.
CurKeys == IF KeyIsThere THEN {cursor.key} ELSE Keys

SASIndexEnumCreate(idx) ==
    [own |-> TRUE, key |-> 0, ref |-> NULL, fresh |-> TRUE, hasmore |-> ~SASIndexIsEmpty(idx), left |-> idx.count]

\* String trees only: an enumeration that starts from the key before the given one.
SASStringBTreeEnumCreateStartAt(idx, key) ==
    IF SASIndexGetMaxKey(idx) # NULL /\ key < SASIndexGetMaxKey(idx)
    THEN [SASIndexEnumCreate(idx) EXCEPT !.key = key - 1, !.hasmore = TRUE]
    ELSE NULL

\* The next key in the node of the last one or below it, while the tree has not changed.
NextNearby(idx, c, key) ==
    LET node == NodeOf(idx.root, c.ref.path)
        Here(sub) == IF sub = NULL THEN NULL ELSE [sub EXCEPT !.path = c.ref.path \o @]
    IN  IF c.ref = NULL \/ ~c.fresh THEN NULL
        ELSE IF c.ref.pos >= node.count THEN NULL
        ELSE IF node.branch[c.ref.pos] = NULL THEN [c.ref EXCEPT !.pos = @ + 1]
        ELSE Here(SASIndexNodeSearchGT(node, key))

\* The next key from the root; the first step of an enumeration may find the key it starts from.
NextFromRoot(idx, c, key) ==
    IF c.ref = NULL THEN SASIndexNodeSearchGE(idx.root, key) ELSE SASIndexNodeSearchGT(idx.root, key)

\* String trees only: the count of keys that are left, after a step from c that found a key near
\* the last one.
CurCount(idx, c, more) ==
    LET inner == NodeOf(idx.root, c.ref.path).branch[c.ref.pos] # NULL
    IN  IF more THEN c.left - (IF inner THEN 2 ELSE 1) ELSE 1

\* One step of the enumeration c, whose curkey reads key.
EnumStep_Fault(idx, c, key) ==
    LET Stay(more) == [cursor |-> [c EXCEPT !.hasmore = more], root |-> idx.root, val |-> NULL]
        Reach(at, slot) ==
            [cursor |-> [own |-> FALSE, key |-> slot.key, ref |-> at, fresh |-> TRUE,
                         hasmore |-> slot.key < idx.max_key, left |-> idx.count],
             root   |-> Marked(idx.root, at), val |-> slot.val]
        To(at) == IF at = NULL THEN Stay(FALSE) ELSE Reach(at, SlotOf(idx.root, at))
    IN  IF idx.max_key = NULL THEN Stay(c.hasmore)
        ELSE IF key >= idx.max_key THEN Stay(FALSE)
        ELSE To(SASIndexNodeSearchGE(idx.root, key))

EnumStep(idx, c, key) ==
    LET Stay(more) == [cursor |-> [c EXCEPT !.hasmore = more], root |-> idx.root, val |-> NULL]
        Reach(at, slot, more, isNear) ==
            [cursor |-> [own |-> FALSE, key |-> slot.key, ref |-> at, fresh |-> TRUE, hasmore |-> more,
                         left |-> IF isNear THEN CurCount(idx, c, more) ELSE idx.count],
             root   |-> Marked(idx.root, at), val |-> slot.val]
        Past(at, slot, isNear) == Reach(at, slot, slot.key < SASIndexGetMaxKey(idx), isNear)
        To(at, isNear) == IF at = NULL THEN Stay(FALSE) ELSE Past(at, SlotOf(idx.root, at), isNear)
        From(near) == IF near # NULL THEN To(near, TRUE) ELSE To(NextFromRoot(idx, c, key), FALSE)
    IN  IF SASIndexGetMaxKey(idx) = NULL THEN Stay(c.hasmore)
        ELSE IF key >= SASIndexGetMaxKey(idx) THEN Stay(FALSE)
        ELSE From(NextNearby(idx, c, key))

\* The entries of a tree.
RECURSIVE Entries(_)
Entries(node) ==
    IF node = NULL THEN {}
    ELSE {node.slot[i] : i \in 1..node.count} \cup UNION {Entries(node.branch[i]) : i \in 0..node.count}

Contents(root) ==
    LET entries == Entries(root)
    IN  [k \in {e.key : e \in entries} |-> (CHOOSE e \in entries : e.key = k).val]

----------------------------------------------------------------------------
(* The system: one thread that changes the index and one that enumerates it. *)

\* An index after some keys were put and some removed.
Loaded(load) ==
    FoldLeft(LAMBDA idx, k : SASIndexRemove(idx, k).index,
             FoldLeft(LAMBDA idx, k : SASIndexPut(idx, k, load.val).index,
                      SASIndexCreate(load.expanding, Blocks), load.puts),
             load.removes)

Init ==
    /\ index \in {Loaded(load) : load \in Loads}
    /\ answer = NULL /\ cursor = NULL /\ calls = 0
    /\ contents = Contents(index.root)

RECURSIVE Depth(_)
Depth(node) == IF node = NULL THEN 0 ELSE 1 + Depth(node.branch[0])

\* Enough space for every node a put may need; without it the code follows a null pointer.
HasRoom == Depth(index.root) + 1 <= IF index.space.expanding THEN index.space.blocks ELSE index.space.free[1]

Call == calls < MaxCalls /\ calls' = calls + 1

\* What a change of the tree leaves of the enumeration.
CursorIsStale ==
    cursor' = IF cursor = NULL THEN NULL
              ELSE [cursor EXCEPT !.fresh = FALSE, !.ref = IF @ = NULL THEN NULL ELSE Stale]

\* A call that changed the index, or tried to.
Returns(result) == index' = result.index /\ answer' = result.answer

PutKey(key, val) ==
    /\ Call /\ HasRoom
    /\ Returns(SASIndexPut(index, key, val))
    /\ IF answer' THEN CursorIsStale ELSE UNCHANGED cursor

ReplaceKey(key, val) == Call /\ Returns(SASIndexReplace(index, key, val)) /\ CursorIsStale

RemoveKey(key) == Call /\ Returns(SASIndexRemove(index, key)) /\ CursorIsStale

\* The index is destroyed, and made anew in blocks that were cleared; nobody enumerates it.
Recreate ==
    /\ Call /\ cursor = NULL
    /\ index' = SASIndexCreate(index.space.expanding, SASIndexDestroy(index))
    /\ answer' = NULL /\ UNCHANGED cursor

EnumCreate ==
    /\ Call /\ cursor = NULL
    /\ cursor' = SASIndexEnumCreate(index)
    /\ UNCHANGED <<index, answer>>

EnumCreateStartAt(key) ==
    /\ Call /\ cursor = NULL
    /\ cursor' = SASStringBTreeEnumCreateStartAt(index, key)
    /\ UNCHANGED <<index, answer>>

EnumNext ==
    /\ cursor # NULL
    /\ \E key \in CurKeys :
          LET Goes(step) == cursor' = step.cursor /\ index' = [index EXCEPT !.root = step.root]
          IN  Goes(EnumStep(index, cursor, key))
    /\ UNCHANGED <<answer, calls>>

EnumDestroy ==
    /\ cursor # NULL
    /\ cursor' = NULL /\ index' = [index EXCEPT !.root = Unmarked(@)]
    /\ UNCHANGED <<answer, calls>>

Step ==
    \/ \E key \in Keys, val \in Vals : PutKey(key, val)
    \/ \E key \in Keys, val \in Vals : ReplaceKey(key, val)
    \/ \E key \in Keys : RemoveKey(key)
    \/ Recreate
    \/ EnumCreate
    \/ \E key \in Keys : EnumCreateStartAt(key)
    \/ EnumNext
    \/ EnumDestroy

Next == Step /\ contents' = Contents(index'.root)

Spec == Init /\ [][Next]_vars

----------------------------------------------------------------------------
(* What must hold. *)

RECURSIVE NodesOf(_, _)
\* The number of nodes of a tree in block h.
NodesOf(node, h) ==
    IF node = NULL THEN 0
    ELSE (IF node.home = h THEN 1 ELSE 0)
         + FoldFunction(+, 0, [i \in 0..node.count |-> NodesOf(node.branch[i], h)])

\* The keys of a node are in order and between the bounds, every node but the root has at least
\* the minimum of keys, slots and branches above the count are clear, and all leaves are at one
\* depth.
RECURSIVE NodeIsSound(_, _, _, _)
NodeIsSound(node, least, low, high) ==
    LET Bound(i) == IF i = 0 THEN low ELSE IF i > node.count THEN high ELSE KeyAt(node, i)
    IN  /\ node.count \in least..MaxCount
        /\ \A i \in 1..MaxCount : (i > node.count) = (node.slot[i] = NULL)
        /\ \A i \in 0..MaxCount : (i > node.count \/ IsLeaf(node)) = (node.branch[i] = NULL)
        /\ \A i \in 0..node.count :
              /\ Bound(i) < Bound(i + 1)
              /\ ~IsLeaf(node) => /\ Depth(node.branch[i]) = Depth(node.branch[0])
                                  /\ NodeIsSound(node.branch[i], Minimum, Bound(i), Bound(i + 1))

\* The tree is a B-tree, and every page of every block of the index is free or is one node of it
\* (sasindexnode.cpp: Split, Remove, Combine, MoveLeft, MoveRight; sasindex.cpp: Remove).
TreeInv ==
    /\ index.root # NULL => NodeIsSound(index.root, 1, 0, Max(Keys) + 1)
    /\ \A h \in DOMAIN index.space.free : index.space.free[h] + NodesOf(index.root, h) = BlockPages - 1
    /\ index.space.blocks + Len(index.space.free) = Blocks + 1

\* A search found the least (greatest) of these keys, or nothing when there are none.
FoundLeast(ref, keys) ==
    IF keys = {} THEN ref = NULL ELSE ref # NULL /\ SlotOf(index.root, ref).key = Min(keys)
FoundGreatest(ref, keys) ==
    IF keys = {} THEN ref = NULL ELSE ref # NULL /\ SlotOf(index.root, ref).key = Max(keys)

\* The five searches of a tree find the key, the next one above or below it, or nothing, as a
\* search of the sorted keys would (sasindexnode.cpp: SASIndexNodeSearch and its GT, GE, LT, LE).
SearchesFindNeighbours ==
    index.root # NULL =>
        \A k \in Keys \cup {0} :
            LET at    == {j \in DOMAIN contents : j = k}
                above == {j \in DOMAIN contents : j > k}
                below == {j \in DOMAIN contents : j < k}
            IN  /\ SASIndexContainsKey(index, k) = (at # {})
                /\ SASIndexGet(index, k) = IF at = {} THEN NULL ELSE contents[k]
                /\ FoundLeast(SASIndexNodeSearchGT(index.root, k), above)
                /\ FoundLeast(SASIndexNodeSearchGE(index.root, k), above \cup at)
                /\ FoundGreatest(SASIndexNodeSearchLT(index.root, k), below)
                /\ FoundGreatest(SASIndexNodeSearchLE(index.root, k), below \cup at)

Map == INSTANCE OrderedMap WITH map <- contents

\* The index is a map: every call changes it and answers as OrderedMap says (sasindex.cpp: Put,
\* Replace, Remove).
ImplementsMap == Map!Spec

\* The keys an enumeration has yet to give.
ToCome == {k \in DOMAIN contents : k > cursor.key \/ (k = cursor.key /\ cursor.ref = NULL)}

\* A step of an enumeration goes to the least key it has not given, wherever the tree's changes
\* have moved it, unless max_key says that there is none or the memory of curkey was freed
\* (sasindexenum.cpp: SASIndexEnumNext).
EnumGoesToNextKey ==
    [][ (cursor # NULL /\ cursor' # NULL /\ calls' = calls) =>
          ((KeyIsThere /\ index.max_key # NULL /\ cursor.key < index.max_key) =>
              IF ToCome = {} THEN cursor'.key = cursor.key /\ ~cursor'.hasmore
              ELSE cursor'.key = Min(ToCome)) ]_vars

=============================================================================

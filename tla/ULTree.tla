------------------------------- MODULE ULTree -------------------------------
(***************************************************************************)
(* The binary search tree of ultree.cpp, in which the block allocator      *)
(* keeps its blocks.  A tree is a value: <<>> is the NULL pointer, and     *)
(* <<n>> a pointer to the node n.  The tree is never balanced.  A pointer  *)
(* to the place where a node hangs (the ** versions of the searches) is    *)
(* the key of that node: no tree has a key twice.                          *)
(***************************************************************************)
LOCAL INSTANCE Integers
LOCAL INSTANCE Sequences

NoNode == <<>>

Node(k, i) == <<[key |-> k, info |-> i, left |-> NoNode, right |-> NoNode]>>

\* A node whose key is there already is dropped.
RECURSIVE insertNode(_, _, _)
insertNode(t, k, i) ==
  IF t = NoNode THEN Node(k, i)
  ELSE LET n == t[1] IN
       CASE k < n.key -> <<[n EXCEPT !.left = insertNode(n.left, k, i)]>>
         [] k > n.key -> <<[n EXCEPT !.right = insertNode(n.right, k, i)]>>
         [] OTHER -> t

RECURSIVE HangLeft(_, _)
HangLeft(t, left) ==
  IF t = NoNode THEN left
  ELSE <<[t[1] EXCEPT !.left = HangLeft(t[1].left, left)]>>

\* The right subtree takes the place of the node, and the left subtree hangs
\* under the leftmost node of the right one.
RECURSIVE removeNode(_, _)
removeNode(t, k) ==
  LET n == t[1] IN
  CASE k < n.key -> <<[n EXCEPT !.left = removeNode(n.left, k)]>>
    [] k > n.key -> <<[n EXCEPT !.right = removeNode(n.right, k)]>>
    [] OTHER -> IF n.right = NoNode THEN n.left ELSE HangLeft(n.right, n.left)

\* The walk of both searches; q is the best node seen so far.
RECURSIVE EqualOrNext(_, _, _)
EqualOrNext(t, k, q) ==
  IF t = NoNode THEN q
  ELSE LET n == t[1] IN
       CASE n.key = k -> t
         [] n.key < k -> EqualOrNext(n.right, k,
                           IF n.right # NoNode /\ n.right[1].key > k THEN n.right ELSE q)
         [] OTHER -> EqualOrNext(n.left, k, t)

searchEqualOrNextNode(t, k) == EqualOrNext(t, k, NoNode)

\* A node with the key k sends the walk to its right subtree.
RECURSIVE Next_(_, _, _)
Next_(t, k, q) ==
  IF t = NoNode THEN q
  ELSE LET n == t[1] IN
       CASE n.key > k -> Next_(n.left, k, t)
         [] n.key = k /\ n.right = NoNode -> q
         [] n.key = k -> Next_(n.right, k, n.right)
         [] OTHER -> Next_(n.right, k,
                       IF n.right # NoNode /\ n.right[1].key > k THEN n.right ELSE q)

searchNextNode(t, k) == Next_(t, k, NoNode)

\* The nodes that a loop over searchNextNode visits, from the key k on.
RECURSIVE NodesAfter(_, _)
NodesAfter(t, k) ==
  LET n == searchNextNode(t, k)
  IN IF n = NoNode THEN <<>> ELSE <<n[1]>> \o NodesAfter(t, n[1].key)

\* For the properties: the set of the nodes, and the order of a search tree.
RECURSIVE NodesOf(_)
NodesOf(t) == IF t = NoNode THEN {}
              ELSE {t[1]} \union NodesOf(t[1].left) \union NodesOf(t[1].right)

RECURSIVE IsSearchTree(_)
IsSearchTree(t) ==
  t # NoNode => /\ \A n \in NodesOf(t[1].left) : n.key < t[1].key
                /\ \A n \in NodesOf(t[1].right) : n.key > t[1].key
                /\ IsSearchTree(t[1].left)
                /\ IsSearchTree(t[1].right)
=============================================================================

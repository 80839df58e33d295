--------------------------- MODULE MCCompoundHeap ---------------------------
(* Small instances of the heaps for TLC.                                   *)
EXTENDS CompoundHeap, TLC

CONSTANTS t1, t2

(* One thread: pieces of simple heaps of a page; heaps, stacks and spaces  *)
(* of two, stacks of four; pages of compound heaps of two pages, the list  *)
(* of whose parts grows out of its header; of one of four.                 *)
Pieces == [threads |-> {t1}, ops |-> {"heap", "near", "destroy"}, pages |-> {1}, sizes |-> {1, 4},
           calls |-> 9]
Stacks == [Pieces EXCEPT !.ops = {"heap", "stack", "space", "destroy"}, !.pages = {2},
                           !.sizes = {4, 18}, !.calls = 6]
FourPages == [Stacks EXCEPT !.ops = {"stack", "near"}, !.pages = {4}, !.sizes = {4},
               !.calls = 8]
OfTwo == [threads |-> {t1}, ops |-> {"expanding", "alloc", "free", "destroy", "nearalloc", "fixed"},
          pages |-> {2}, sizes |-> {}, calls |-> 8]
OfFour == [OfTwo EXCEPT !.pages = {4}, !.sizes = {1}, !.calls = 7,
           !.ops = {"expanding", "nolock", "nearalloc", "queue", "dealloc", "heap"}]

(* The calls without locks, of the list that grows and of fixed heaps.     *)
NoLocks == [OfTwo EXCEPT !.ops = {"expanding", "fixed", "nolock"}, !.calls = 6]

(* Two threads in one expanding heap, or in a fixed one; two whose lists   *)
(* grow out of the headers at once, so that one takes the block the other  *)
(* gave back.                                                              *)
Shared == [threads |-> {t1, t2}, ops |-> {"expanding", "alloc", "dealloc", "report"},
           pages |-> {2}, sizes |-> {}, calls |-> 9]
SharedPages == [Shared EXCEPT !.ops = {"expanding", "queue", "dealloc"}, !.pages = {4},
                 !.calls = 10]
SharedNear == [Shared EXCEPT !.ops = {"expanding", "alloc", "nearalloc"}, !.calls = 7]
Fixed == [Shared EXCEPT !.ops = {"fixed", "alloc", "nearalloc", "dealloc", "free"}, !.pages = {4},
          !.calls = 7]

HeapUses == {Pieces, Stacks, FourPages, OfTwo, OfFour, NoLocks, Shared, SharedPages, SharedNear, Fixed}

(* The theorems hold of these programs.                                    *)
ASSUME UsesAreSafe == SafeUses
=============================================================================

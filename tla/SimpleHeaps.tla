----------------------------- MODULE SimpleHeaps -----------------------------
(***************************************************************************)
(* Simple heaps, spaces and stacks (sassimpleheap.cpp, sassimplespace.cpp, *)
(* sassimplestack.cpp): a block of the region with a header in front, out  *)
(* of which programs take pieces, and the search for the header of an      *)
(* address (sasalloc.cpp).                                                 *)
(*                                                                         *)
(* A call that takes the lock of a heap is one step of a thread that can   *)
(* have it: everything it touches is under that lock.  The variants whose  *)
(* names end in NoLock do the same for a program that holds the lock, or   *)
(* is alone.  The near calls take no lock: only a thread that is alone     *)
(* makes them.                                                             *)
(*                                                                         *)
(* The region gives blocks of whole pages, of a power of two, and the      *)
(* lowest there is (SASRegion).  It clears the first page of a block that  *)
(* comes back (SASBlockDealloc) and no more, unless a program sets         *)
(* sasClearOnDealloc: headers of pages within a block outlive it.          *)
(***************************************************************************)
EXTENDS FreeList, FiniteSets

CONSTANTS
  Thread,
  NoThread,     (* a lock nobody has                                       *)
  NumPages,     (* of the region                                           *)
  PageSize,     (* default_page                                            *)
  HeapOffset,   (* heap_offset, the header of a simple heap                *)
  ProbedSizes,  (* the block__mask...k SASFindHeader tries, in pages       *)
  Uses          (* what the programs of a behaviour do                     *)

Op == {"heap", "near", "stack", "space", "alloc", "queue", "dealloc", "free", "nearalloc",
       "nolock", "report", "expanding", "fixed", "destroy"}

ASSUME HeapsAssumption ==
  /\ NoThread \notin Thread
  /\ NumPages \in Nat /\ NumPages >= 1
  /\ PageSize \in Nat /\ PageSize % NodeAlign = 0
  /\ HeapOffset \in 1..PageSize-1 /\ HeapOffset % NodeAlign = 0
  /\ ProbedSizes \subseteq 1..NumPages
  /\ 1 \in ProbedSizes                (* block__mask4k, of a default_page *)
  /\ \A u \in Uses :
       /\ u.threads \subseteq Thread
       /\ u.ops \subseteq Op
       /\ u.pages \subseteq 1..NumPages   (* sizes of the blocks it makes   *)
       /\ u.sizes \subseteq Nat           (* sizes of the pieces            *)
       /\ u.calls \in Nat                (* bound on the calls             *)

Page == 0..NumPages-1
NoPage == NumPages

VARIABLES
  hdr,          (* what stands at the start of each page                   *)
  blocks,       (* the length in pages of the block in use at a page, or 0 *)
  lock,         (* SASLock of the address of each page: owner, depth       *)
  live,         (* the heaps, stacks and spaces the programs have, by page *)
  owned,        (* the pieces the programs have                            *)
  use,
  begun         (* the calls made so far                                   *)

svars == <<hdr, blocks, lock, live, owned, use, begun>>

(* SASBlockHeader, and what the header of a compound heap adds to it.      *)
Header(kind, n, list) ==
  [kind |-> kind, size |-> n, list |-> list, base |-> NoPage, next |-> 0,
   expand |-> <<>>, max |-> 0, space |-> NoPage]

NoHeader == Header("none", 0, <<>>)

Address(p) == p * PageSize
PageOf(a) == a \div PageSize

Alone(t) == use.threads = {t}

-----------------------------------------------------------------------------
(* Locks, as RWLock has them; unlock asks nobody for his name.             *)
Unlocked == [owner |-> NoThread, depth |-> 0]

CanLock(p, t) == lock[p].owner \in {t, NoThread}

Locked(lk, p, t) == [lk EXCEPT ![p] = [owner |-> t, depth |-> @.depth + 1]]

Released(lk, p) ==
  [lk EXCEPT ![p] = IF @.depth <= 1 THEN Unlocked ELSE [owner |-> @.owner, depth |-> @.depth - 1]]

-----------------------------------------------------------------------------
(* SASBlockAlloc, SASBlockDealloc.                                         *)
UsedPages == UNION {p .. p + blocks[p] - 1 : p \in {q \in Page : blocks[q] > 0}}

BlocksFree(n) ==
  {p \in Page : p % n = 0 /\ p + n <= NumPages /\ (p .. p + n - 1) \cap UsedPages = {}}

LowestBlock(n) ==
  IF BlocksFree(n) = {} THEN NoPage
  ELSE CHOOSE p \in BlocksFree(n) : \A q \in BlocksFree(n) : p <= q

-----------------------------------------------------------------------------
(* SASFindHeader: the page of the address first, then the block of each    *)
(* probed size around it.                                                  *)
Probes(a) == {(PageOf(a) \div n) * n : n \in ProbedSizes}

FindHeader(a) ==
  LET found == {p \in Probes(a) : hdr[p].kind # "none"}
  IN  IF found = {} THEN NoPage ELSE CHOOSE p \in found : \A q \in found : q <= p

(* initSOMSASBlock with a free list, from an offset in the block to its    *)
(* end: SASSimpleHeapInit.  What a compound heap had behind the header      *)
(* stays.                                                                  *)
SimpleHeap(p, n) ==
  [hdr[p] EXCEPT !.kind = "heap", !.size = n, !.base = p,
     !.list = <<Piece(Address(p) + HeapOffset, n * PageSize - HeapOffset)>>]

(* SASSimpleSpaceInit, SASSimpleStackInit: the first page is for the       *)
(* header; next is next_stack.                                             *)
SimpleSpace(n) == Header("space", n, <<>>)
SimpleStack(p, n) == [Header("stack", n, <<>>) EXCEPT !.next = Address(p) + PageSize]

NewHeader(kind, p, n) ==
  CASE kind = "heap" -> SimpleHeap(p, n)
    [] kind = "space" -> SimpleSpace(n)
    [] kind = "stack" -> SimpleStack(p, n)

HeapStart(p) == IF hdr[p].kind = "heap" THEN Address(p) + HeapOffset ELSE Address(p) + PageSize
HeapEnd(p) == Address(p) + hdr[p].size * PageSize
PiecesIn(p) == {x \in owned : x.at >= Address(p) /\ x.at < HeapEnd(p)}

ContainerOf(x) == CHOOSE p \in live : x \in PiecesIn(p)

(* SASSimpleHeapFreeSpace, ...Empty; SASSimpleStackFreeSpace.              *)
HeapFreeSpace(p) ==
  IF hdr[p].kind = "stack" THEN HeapEnd(p) - hdr[p].next ELSE SpaceTotal(hdr[p].list)
HeapEmpty(p) == HeapFreeSpace(p) = HeapEnd(p) - HeapStart(p)

-----------------------------------------------------------------------------
SInit ==
  /\ hdr = [p \in Page |-> NoHeader]
  /\ blocks = [p \in Page |-> 0]
  /\ lock = [p \in Page |-> Unlocked]
  /\ live = {}
  /\ owned = {}
  /\ use \in Uses
  /\ begun = 0

Call(t, op) ==
  /\ t \in use.threads
  /\ op \in use.ops
  /\ begun < use.calls
  /\ begun' = begun + 1
  /\ use' = use

(* SASSimpleHeapCreate, SASSimpleSpaceCreate, SASSimpleStackCreate; with   *)
(* no block to be had nothing happens.                                     *)
Create(t, kind, n) ==
  /\ Call(t, kind)
  /\ n \in use.pages
  /\ kind = "heap" \/ n > 1
  /\ LET p == LowestBlock(n)
     IN  IF p = NoPage
           THEN UNCHANGED <<hdr, blocks, live>>
           ELSE /\ hdr' = [hdr EXCEPT ![p] = NewHeader(kind, p, n)]
                /\ blocks' = [blocks EXCEPT ![p] = n]
                /\ live' = live \cup {p}
  /\ UNCHANGED <<lock, owned>>

(* SASSimpleHeapDestroy and its like, of a block taken with Create.        *)
DestroySimple(t, p) ==
  /\ Call(t, "destroy")
  /\ p \in live /\ blocks[p] > 0 /\ hdr[p].kind # "compound"
  /\ CanLock(p, t)
  /\ blocks' = [blocks EXCEPT ![p] = 0]
  /\ hdr' = [hdr EXCEPT ![p] = NoHeader]
  /\ live' = live \ {p}
  /\ owned' = owned \ PiecesIn(p)
  /\ lock' = lock

(* What a heap gives for a size, from its free list: no piece, or the one  *)
(* it takes off.                                                           *)
Gives(p, n) == FirstFit(hdr[p].list, Round(n))

TakePiece(p, n) ==
  LET i == Gives(p, n)
  IN  IF i = 0
        THEN UNCHANGED <<hdr, owned>>
        ELSE /\ hdr' = [hdr EXCEPT ![p].list = AllocNode(@, i, Round(n))]
             /\ owned' = owned \cup {Piece(hdr[p].list[i].at, Round(n))}

PutPiece(p, x, n) ==
  /\ hdr' = [hdr EXCEPT ![p].list = DeallocSpace(@, x.at, n)]
  /\ owned' = owned \ {x}

(* The test of the size in both directions.                                *)
InRange(p, n) == n < hdr[p].size * PageSize - HeapOffset

(* SASSimpleHeapAlloc.                                                     *)
HeapAlloc(t, p, n) ==
  /\ Call(t, "heap")
  /\ p \in live /\ hdr[p].kind = "heap"
  /\ n \in use.sizes
  /\ CanLock(p, t)
  /\ IF InRange(p, n) THEN TakePiece(p, n) ELSE UNCHANGED <<hdr, owned>>
  /\ UNCHANGED <<blocks, lock, live>>

(* The sizes a program may free a piece with: those it may have asked for. *)
Asked(x) == {n \in use.sizes : Round(n) = x.size}

(* SASSimpleHeapFree.                                                      *)
HeapFree(t, p, x, n) ==
  /\ Call(t, "heap")
  /\ p \in live /\ hdr[p].kind = "heap"
  /\ x \in PiecesIn(p) /\ n \in Asked(x)
  /\ CanLock(p, t)
  /\ IF InRange(p, n) THEN PutPiece(p, x, n) ELSE UNCHANGED <<hdr, owned>>
  /\ UNCHANGED <<blocks, lock, live>>

(* SASSimpleHeapNearAlloc, near a piece: of whatever header is found, with *)
(* no test of the size.  With none the piece comes from malloc.            *)
NearAlloc(t, x, n) ==
  /\ Call(t, "near")
  /\ Alone(t)
  /\ x \in owned /\ n \in use.sizes
  /\ FindHeader(x.at) # NoPage
  /\ TakePiece(FindHeader(x.at), n)
  /\ UNCHANGED <<blocks, lock, live>>

(* SASSimpleHeapNearDealloc, of a piece of a simple heap.                  *)
NearDealloc(t, x, n) ==
  /\ Call(t, "near")
  /\ Alone(t)
  /\ x \in owned /\ n \in Asked(x)
  /\ hdr[ContainerOf(x)].kind = "heap"
  /\ FindHeader(x.at) # NoPage
  /\ PutPiece(FindHeader(x.at), x, n)
  /\ UNCHANGED <<blocks, lock, live>>

(* SASSimpleStackAlloc.                                                    *)
StackFits(p, n) == hdr[p].next + Round(n) <= HeapEnd(p)

Push(t, p, n) ==
  /\ CanLock(p, t)
  /\ IF StackFits(p, n)
       THEN /\ hdr' = [hdr EXCEPT ![p].next = @ + Round(n)]
            /\ owned' = owned \cup {Piece(hdr[p].next, Round(n))}
       ELSE UNCHANGED <<hdr, owned>>
  /\ UNCHANGED <<blocks, lock, live>>

StackAlloc(t, p, n) ==
  /\ Call(t, "stack")
  /\ p \in live /\ hdr[p].kind = "stack"
  /\ n \in use.sizes
  /\ Push(t, p, n)

(* SASSimpleStackNearAlloc, near a piece.                                  *)
StackNearAlloc(t, x, n) ==
  /\ Call(t, "near")
  /\ x \in owned /\ n \in use.sizes
  /\ FindHeader(x.at) # NoPage
  /\ hdr[FindHeader(x.at)].kind = "stack"
  /\ Push(t, FindHeader(x.at), n)

(* SASSimpleStackDealloc: a piece goes with all that were taken after it.  *)
StackDealloc(t, p, x) ==
  /\ Call(t, "stack")
  /\ p \in live /\ hdr[p].kind = "stack"
  /\ x \in PiecesIn(p)
  /\ CanLock(p, t)
  /\ hdr' = [hdr EXCEPT ![p].next = x.at]
  /\ owned' = {y \in owned : y \notin PiecesIn(p) \/ y.at < x.at}
  /\ UNCHANGED <<blocks, lock, live>>

SOps(t) ==
  \/ \E kind \in {"heap", "stack", "space"}, n \in use.pages : Create(t, kind, n)
  \/ \E p \in live :
       \/ DestroySimple(t, p)
       \/ \E n \in use.sizes : HeapAlloc(t, p, n) \/ StackAlloc(t, p, n)
       \/ \E x \in PiecesIn(p), n \in use.sizes : HeapFree(t, p, x, n)
       \/ \E x \in PiecesIn(p) : StackDealloc(t, p, x)
  \/ \E x \in owned, n \in use.sizes :
       NearAlloc(t, x, n) \/ NearDealloc(t, x, n) \/ StackNearAlloc(t, x, n)

-----------------------------------------------------------------------------
(* Properties.                                                             *)

(* Pieces cover an interval of addresses, each address once.               *)
Partition(pieces, from, to) ==
  /\ UNION {Covers(x) : x \in pieces} = from .. to - 1
  /\ \A x, y \in pieces : x # y => Covers(x) \cap Covers(y) = {}

PiecesOf(list) == {list[i] : i \in DOMAIN list}

(* The free list of a simple heap and what the programs have of it make up *)
(* the heap, and free neighbours are joined; a stack is used up to next.   *)
SimpleHeapsInv ==
  /\ \A p \in live :
       /\ hdr[p].kind = "heap" =>
            /\ IsFreeList(hdr[p].list)
            /\ Partition(PiecesOf(hdr[p].list) \cup PiecesIn(p), HeapStart(p), HeapEnd(p))
            /\ HeapEmpty(p) <=> PiecesIn(p) = {}
       /\ hdr[p].kind = "stack" => Partition(PiecesIn(p), HeapStart(p), hdr[p].next)
  /\ \A x \in owned : \E p \in live : x \in PiecesIn(p)
=============================================================================

------------------------- MODULE CompoundHeapProofs -------------------------
(***************************************************************************)
(* Proofs about the heaps, for any threads, sizes and uses.                *)
(*                                                                         *)
(* What a step leaves of the layout (MemInv, MemoryProofs): pages of heaps *)
(* and the calls that take and free them; those on pieces, and those that  *)
(* make and destroy heaps, are in MemoryProofs.  Then the blocks in the    *)
(* hands of calls that expand a heap (BlocksInv), and the locks, which     *)
(* only calls that agree with the layout take and give back                *)
(* (CallLocksInv).  Then the theorems.                                     *)
(***************************************************************************)
EXTENDS MemoryProofs

-----------------------------------------------------------------------------
(* Pages of compound heaps.  A step touches one part, and what is its own. *)
PartsKept(h, lv, h2, p) == \A c, k : IsPart(h, lv, c, k) /\ k # p => h2[k] = h[k]

(* The header of a page that was given out.                                *)
LEMMA FreshPage ==
  ASSUME hdr \in [Page -> HeaderType], NEW q \in Page, NEW r \in Page, NEW kind \in {"heap", "queue"},
         NEW v, v = PageHeader(kind, q, r)
  PROVE  IsNewPage(v, q, r) /\ v.expand \in {hdr[q].expand, <<>>}
<1>0. 1 \in 1..NumPages /\ 1 \in 0..NumPages /\ r \in 0..NumPages /\ NoPage \in 0..NumPages
  BY PageIs
<1>1. CASE kind = "heap"
  <2>1. PICK w : w = SimpleHeap(q, 1)
    OBVIOUS
  <2>2. /\ w \in HeaderType /\ w.kind = "heap" /\ w.size = 1
        /\ w.list = <<Piece(Address(q) + HeapOffset, 1 * PageSize - HeapOffset)>> /\ w.expand = hdr[q].expand
    BY ONLY <1>0, <2>1, FreshHeap, hdr \in [Page -> HeaderType], q \in Page
  <2>3. v = [w EXCEPT !.base = r]
    BY <1>1, <2>1 DEF PageHeader
  <2>4. /\ v \in HeaderType /\ v.kind = w.kind /\ v.size = w.size /\ v.list = w.list /\ v.expand = w.expand /\ v.base = r
    BY ONLY <1>0, <2>2, <2>3 DEF HeaderType
  <2> QED BY <2>2, <2>4 DEF IsNewPage
<1>2. CASE kind = "queue"
  <2>1. PICK w : w = Header("queue", 1, <<>>)
    OBVIOUS
  <2>2. <<>> \in Seq(Pieces) /\ <<>> \in Seq(Page)
    OBVIOUS
  <2>3. w \in HeaderType /\ w.kind = "queue" /\ w.size = 1 /\ w.expand = <<>>
    BY ONLY <1>0, <2>1, <2>2 DEF Header, HeaderType, Kind
  <2>4. v = [w EXCEPT !.base = r]
    BY <1>2, <2>1 DEF PageHeader
  <2>5. /\ v \in HeaderType /\ v.kind = w.kind /\ v.size = w.size /\ v.expand = w.expand /\ v.base = r
    BY ONLY <1>0, <2>3, <2>4 DEF HeaderType
  <2> QED BY <2>3, <2>5 DEF IsNewPage
<1> QED BY <1>1, <1>2

(* What is given out anew is no block. *)
PagesNew(b) == \A k \in live' : k \in live \/ b[k] = 0

(* compoundHeapAllocInternal, in any memory: a page of a part.             *)
LEMMA PageMade ==
  ASSUME hdr \in [Page -> HeaderType], NEW h, NEW b, NEW fr, MemGood(h, b, live, owned, fr),
         NEW c, NEW p, IsPart(h, live, c, p), NEW kind \in {"heap", "queue"}, AllocInternal(h, p, kind)
  PROVE  /\ MemGood(hdr', b, live', owned, fr) /\ Grown(h, live, fr, hdr', live') /\ PartsKept(h, live, hdr', p)
         /\ \A d, k : IsPart(hdr', live', d, k) <=> IsPart(h, live, d, k)
         /\ Compounds(hdr', live') = Compounds(h, live)
         /\ hdr' \in [Page -> HeaderType]
         /\ \A k \in Page : hdr'[k].expand \in {h[k].expand, hdr[k].expand, <<>>}
         /\ \A d, k : IsPart(h, live, d, k) => hdr'[k].expand = h[k].expand /\ hdr'[k].size = h[k].size
         /\ live' = live => FirstFit(h[p].list, PageSize) = 0
         /\ PagesNew(b)
<1>0. /\ h \in [Page -> HeaderType] /\ live \in SUBSET Page /\ fr \in SUBSET Page
      /\ p \in Page /\ GoodList(h[p].list)
  BY MemTyped, PartFacts, PagesOfPart
<1>1. PICK i : i = FirstFit(h[p].list, PageSize)
  OBVIOUS
<1>2. CASE i = 0
  <2>1. hdr' = h /\ live' = live
    BY <1>1, <1>2 DEF AllocInternal
  <2>2. Grown(h, live, fr, hdr', live')
    <3>1. \A k \in Page : hdr'[k].kind = h[k].kind /\ hdr'[k].base = h[k].base /\ hdr'[k].expand = h[k].expand
      BY <2>1
    <3>2. live \subseteq live'
      BY <2>1
    <3> QED BY ONLY <3>1, <3>2, SameLinks, MemGood(h, b, live, owned, fr)
  <2> QED BY <1>0, <1>1, <1>2, <2>1, <2>2 DEF PartsKept, PagesNew
<1>3. CASE i # 0
  <2>1. PICK j \in 1..Len(h[p].list) : j = i
    BY <1>0, <1>1, <1>3, FirstFitGives
  <2>2. PICK q : q = PageOf(h[p].list[j].at)
    OBVIOUS
  <2>3. PICK v : v = PageHeader(kind, q, p)
    OBVIOUS
  <2>4. hdr' = [h EXCEPT ![p].list = AllocNode(@, j, PageSize), ![q] = v] /\ live' = live \cup {q}
    <3>1. j = FirstFit(h[p].list, PageSize) /\ j # 0 /\ q = PageGiven(h, p)
      BY <1>1, <1>3, <2>1, <2>2 DEF PageGiven
    <3> QED BY ONLY <3>1, <2>3, AllocInternal(h, p, kind) DEF AllocInternal
  <2>5. q \in Page
    <3>1. PICK w : w = [h EXCEPT ![p].list = h[p].list]
      OBVIOUS
    <3>2. /\ Split(h[p].list, PagePieces(GivenIn(h, b, live, fr, p)), Address(p + 1), Address(p + h[p].size))
          /\ GivenIn(h, b, live, fr, p) \in SUBSET Nat /\ p + 1 \in Nat /\ p + h[p].size \in Nat /\ p + h[p].size <= NumPages
      BY PagesOfPart
    <3>3. PageOf(h[p].list[j].at) \in Nat /\ PageOf(h[p].list[j].at) < p + h[p].size
      BY ONLY <3>2, <2>1, <1>0, SplitAligned
    <3> QED BY <3>2, <3>3, <2>2, PageIs
  <2>6. IsNewPage(v, q, p) /\ v.expand \in {hdr[q].expand, <<>>}
    BY <1>0, <2>3, <2>5, FreshPage
  <2>7. PICK h2 : h2 = [h EXCEPT ![p].list = AllocNode(@, j, PageSize), ![q] = v]
    OBVIOUS
  <2>7a. GivesPage(h, h2, p, j, q, v)
    BY <2>7 DEF GivesPage
  <2>8. /\ q \in Page /\ Inside(h, p, q) /\ q # p /\ q \notin live /\ q \notin fr
        /\ h2 \in [Page -> HeaderType] /\ MemGood(h2, b, live \cup {q}, owned, fr)
        /\ Compounds(h2, live \cup {q}) = Compounds(h, live)
        /\ \A d, k : IsPart(h2, live \cup {q}, d, k) <=> IsPart(h, live, d, k)
        /\ \A k \in Page : k # q => h2[k] = [h[k] EXCEPT !.list = h2[k].list]
    <3>1. PageWent(h, b, live, owned, fr, p, q, h2)
      BY ONLY <2>1, <2>2, <2>6, <2>7a, PageOut, MemGood(h, b, live, owned, fr), IsPart(h, live, c, p)
    <3> QED BY ONLY <3>1 DEF PageWent
  <2>9. h2 = hdr'
    BY <2>4, <2>7
  <2>10. h2[q] = v /\ \A k \in Page : k # p /\ k # q => h2[k] = h[k]
    BY <1>0, <2>7, <2>8
  <2>11. \A k \in Page : k # q => h2[k].kind = h[k].kind /\ h2[k].base = h[k].base /\ h2[k].expand = h[k].expand /\ h2[k].size = h[k].size
    <3>1. ASSUME NEW k \in Page, k # q
          PROVE h2[k].kind = h[k].kind /\ h2[k].base = h[k].base /\ h2[k].expand = h[k].expand /\ h2[k].size = h[k].size
      <4>1. h[k] \in HeaderType /\ h2[k] = [h[k] EXCEPT !.list = h2[k].list]
        BY <1>0, <2>8, <3>1
      <4> QED BY ONLY <4>1 DEF HeaderType
    <3> QED BY <3>1
  <2>12. \A d, k : IsPart(h, live, d, k) => k # q /\ k \in Page
    BY <2>8, InsideFacts, PartFacts
  <2>13. Grown(h, live, fr, h2, live \cup {q})
    <3>1. ASSUME NEW d \in Compounds(h, live) PROVE HeapKept(h, live, h2, live \cup {q}, d)
      <4>1. d \in live /\ d \in Page /\ d # q
        BY <1>0, <2>8 DEF Compounds
      <4> QED BY <4>1, <1>0, <2>11, KeptWhenSame
    <3>2. ASSUME NEW k \in fr PROVE HeapOf(h2, k) = HeapOf(h, k)
      <4>1. k \in Given(h, b, live, fr) /\ k \in Page /\ k # q
        BY <1>0, <2>8 DEF Given
      <4>2. IsPart(h, live, h[h[k].base].base, h[k].base)
        BY <4>1, GivenFacts
      <4>3. h[k].base # q /\ h[k].base \in Page
        BY <4>2, <2>12
      <4> QED BY <4>1, <4>3, <2>11 DEF HeapOf
    <3> QED BY <3>1, <3>2 DEF Grown
  <2>14. PartsKept(h, live, h2, p)
    BY <2>10, <2>12 DEF PartsKept
  <2>15. \A k \in Page : h2[k].expand \in {h[k].expand, hdr[k].expand, <<>>}
    BY <2>6, <2>10, <2>11
  <2>16. live' # live
    BY <2>4, <2>8
  <2>17. PagesNew(b)
    <3>1. b[q] = 0
      BY ONLY <2>8, InsideFacts, MemGood(h, b, live, owned, fr), IsPart(h, live, c, p)
    <3> QED BY <3>1, <2>4 DEF PagesNew
  <2> QED BY ONLY <2>4, <2>8, <2>9, <2>11, <2>12, <2>13, <2>14, <2>15, <2>16, <2>17
<1> QED BY <1>2, <1>3

(* What a call does to the memory on account of part p. *)
Effect(h, b, lv, ow, fr, h2, b2, lv2, p) ==
  /\ h2 \in [Page -> HeaderType] /\ MemGood(h2, b2, lv2, ow, fr)
  /\ Grown(h, lv, fr, h2, lv2) /\ PartsKept(h, lv, h2, p)

(* Parts stay parts where heaps only grow.                                 *)
LEMMA GrownParts ==
  ASSUME NEW h, NEW lv, NEW fr, NEW h2, NEW lv2, Grown(h, lv, fr, h2, lv2), NEW c, NEW k, IsPart(h, lv, c, k)
  PROVE  IsPart(h2, lv2, c, k)
BY DEF Grown, HeapKept, IsPart

(* Two effects on one heap, one after the other.                           *)
LEMMA EffectTwice ==
  ASSUME NEW h, NEW b, NEW lv, NEW ow, NEW fr, NEW h2, NEW b2, NEW lv2, NEW h3, NEW b3, NEW lv3, NEW p,
         MemGood(h, b, lv, ow, fr),
         Effect(h, b, lv, ow, fr, h2, b2, lv2, p), Effect(h2, b2, lv2, ow, fr, h3, b3, lv3, p)
  PROVE  Effect(h, b, lv, ow, fr, h3, b3, lv3, p)
<1>1. h \in [Page -> HeaderType] /\ lv \in SUBSET Page
  BY MemTyped
<1>2. /\ h2 \in [Page -> HeaderType] /\ h3 \in [Page -> HeaderType]
      /\ Grown(h, lv, fr, h2, lv2) /\ Grown(h2, lv2, fr, h3, lv3)
      /\ PartsKept(h, lv, h2, p) /\ PartsKept(h2, lv2, h3, p) /\ MemGood(h3, b3, lv3, ow, fr)
  BY DEF Effect
<1>3. Grown(h, lv, fr, h3, lv3)
  BY ONLY <1>1, <1>2, GrownTwice
<1>4. PartsKept(h, lv, h3, p)
  <2>1. ASSUME NEW c, NEW k, IsPart(h, lv, c, k), k # p PROVE h3[k] = h[k]
    <3>1. h2[k] = h[k]
      BY <1>2, <2>1 DEF PartsKept
    <3>2. IsPart(h2, lv2, c, k)
      BY <1>2, <2>1, GrownParts
    <3> QED BY <1>2, <2>1, <3>1, <3>2 DEF PartsKept
  <2> QED BY <2>1 DEF PartsKept
<1> QED BY <1>2, <1>3, <1>4 DEF Effect

(* A page of a part. *)
LEMMA PageEffect ==
  ASSUME hdr \in [Page -> HeaderType], NEW h, NEW b, NEW fr, MemGood(h, b, live, owned, fr),
         NEW c, NEW p, IsPart(h, live, c, p), NEW kind \in {"heap", "queue"}, AllocInternal(h, p, kind)
  PROVE  Effect(h, b, live, owned, fr, hdr', b, live', p)
BY PageMade DEF Effect

(* A block is taken. *)
BlockUse(h, b, p, n, v, h2, b2) ==
  FreeAt(b, p, n) /\ v \in HeaderType /\ h2 = [h EXCEPT ![p] = v] /\ b2 = [b EXCEPT ![p] = n]

(* A block is taken for a heap, and gets a header.                         *)
LEMMA BlockEffect ==
  ASSUME NEW h, NEW b, NEW lv, NEW ow, NEW fr, MemGood(h, b, lv, ow, fr),
         NEW p, NEW n, NEW v, NEW c, NEW h2, NEW b2, BlockUse(h, b, p, n, v, h2, b2)
  PROVE  /\ Effect(h, b, lv, ow, fr, h2, b2, lv, c) /\ Unused(h2, b2, lv, ow, fr, p, n)
         /\ p \in Page /\ p \notin lv /\ h2[p] = v /\ \A k \in Page : k # p => h2[k] = h[k]
         /\ b2 \in [Page -> 0..NumPages] /\ b2[p] = n /\ \A k \in Page : k # p => b2[k] = b[k]
<1>00. FreeAt(b, p, n) /\ v \in HeaderType /\ h2 = [h EXCEPT ![p] = v] /\ b2 = [b EXCEPT ![p] = n]
  BY DEF BlockUse
<1>0a. FreeAt(b, p, n)
  BY <1>00
<1>0. h \in [Page -> HeaderType] /\ b \in [Page -> 0..NumPages] /\ p \in Page /\ n \in 0..NumPages
  <2>1. p \in Page /\ n \in Nat /\ p + n <= NumPages /\ p \in Nat
    BY <1>00, PageIs DEF FreeAt
  <2> QED BY <2>1, MemTyped, PageIs
<1>1. h2 \in [Page -> HeaderType] /\ h2[p] = v /\ \A k \in Page : k # p => h2[k] = h[k]
  BY <1>0, <1>00
<1>2. b2 \in [Page -> 0..NumPages] /\ b2[p] = n /\ \A k \in Page : k # p => b2[k] = b[k]
  BY <1>0, <1>00
<1>3. MemGood(h2, b2, lv, ow, fr) /\ Unused(h2, b2, lv, ow, fr, p, n)
  BY ONLY <1>0a, <1>1, <1>2, BlockMade, MemGood(h, b, lv, ow, fr)
<1>4. Grown(h, lv, fr, h2, lv)
  BY ONLY <1>0a, <1>1, BlockGrown, MemGood(h, b, lv, ow, fr)
<1>5. PartsKept(h, lv, h2, c)
  <2>1. ASSUME NEW d, NEW k, IsPart(h, lv, d, k) PROVE h2[k] = h[k]
    <3>1. IsPart(h2, lv, d, k) /\ k \in Page
      BY <1>4, <2>1, GrownParts, PartFacts
    <3>2. k # p
      BY <1>3, <3>1 DEF Unused
    <3> QED BY <1>1, <3>1, <3>2
  <2> QED BY <2>1 DEF PartsKept
<1>6. p \notin lv
  BY <1>3 DEF Unused
<1> QED BY <1>0, <1>1, <1>2, <1>3, <1>4, <1>5, <1>6 DEF Effect

(* The list of the parts changes, or where it is. *)
LEMMA LinkEffect ==
  ASSUME NEW h, NEW b, NEW lv, NEW ow, NEW fr, MemGood(h, b, lv, ow, fr),
         NEW c, c \in Compounds(h, lv), h[c].expand # <<>>,
         NEW h2 \in [Page -> HeaderType], \A k \in Page : k # c => h2[k] = h[k],
         h2[c].kind = h[c].kind, h2[c].base = h[c].base,
         h2[c].expand = h[c].expand \/ \E q \in Page : h2[c].expand = Append(h[c].expand, q),
         \A r : IsPart(h, lv, c, r) => IsPart(h2, lv, c, r),
         MemGood(h2, b, lv, ow, fr)
  PROVE  Effect(h, b, lv, ow, fr, h2, b, lv, c)
<1>0. h \in [Page -> HeaderType] /\ lv \in SUBSET Page /\ c \in Page /\ c \in lv
  BY MemTyped DEF Compounds
<1>1. /\ h[c].expand \in Seq(Page) /\ h2[c].expand \in Seq(Page)
      /\ Len(h[c].expand) \in Nat /\ Len(h2[c].expand) \in Nat
      /\ Len(h[c].expand) <= Len(h2[c].expand) /\ h2[c].expand # <<>>
  <2>1. h[c].expand \in Seq(Page) /\ h2[c].expand \in Seq(Page)
    BY <1>0, HeaderIs
  <2>2. CASE h2[c].expand = h[c].expand
    BY <2>1, <2>2
  <2>3. ASSUME NEW q \in Page, h2[c].expand = Append(h[c].expand, q)
        PROVE  Len(h[c].expand) \in Nat /\ Len(h2[c].expand) \in Nat /\ Len(h[c].expand) <= Len(h2[c].expand) /\ h2[c].expand # <<>>
    <3>1. PICK s \in Seq(Page) : s = h[c].expand
      BY <2>1
    <3>2. Len(Append(s, q)) = Len(s) + 1 /\ Len(s) \in Nat /\ Append(s, q) # <<>>
      OBVIOUS
    <3> QED BY <2>3, <3>1, <3>2
  <2> QED BY <2>1, <2>2, <2>3
<1>2. HeapKept(h, lv, h2, lv, c)
  <2>1. Parts(h, c) = h[c].expand /\ Parts(h2, c) = h2[c].expand
    BY <1>1 DEF Parts
  <2>2. \A i \in DOMAIN Parts(h, c) : i \in DOMAIN Parts(h2, c)
    BY <1>1, <2>1
  <2>3. c \in Compounds(h2, lv)
    BY DEF Compounds
  <2> QED BY <1>1, <2>2, <2>3 DEF HeapKept
<1>3. ASSUME NEW d \in Compounds(h, lv) PROVE HeapKept(h, lv, h2, lv, d)
  <2>1. CASE d = c
    BY <1>2, <2>1
  <2>2. CASE d # c
    <3>1. d \in Page /\ d \in lv /\ h2[d] = h[d]
      BY <1>0, <2>2 DEF Compounds
    <3> QED BY <3>1, <1>0, KeptWhenSame
  <2> QED BY <2>1, <2>2
<1>4. ASSUME NEW q \in fr PROVE HeapOf(h2, q) = HeapOf(h, q)
  <2>1. q \in Given(h, b, lv, fr)
    BY DEF Given
  <2>2. q \in Page /\ h[q].base \in Page
    BY <2>1, GivenFacts
  <2>3. \A k \in Page : h2[k].base = h[k].base
    OBVIOUS
  <2> QED BY <2>2, <2>3 DEF HeapOf
<1>5. PartsKept(h, lv, h2, c)
  BY PartFacts DEF PartsKept
<1> QED BY <1>3, <1>4, <1>5 DEF Effect, Grown

(* The header of a further part.                                           *)
LEMMA FreshFurther ==
  ASSUME hdr \in [Page -> HeaderType], NEW q \in Page, NEW n \in 1..NumPages, n > 1, NEW c \in Page, NEW v, v = FurtherPart(q, n, c)
  PROVE  /\ v \in HeaderType /\ v.kind = "compound" /\ v.size = n /\ v.base = c /\ v.expand = <<>>
         /\ GoodList(v.list) /\ Split(v.list, {}, Address(q) + PageSize, Address(q) + n * PageSize) /\ v.list # <<>>
<1>1. PICK w : w = CompoundBlock(q, n)
  OBVIOUS
<1>2. /\ w \in HeaderType /\ w.kind = "compound" /\ w.size = n /\ w.list # <<>>
      /\ GoodList(w.list) /\ Split(w.list, {}, Address(q) + PageSize, Address(q) + n * PageSize)
  BY ONLY <1>1, FreshCompound, hdr \in [Page -> HeaderType], q \in Page, n \in 1..NumPages, n > 1
<1>3. v = [w EXCEPT !.expand = <<>>, !.base = c]
  BY ONLY <1>1, v = FurtherPart(q, n, c) DEF FurtherPart
<1>4. c \in 0..NumPages /\ <<>> \in Seq(Page)
  BY PageIs
<1>5. /\ v \in HeaderType /\ v.kind = w.kind /\ v.size = w.size /\ v.list = w.list /\ v.expand = <<>> /\ v.base = c
  BY ONLY <1>2, <1>3, <1>4 DEF HeaderType
<1> QED BY <1>2, <1>5

(* A part has room for a page as long as its list is not empty.            *)
LEMMA PageFits ==
  ASSUME NEW h, NEW b, NEW lv, NEW ow, NEW fr, MemGood(h, b, lv, ow, fr), NEW c, NEW p, IsPart(h, lv, c, p)
  PROVE  FirstFit(h[p].list, PageSize) = 0 <=> h[p].list = <<>>
<1>1. PICK Q : Q = GivenIn(h, b, lv, fr, p)
  OBVIOUS
<1>2. PICK m \in Nat : m = p + h[p].size
  BY PagesOfPart
<1>3. PICK r \in Nat : r = p + 1
  BY PagesOfPart
<1>4. GoodList(h[p].list) /\ Q \in SUBSET Nat /\ Split(h[p].list, PagePieces(Q), Address(r), Address(m))
  BY <1>1, <1>2, <1>3, PagesOfPart
<1>5. \A i \in 1..Len(h[p].list) : LongEnough(h[p].list[i], PageSize)
  BY ONLY <1>4, r \in Nat, m \in Nat, SplitAligned
<1>6. PICK i : i = FirstFit(h[p].list, PageSize)
  OBVIOUS
<1>7. Len(h[p].list) \in Nat /\ (h[p].list = <<>> <=> Len(h[p].list) = 0)
  BY <1>4, ListFacts
<1> QED BY <1>4, <1>5, <1>6, <1>7, FirstFitGives

(* The list of the parts moves to a space. *)
SpaceTaken(h, b, c, n, s, h2, b2) ==
  /\ n = h[c].size /\ FreeAt(b, s, n) /\ b2 = [b EXCEPT ![s] = n]
  /\ h2 = [h EXCEPT ![s] = SimpleSpace(n), ![c].space = s, ![c].max = SpaceMax]

(* The list of the parts moves: a block is taken and linked.               *)
LEMMA SpaceEffect ==
  ASSUME NEW h, NEW b, NEW lv, NEW ow, NEW fr, MemGood(h, b, lv, ow, fr),
         NEW c, c \in Compounds(h, lv), h[c].expand # <<>>, NEW n,
         NEW s, NEW b2, NEW h2, SpaceTaken(h, b, c, n, s, h2, b2)
  PROVE  /\ Effect(h, b, lv, ow, fr, h2, b2, lv, c)
         /\ c \in Compounds(h2, lv) /\ h2[c].expand = h[c].expand /\ h2[c].size = n
         /\ b2[s] = n /\ \A k \in Page : k # s => b2[k] = b[k]
<1>00. /\ n = h[c].size /\ FreeAt(b, s, n) /\ b2 = [b EXCEPT ![s] = n]
       /\ h2 = [h EXCEPT ![s] = SimpleSpace(n), ![c].space = s, ![c].max = SpaceMax]
  BY DEF SpaceTaken
<1>0. /\ h \in [Page -> HeaderType] /\ c \in Page /\ c \in lv /\ s \in Page
      /\ n > 1 /\ n \in 1..NumPages /\ h[c] \in HeaderType
  <2>1. h \in [Page -> HeaderType] /\ c \in Page /\ c \in lv /\ h[c].kind = "compound"
    BY MemTyped DEF Compounds
  <2>2. IsPart(h, lv, c, c)
    BY <2>1, FirstIsPart
  <2>3. n > 1 /\ n \in Nat
    BY <1>00, <2>2, PartFacts
  <2>4. n <= NumPages /\ h[c] \in HeaderType
    BY <1>00, <2>1, HeaderIs
  <2>5. s \in Page
    BY <1>00 DEF FreeAt
  <2> QED BY <2>1, <2>2, <2>3, <2>4, <2>5, PageIs
<1>1. PICK v : v = SimpleSpace(n)
  OBVIOUS
<1>2. v \in HeaderType /\ v.kind = "space"
  BY ONLY <1>0, <1>1, FreshOther
<1>3. PICK h1 : h1 = [h EXCEPT ![s] = v]
  OBVIOUS
<1>4. Effect(h, b, lv, ow, fr, h1, b2, lv, c) /\ Unused(h1, b2, lv, ow, fr, s, n)
  <2>1. BlockUse(h, b, s, n, v, h1, b2)
    BY ONLY <1>00, <1>2, <1>3 DEF BlockUse
  <2> QED BY ONLY <2>1, BlockEffect, MemGood(h, b, lv, ow, fr)
<1>5. s \notin lv /\ h1[s] = v /\ \A k \in Page : k # s => h1[k] = h[k]
  <2>1. s \notin lv
    BY <1>4 DEF Unused
  <2>2. h1[s] = v /\ \A k \in Page : k # s => h1[k] = h[k]
    BY ONLY <1>0, <1>3
  <2> QED BY <2>1, <2>2
<1>6. c # s /\ h1[c] = h[c] /\ h1 \in [Page -> HeaderType] /\ MemGood(h1, b2, lv, ow, fr)
  BY <1>0, <1>4, <1>5 DEF Effect
<1>7. PICK w : w = [h[c] EXCEPT !.space = s, !.max = SpaceMax]
  OBVIOUS
<1>8. w \in HeaderType /\ w.kind = h[c].kind /\ w.base = h[c].base /\ w.expand = h[c].expand /\ w.size = h[c].size
  <2>1. s \in 0..NumPages /\ SpaceMax \in Nat
    BY <1>0, PageIs, CompoundAssumption
  <2> QED BY ONLY <1>0, <1>7, <2>1 DEF HeaderType
<1>9. h2 = [h1 EXCEPT ![c] = w]
  BY ONLY <1>00, <1>0, <1>1, <1>3, <1>6, <1>7
<1>10. h2 \in [Page -> HeaderType] /\ h2[c] = w /\ \A k \in Page : k # c => h2[k] = h1[k]
  BY <1>0, <1>6, <1>8, <1>9
<1>11. c \in Compounds(h1, lv) /\ h1[c].expand # <<>>
  BY <1>0, <1>6 DEF Compounds
<1>12. /\ MemGood(h2, b2, lv, ow, fr) /\ c \in Compounds(h2, lv)
       /\ \A r : IsPart(h1, lv, c, r) => IsPart(h2, lv, c, r)
  <2>1. h1[s].kind = "space"
    BY <1>2, <1>5
  <2>2. h2[c] = [h1[c] EXCEPT !.space = s, !.max = SpaceMax]
    BY <1>6, <1>7, <1>10
  <2>3. PICK k : k = n
    OBVIOUS
  <2>4. Unused(h1, b2, lv, ow, fr, s, k)
    BY <1>4, <2>3
  <2>4a. SpaceLink(h1, b2, lv, ow, fr, c, s, k, h2)
    BY ONLY <2>1, <2>2, <2>4 DEF SpaceLink
  <2>5. /\ MemGood(h2, b2, lv, ow, fr) /\ Given(h2, b2, lv, fr) = Given(h1, b2, lv, fr)
        /\ c \in Compounds(h2, lv) /\ h2[c].expand = h1[c].expand
        /\ \A r : IsPart(h1, lv, c, r) => IsPart(h2, lv, c, r)
    BY ONLY <1>6, <1>10, <1>11, <2>4a, SpaceLinked
  <2> QED BY ONLY <2>5
<1>13. Effect(h1, b2, lv, ow, fr, h2, b2, lv, c)
  <2>1. h2[c].kind = h1[c].kind /\ h2[c].base = h1[c].base /\ h2[c].expand = h1[c].expand
    BY <1>6, <1>8, <1>10
  <2> QED BY ONLY <1>6, <1>10, <1>11, <1>12, <2>1, LinkEffect
<1>14. Effect(h, b, lv, ow, fr, h2, b2, lv, c)
  BY ONLY <1>4, <1>13, EffectTwice, MemGood(h, b, lv, ow, fr)
<1>15. b2[s] = n /\ \A k \in Page : k # s => b2[k] = b[k]
  <2>1. b \in [Page -> 0..NumPages]
    BY MemTyped
  <2> QED BY <1>00, <1>0, <2>1
<1> QED BY <1>00, <1>8, <1>10, <1>12, <1>14, <1>15

(* A heap that expands gets a part, and the part gives a page. *)
PartTaken(h, b, c, n, q, h3, b2) ==
  /\ n = h[c].size /\ FreeAt(b, q, n) /\ b2 = [b EXCEPT ![q] = n]
  /\ h3 = [h EXCEPT ![q] = FurtherPart(q, n, c), ![c].expand = Append(@, q)]

(* A further part, and a page out of it.                                   *)
LEMMA AddPart ==
  ASSUME hdr \in [Page -> HeaderType], NEW h, NEW b, NEW fr, MemGood(h, b, live, owned, fr),
         NEW c, c \in Compounds(h, live), h[c].expand # <<>>, NEW n,
         NEW q, NEW b2, NEW h3, PartTaken(h, b, c, n, q, h3, b2),
         NEW kind \in {"heap", "queue"}, AllocInternal(h3, q, kind)
  PROVE  Effect(h, b, live, owned, fr, hdr', b2, live', c) /\ live' # live /\ PagesNew(b2)
<1>00. /\ n = h[c].size /\ FreeAt(b, q, n) /\ b2 = [b EXCEPT ![q] = n]
       /\ h3 = [h EXCEPT ![q] = FurtherPart(q, n, c), ![c].expand = Append(@, q)]
  BY DEF PartTaken
<1>0. /\ h \in [Page -> HeaderType] /\ c \in Page /\ c \in live /\ q \in Page
      /\ IsPart(h, live, c, c) /\ n > 1 /\ n \in 1..NumPages /\ h[c] \in HeaderType
  <2>1. h \in [Page -> HeaderType] /\ c \in Page /\ c \in live /\ h[c].kind = "compound"
    BY MemTyped DEF Compounds
  <2>2. IsPart(h, live, c, c)
    BY <2>1, FirstIsPart
  <2>3. n > 1 /\ n \in Nat
    BY <1>00, <2>2, PartFacts
  <2>4. n <= NumPages /\ h[c] \in HeaderType
    BY <1>00, <2>1, HeaderIs
  <2>5. q \in Page
    BY <1>00 DEF FreeAt
  <2> QED BY <2>1, <2>2, <2>3, <2>4, <2>5, PageIs
<1>1. PICK v : v = FurtherPart(q, n, c)
  OBVIOUS
<1>2. /\ v \in HeaderType /\ v.kind = "compound" /\ v.size = n /\ v.base = c /\ v.expand = <<>>
      /\ GoodList(v.list) /\ Split(v.list, {}, Address(q) + PageSize, Address(q) + n * PageSize) /\ v.list # <<>>
  BY ONLY <1>0, <1>1, FreshFurther, hdr \in [Page -> HeaderType]
<1>3. PICK h1 : h1 = [h EXCEPT ![q] = v]
  OBVIOUS
<1>4. /\ Effect(h, b, live, owned, fr, h1, b2, live, c) /\ Unused(h1, b2, live, owned, fr, q, n)
      /\ q \notin live /\ h1[q] = v /\ \A k \in Page : k # q => h1[k] = h[k]
  <2>1. v \in HeaderType
    BY <1>2
  <2>2. Effect(h, b, live, owned, fr, h1, b2, live, c) /\ Unused(h1, b2, live, owned, fr, q, n)
    <3>1. BlockUse(h, b, q, n, v, h1, b2)
      BY ONLY <1>00, <1>3, <2>1 DEF BlockUse
    <3> QED BY ONLY <3>1, BlockEffect, MemGood(h, b, live, owned, fr)
  <2>3. q \notin live
    BY <2>2 DEF Unused
  <2>4. h1[q] = v /\ \A k \in Page : k # q => h1[k] = h[k]
    BY ONLY <1>0, <1>3
  <2> QED BY ONLY <2>2, <2>3, <2>4
<1>5. c # q /\ h1[c] = h[c] /\ h1 \in [Page -> HeaderType] /\ MemGood(h1, b2, live, owned, fr)
  BY <1>0, <1>4 DEF Effect
<1>6. PICK w : w = [h[c] EXCEPT !.expand = Append(h[c].expand, q)]
  OBVIOUS
<1>7. w \in HeaderType /\ w.kind = h[c].kind /\ w.base = h[c].base /\ w.expand = Append(h[c].expand, q)
  <2>1. PICK s \in Seq(Page) : s = h[c].expand
    BY <1>0, HeaderIs
  <2>2. Append(s, q) \in Seq(Page)
    BY <1>0
  <2> QED BY ONLY <1>0, <1>6, <2>1, <2>2 DEF HeaderType
<1>8. h3 = [h1 EXCEPT ![c] = w]
  BY ONLY <1>00, <1>0, <1>1, <1>3, <1>5, <1>6
<1>9. h3 \in [Page -> HeaderType] /\ h3[c] = w /\ \A k \in Page : k # c => h3[k] = h1[k]
  BY <1>0, <1>5, <1>7, <1>8
<1>10. c \in Compounds(h1, live) /\ h1[c].expand # <<>> /\ h1[c].size = n
  BY <1>00, <1>0, <1>5 DEF Compounds
<1>11. Split(h1[q].list, {}, Address(q) + PageSize, EndOf(h1, q))
  BY <1>2, <1>4 DEF EndOf
<1>12. /\ MemGood(h3, b2, live, owned, fr) /\ IsPart(h3, live, c, q)
       /\ \A r : IsPart(h1, live, c, r) => IsPart(h3, live, c, r)
  <2>1. Unused(h1, b2, live, owned, fr, q, h1[c].size)
    BY <1>4, <1>10
  <2>2. h1[q].kind = "compound" /\ h1[q].base = c /\ h1[q].size = h1[c].size /\ h1[q].expand = <<>> /\ GoodList(h1[q].list)
    BY <1>2, <1>4, <1>10
  <2>3. h3[c] = [h1[c] EXCEPT !.expand = Append(h1[c].expand, q)]
    BY <1>5, <1>6, <1>9
  <2> QED BY ONLY <1>5, <1>9, <1>10, <1>11, <2>1, <2>2, <2>3, PartLinked
<1>13. Effect(h1, b2, live, owned, fr, h3, b2, live, c)
  <2>1. h3[c].kind = h1[c].kind /\ h3[c].base = h1[c].base
        /\ (h3[c].expand = h1[c].expand \/ \E r \in Page : h3[c].expand = Append(h1[c].expand, r))
    BY <1>0, <1>5, <1>7, <1>9
  <2> QED BY ONLY <1>5, <1>9, <1>10, <1>12, <2>1, LinkEffect
<1>14. /\ MemGood(hdr', b2, live', owned, fr) /\ Grown(h3, live, fr, hdr', live') /\ PartsKept(h3, live, hdr', q)
       /\ hdr' \in [Page -> HeaderType] /\ PagesNew(b2)
  BY <1>12, PageMade
<1>15. PartsKept(h1, live, hdr', c)
  <2>1. ASSUME NEW d, NEW k, IsPart(h1, live, d, k), k # c PROVE hdr'[k] = h1[k]
    <3>1. h3[k] = h1[k]
      BY <1>13, <2>1 DEF Effect, PartsKept
    <3>2. IsPart(h3, live, d, k)
      BY <1>13, <2>1, GrownParts DEF Effect
    <3>3. k # q
      BY <1>4, <2>1 DEF Unused
    <3> QED BY <1>14, <3>1, <3>2, <3>3 DEF PartsKept
  <2> QED BY <2>1 DEF PartsKept
<1>16. Grown(h1, live, fr, hdr', live')
  <2>1. Grown(h1, live, fr, h3, live)
    BY <1>13 DEF Effect
  <2>2. live \in SUBSET Page
    BY <1>5, MemTyped
  <2> QED BY ONLY <1>5, <1>9, <1>14, <2>1, <2>2, GrownTwice
<1>17. Effect(h1, b2, live, owned, fr, hdr', b2, live', c)
  BY <1>14, <1>15, <1>16 DEF Effect
<1>18. live' # live
  <2>1. h3[q].list # <<>>
    BY <1>0, <1>2, <1>4, <1>5, <1>9
  <2>2. FirstFit(h3[q].list, PageSize) # 0
    BY ONLY <1>12, <2>1, PageFits
  <2>3. live' = live => FirstFit(h3[q].list, PageSize) = 0
    <3>1. hdr \in [Page -> HeaderType] /\ kind \in {"heap", "queue"} /\ AllocInternal(h3, q, kind)
      OBVIOUS
    <3> QED BY ONLY <1>12, <3>1, PageMade
  <2> QED BY ONLY <2>2, <2>3
<1>19. Effect(h, b, live, owned, fr, hdr', b2, live', c)
  BY ONLY <1>4, <1>17, EffectTwice, MemGood(h, b, live, owned, fr)
<1> QED BY <1>14, <1>18, <1>19

(* A space and a part take two blocks, the lowest first.                   *)
LEMMA SecondBlock ==
  ASSUME blocks \in [Page -> 0..NumPages], NEW c, NEW n \in Nat, n >= 1, n = hdr[c].size,
         NEW s, s = SpaceFor(c), NEW q, q = LowestBlock(n), q # NoPage
  PROVE  s # NoPage => FreeAt(blocks, s, n) /\ s # q
<1>1. PICK S : S = BlocksFree(n) \ {q}
  OBVIOUS
<1>2. S \in SUBSET Page
  BY <1>1 DEF BlocksFree
<1>3. q \in BlocksFree(n)
  BY LowestGives
<1>4. CASE S = {}
  BY <1>1, <1>4 DEF SpaceFor
<1>5. CASE S # {}
  <2>1. \E p \in S : \A r \in S : p <= r
    <3>1. S \in SUBSET Nat
      BY <1>2, PageIs
    <3> QED BY ONLY <3>1, <1>5, LeastNatural
  <2>2. S = BlocksFree(hdr[c].size) \ {LowestBlock(hdr[c].size)}
    BY <1>1
  <2>3. s \in S
    <3>1. /\ BlocksFree(hdr[c].size) \ {LowestBlock(hdr[c].size)} # {}
          /\ \E p \in BlocksFree(hdr[c].size) \ {LowestBlock(hdr[c].size)} :
               \A r \in BlocksFree(hdr[c].size) \ {LowestBlock(hdr[c].size)} : p <= r
      BY <2>1, <2>2, <1>5
    <3>2. s = SpaceFor(c)
      OBVIOUS
    <3> QED BY ONLY <2>2, <3>1, <3>2 DEF SpaceFor
  <2>4. FreeAt(blocks, s, n)
    BY <1>1, <2>3, FreeBlockIs
  <2> QED BY <1>1, <1>2, <2>3, <2>4, PageIs
<1> QED BY <1>4, <1>5

(* A heap that expands gets a part with a page. *)
LEMMA PartEffect ==
  ASSUME MemInv, NEW c \in Heaps, IsExpanding(c), NEW kind \in {"heap", "queue"},
         NEW n, n = hdr[c].size, NEW q, q = LowestBlock(n), q # NoPage,
         AllocInternal(WithPart(hdr, c, q), q, kind), blocks' = [blocks EXCEPT ![q] = n]
  PROVE  Effect(hdr, blocks, live, owned, Freed, hdr', blocks', live', c) /\ live' # live /\ PagesNew(blocks')
<1>0. /\ MemGood(hdr, blocks, live, owned, Freed) /\ hdr \in [Page -> HeaderType] /\ blocks \in [Page -> 0..NumPages]
      /\ live \in SUBSET Page
  BY MemTyped DEF MemInv
<1>1. c \in Compounds(hdr, live) /\ hdr[c].expand # <<>> /\ c \in live /\ hdr[c].kind = "compound"
  BY DEF Heaps, Compounds, IsExpanding
<1>2. n \in Nat /\ n >= 1
  <2>1. IsPart(hdr, live, c, c)
    BY <1>0, <1>1, FirstIsPart
  <2>2. n \in Nat /\ n > 1
    BY <1>0, <2>1, PartFacts
  <2> QED BY <2>2
<1>3. FreeAt(blocks, q, n)
  BY <1>0, <1>2, LowestGives
<1>4. PICK h3 : h3 = WithPart(hdr, c, q)
  OBVIOUS
<1>5. h3 = [hdr EXCEPT ![q] = FurtherPart(q, n, c), ![c].expand = Append(@, q)]
  BY <1>4 DEF WithPart
<1>6. PICK b2 : b2 = [blocks EXCEPT ![q] = n]
  OBVIOUS
<1>7. PartTaken(hdr, blocks, c, n, q, h3, b2)
  BY <1>3, <1>5, <1>6 DEF PartTaken
<1>8. AllocInternal(h3, q, kind)
  BY <1>4
<1>9. Effect(hdr, blocks, live, owned, Freed, hdr', b2, live', c) /\ live' # live /\ PagesNew(b2)
  BY ONLY <1>0, <1>1, <1>7, <1>8, AddPart, kind \in {"heap", "queue"}
<1> QED BY <1>6, <1>9

(* ... or, where the list of its parts is full, that list moves before. *)
LEMMA ExpandEffect ==
  ASSUME MemInv, NEW t, NEW c \in Heaps, IsExpanding(c), NEW kind \in {"heap", "queue"}, Expand(t, c, kind)
  PROVE  Effect(hdr, blocks, live, owned, Freed, hdr', blocks', live', c) /\ PagesNew(blocks')
<1>0. /\ MemGood(hdr, blocks, live, owned, Freed) /\ hdr \in [Page -> HeaderType] /\ blocks \in [Page -> 0..NumPages]
      /\ live \in SUBSET Page
  BY MemTyped DEF MemInv
<1>1. c \in Compounds(hdr, live) /\ hdr[c].expand # <<>> /\ c \in live /\ hdr[c].kind = "compound"
  BY DEF Heaps, Compounds, IsExpanding
<1>2. PICK n \in Nat : n = hdr[c].size /\ n > 1
  <2>1. IsPart(hdr, live, c, c)
    BY <1>0, <1>1, FirstIsPart
  <2> QED BY <1>0, <2>1, PartFacts
<1>3. PICK q : q = LowestBlock(n)
  OBVIOUS
<1>4. PICK s : s = SpaceFor(c)
  OBVIOUS
<1>5. /\ q # NoPage => FreeAt(blocks, q, n) /\ q \in BlocksFree(n)
  BY <1>0, <1>2, <1>3, LowestGives
<1>6. q # NoPage => (s # NoPage => FreeAt(blocks, s, n) /\ s # q)
  BY <1>0, <1>2, <1>3, <1>4, SecondBlock
<1>7. CASE /\ q # NoPage /\ ~ ListIsFull(c)
           /\ AllocInternal(WithPart(hdr, c, q), q, kind)
           /\ blocks' = [blocks EXCEPT ![q] = n]
  BY <1>2, <1>3, <1>7, PartEffect
<1>8. CASE /\ q # NoPage /\ ListIsFull(c) /\ hdr[c].space = NoPage /\ s # NoPage
           /\ AllocInternal(WithPart(WithSpace(hdr, c, s), c, q), q, kind)
           /\ blocks' = [blocks EXCEPT ![q] = n, ![s] = n]
  <2>1. PICK h2 : h2 = WithSpace(hdr, c, s)
    OBVIOUS
  <2>2. h2 = [hdr EXCEPT ![s] = SimpleSpace(n), ![c].space = s, ![c].max = SpaceMax]
    BY <1>2, <2>1 DEF WithSpace
  <2>3. PICK b2 : b2 = [blocks EXCEPT ![s] = n]
    OBVIOUS
  <2>4. FreeAt(blocks, s, n) /\ FreeAt(blocks, q, n) /\ s # q
    BY <1>5, <1>6, <1>8
  <2>5. /\ Effect(hdr, blocks, live, owned, Freed, h2, b2, live, c)
        /\ c \in Compounds(h2, live) /\ h2[c].expand = hdr[c].expand /\ h2[c].size = n
        /\ b2[s] = n /\ \A k \in Page : k # s => b2[k] = blocks[k]
    <3>1. SpaceTaken(hdr, blocks, c, n, s, h2, b2)
      BY ONLY <1>2, <2>2, <2>3, <2>4 DEF SpaceTaken
    <3> QED BY ONLY <1>0, <1>1, <3>1, SpaceEffect
  <2>6. FreeAt(b2, q, n)
    BY ONLY <1>0, <2>4, <2>5, StillFree
  <2>7. PICK h3 : h3 = WithPart(h2, c, q)
    OBVIOUS
  <2>8. h3 = [h2 EXCEPT ![q] = FurtherPart(q, n, c), ![c].expand = Append(@, q)]
    BY <1>2, <2>7 DEF WithPart
  <2>9. PICK b3 : b3 = [b2 EXCEPT ![q] = n]
    OBVIOUS
  <2>10. AllocInternal(h3, q, kind)
    BY <1>8, <2>1, <2>7
  <2>11. MemGood(h2, b2, live, owned, Freed) /\ h2[c].expand # <<>> /\ n = h2[c].size
    BY <1>1, <2>5 DEF Effect
  <2>12. Effect(h2, b2, live, owned, Freed, hdr', b3, live', c) /\ live' # live /\ PagesNew(b3)
    <3>1. PartTaken(h2, b2, c, n, q, h3, b3)
      BY ONLY <2>6, <2>8, <2>9, <2>11 DEF PartTaken
    <3>2. MemGood(h2, b2, live, owned, Freed) /\ h2[c].expand # <<>> /\ c \in Compounds(h2, live)
      BY <2>5, <2>11
    <3> QED BY ONLY <1>0, <2>10, <3>1, <3>2, AddPart, kind \in {"heap", "queue"}
  <2>13. Effect(hdr, blocks, live, owned, Freed, hdr', b3, live', c)
    BY ONLY <1>0, <2>5, <2>12, EffectTwice
  <2>14. b3 = blocks'
    BY ONLY <1>8, <2>3, <2>9, <2>4, <1>0
  <2> QED BY <2>12, <2>13, <2>14
<1>9. CASE /\ \/ q = NoPage
              \/ ListIsFull(c) /\ (hdr[c].space # NoPage \/ s = NoPage)
           /\ UNCHANGED <<hdr, blocks, live>>
  <2>1. Grown(hdr, live, Freed, hdr', live')
    <3>1. \A k \in Page : hdr'[k].kind = hdr[k].kind /\ hdr'[k].base = hdr[k].base /\ hdr'[k].expand = hdr[k].expand
      BY <1>9
    <3>2. live \subseteq live'
      BY <1>9
    <3> QED BY ONLY <1>0, <3>1, <3>2, SameLinks
  <2>2. PartsKept(hdr, live, hdr', c)
    BY <1>9 DEF PartsKept
  <2> QED BY <1>0, <1>9, <2>1, <2>2 DEF Effect, PagesNew
<1> QED BY <1>2, <1>3, <1>4, <1>7, <1>8, <1>9 DEF Expand

-----------------------------------------------------------------------------
(* The steps of the calls.                                                 *)

(* Compound heaps, as the model and the layout have them.                  *)
LEMMA CompoundsAre ==
  \A c : c \in Heaps <=> c \in Compounds(hdr, live)
BY DEF Heaps, Compounds

(* What a step to a part leaves of the other facts. *)
LEMMA EffectKeeps ==
  ASSUME MemInv, use' = use, NEW p, NEW c \in Heaps,
         Effect(hdr, blocks, live, owned, Freed, hdr', blocks', live', p),
         "expanding" \in use.ops \/ \A k \in Page : hdr'[k].expand \in {hdr[k].expand, <<>>}
  PROVE  NearInv' /\ ExpandInv'
<1>1. "near" \notin use.ops
  BY NoCompound
<1>2. NearInv'
  BY <1>1 DEF NearInv
<1>3. ExpandInv'
  <2>1. ExpandInv
    BY DEF MemInv
  <2> QED BY <2>1 DEF ExpandInv
<1> QED BY <1>2, <1>3

(* A step of a call that works on one heap.                                *)
LEMMA EffectStep ==
  ASSUME MemInv, use' = use, NEW p, NEW c \in Heaps,
         Effect(hdr, blocks, live, owned, Freed, hdr', blocks', live', p), owned' = owned,
         "expanding" \in use.ops \/ \A k \in Page : hdr'[k].expand \in {hdr[k].expand, <<>>},
         NEW t, NEW place, NEW v, Moves(t, place, v),
         pc[t] \notin FreeingPlaces, place \notin FreeingPlaces, CallGood(t)'
  PROVE  MemInv'
<1>1. NearInv' /\ ExpandInv'
  BY EffectKeeps
<1>2. Freed' = Freed /\ FreesApart'
  BY FreedSame
<1>3. MemGood(hdr', blocks', live', owned', Freed') /\ Grown(hdr, live, Freed, hdr', live')
  BY <1>2 DEF Effect
<1>4. \A u \in Thread : /\ ~ AtRest(u) => HeapKept(hdr, live, hdr', live', call[u].heap)
                        /\ Frees(u) => HeapOf(hdr', call[u].page) = HeapOf(hdr, call[u].page)
  BY ONLY <1>3, GrownKeeps, MemInv
<1>5. /\ \A u \in Thread : u # t /\ ~ AtRest(u) => HeapKept(hdr, live, hdr', live', call[u].heap)
      /\ \A u \in Thread : u # t /\ Frees(u) => HeapOf(hdr', call[u].page) = HeapOf(hdr, call[u].page)
  BY ONLY <1>4
<1>6. /\ MemInv /\ Moves(t, place, v) /\ CallGood(t)'
  OBVIOUS
<1> QED BY ONLY <1>1, <1>2, <1>3, <1>5, <1>6, CallStep

(* A call that ends. *)
LEMMA FinishMoves ==
  ASSUME MemInv, NEW t \in Thread, use' = use, Finish(t)
  PROVE  Moves(t, "idle", NoCall) /\ CallGood(t)'
<1>1. Moves(t, "idle", NoCall)
  BY NoCallTyped DEF Moves, Finish, Goto, Place, Looking, Growing
<1>2. pc'[t] = "idle"
  BY <1>1, MovesTo DEF MemInv
<1> QED BY <1>1, <1>2 DEF CallGood, AtRest

(* There are lists only where programs make heaps that expand.             *)
LEMMA ExpandingUse ==
  ASSUME MemInv, NEW c \in Heaps, IsExpanding(c)
  PROVE  "expanding" \in use.ops
<1>1. ExpandInv /\ c \in Page
  BY MemTyped DEF MemInv, Heaps
<1> QED BY <1>1 DEF ExpandInv, IsExpanding

(* A call gives a page out of a part, and ends.                            *)
LEMMA AllocEnds ==
  ASSUME MemInv, NEW t \in Thread, pc[t] \notin FreeingPlaces, NEW c, NEW p, IsPart(hdr, live, c, p),
         NEW kind \in {"heap", "queue"}, AllocInternal(hdr, p, kind), blocks' = blocks, owned' = owned, use' = use, Finish(t)
  PROVE  MemInv'
<1>0. MemGood(hdr, blocks, live, owned, Freed) /\ hdr \in [Page -> HeaderType]
  BY MemTyped DEF MemInv
<1>1. Effect(hdr, blocks, live, owned, Freed, hdr', blocks, live', p)
  BY <1>0, PageEffect
<1>2. \A k \in Page : hdr'[k].expand \in {hdr[k].expand, <<>>}
  <2>1. \A k \in Page : hdr'[k].expand \in {hdr[k].expand, hdr[k].expand, <<>>}
    BY <1>0, PageMade
  <2> QED BY <2>1
<1>3. c \in Heaps
  BY CompoundsAre DEF IsPart
<1>4. Moves(t, "idle", NoCall) /\ CallGood(t)'
  BY FinishMoves
<1>5. Effect(hdr, blocks, live, owned, Freed, hdr', blocks', live', p)
  BY <1>1
<1>6. MemInv /\ use' = use /\ owned' = owned /\ pc[t] \notin FreeingPlaces
  OBVIOUS
<1>7. "idle" \notin FreeingPlaces
  BY DEF FreeingPlaces
<1> QED BY ONLY <1>2, <1>3, <1>4, <1>5, <1>6, <1>7, EffectStep

(* A call works on its heap that expands, and ends.                        *)
LEMMA EffectEnds ==
  ASSUME MemInv, NEW t \in Thread, pc[t] \notin FreeingPlaces, NEW c \in Heaps, IsExpanding(c),
         Effect(hdr, blocks, live, owned, Freed, hdr', blocks', live', c), owned' = owned, use' = use, Finish(t)
  PROVE  MemInv'
<1>2. "expanding" \in use.ops
  BY ExpandingUse
<1>4. Moves(t, "idle", NoCall) /\ CallGood(t)'
  BY FinishMoves
<1>7. "idle" \notin FreeingPlaces
  BY DEF FreeingPlaces
<1> QED BY ONLY <1>2, <1>4, <1>7, EffectStep, MemInv, use' = use, owned' = owned, pc[t] \notin FreeingPlaces, c \in Heaps,
                Effect(hdr, blocks, live, owned, Freed, hdr', blocks', live', c)

(* Only the call goes on. *)
LEMMA CallOnly ==
  ASSUME MemInv, hdr' = hdr, blocks' = blocks, live' = live, owned' = owned, use' = use,
         NEW t, NEW place, NEW c, Moves(t, place, c),
         pc[t] \in FreeingPlaces <=> place \in FreeingPlaces,
         place \in FreeingPlaces => c.page = call[t].page,
         CallGood(t)'
  PROVE  MemInv'
<1>0. MemGood(hdr, blocks, live, owned, Freed)
  BY DEF MemInv
<1>1. Freed' = Freed /\ FreesApart'
  BY FreedSame
<1>2. MemGood(hdr', blocks', live', owned', Freed')
  BY <1>0, <1>1
<1>3. Grown(hdr, live, Freed, hdr', live')
  <2>1. \A k \in Page : hdr'[k].kind = hdr[k].kind /\ hdr'[k].base = hdr[k].base /\ hdr'[k].expand = hdr[k].expand
    OBVIOUS
  <2>2. live \subseteq live'
    OBVIOUS
  <2> QED BY ONLY <1>0, <2>1, <2>2, SameLinks
<1>4. \A u \in Thread : /\ ~ AtRest(u) => HeapKept(hdr, live, hdr', live', call[u].heap)
                        /\ Frees(u) => HeapOf(hdr', call[u].page) = HeapOf(hdr, call[u].page)
  BY ONLY <1>3, GrownKeeps, MemInv
<1>5. /\ \A u \in Thread : u # t /\ ~ AtRest(u) => HeapKept(hdr, live, hdr', live', call[u].heap)
      /\ \A u \in Thread : u # t /\ Frees(u) => HeapOf(hdr', call[u].page) = HeapOf(hdr, call[u].page)
  BY ONLY <1>4
<1>6. NearInv' /\ ExpandInv'
  BY DEF MemInv, NearInv, ExpandInv
<1>7. /\ MemInv /\ Moves(t, place, c) /\ CallGood(t)'
  OBVIOUS
<1> QED BY ONLY <1>1, <1>2, <1>5, <1>6, <1>7, CallStep

(* What a call goes by, by its place.                                      *)
CallAt(t, place, c) ==
  /\ t \in use.threads /\ c.heap \in Heaps
  /\ c.near # NoPage => IsPart(hdr, live, c.heap, c.near) /\ "nearalloc" \in use.ops
  /\ place = "near" => c.near # NoPage
  /\ place \in {"sum", "freefirst", "freescan"} => c.near = NoPage
  /\ place \in {"last", "pick"} \cup Looking =>
       IsExpanding(c.heap) /\ IsPart(hdr, live, c.heap, c.last)
  /\ place = "last" => c.last # c.heap
  /\ place \in Looking => c.i >= 1 /\ c.i <= Len(hdr[c.heap].expand)
  /\ place = "sum" => c.i >= 2 /\ c.i <= Len(Parts(hdr, c.heap)) + 1
  /\ place = "freescan" => c.i \in DOMAIN Parts(hdr, c.heap)
  /\ place \in {"freefirst", "freescan"} =>
       /\ "free" \in use.ops /\ c.page \in Page /\ c.i >= 1
       /\ hdr[hdr[c.page].base].base = c.heap
       /\ place = "freefirst" => c.i = 1

(* A good call is where its place says.                                    *)
LEMMA CallIsAt ==
  ASSUME NEW t, ~ AtRest(t), CallGood(t)
  PROVE  CallAt(t, pc[t], call[t])
BY DEF CallGood, CallAt, Frees

(* A call goes on, and the heaps stay.                                     *)
LEMMA CallGetsTo ==
  ASSUME MemInv, hdr' = hdr, live' = live, NEW t, NEW place, NEW c, Moves(t, place, c), CallAt(t, place, c)
  PROVE  CallGood(t)'
<1>1. use' = use /\ pc'[t] = place /\ call'[t] = c
  BY MovesTo DEF MemInv
<1>2. Heaps' = Heaps
  BY DEF Heaps
<1> QED BY ONLY <1>1, <1>2, hdr' = hdr, live' = live, CallAt(t, place, c) DEF CallGood, CallAt, Frees, IsExpanding

(* The records of the calls. *)
LEMMA CallFields ==
  ASSUME NEW c \in CallType, NEW p \in 0..NumPages, NEW r \in 0..NumPages, NEW q \in 0..NumPages,
         NEW kind \in {"heap", "queue"}, NEW i \in Nat, NEW d,
         \/ d = [c EXCEPT !.heap = p, !.near = r, !.kind = kind]
         \/ d = [c EXCEPT !.heap = p, !.near = r, !.page = q, !.i = i]
         \/ d = [c EXCEPT !.last = q, !.i = i]
         \/ d = [c EXCEPT !.page = q]
  PROVE  d \in CallType
BY DEF CallType

(* What a call is made of.                                                 *)
LEMMA CallTyped ==
  ASSUME MemInv, NEW t \in Thread
  PROVE  /\ call[t] \in CallType /\ call \in [Thread -> CallType] /\ pc \in [Thread -> Place] /\ pc[t] \in Place
         /\ call[t].kind \in {"heap", "queue"} /\ call[t].i \in Nat /\ call[t].heap \in 0..NumPages
         /\ call[t].near \in 0..NumPages /\ call[t].page \in 0..NumPages /\ call[t].last \in 0..NumPages
<1>1. call \in [Thread -> CallType] /\ pc \in [Thread -> Place]
  BY DEF MemInv, StateType
<1>2. call[t] \in CallType /\ pc[t] \in Place
  BY <1>1
<1> QED BY <1>1, <1>2 DEF CallType

(* A heap, and a part of one, is a page that knows its heap.               *)
LEMMA HeapIsPage ==
  ASSUME MemInv
  PROVE  /\ \A c \in Heaps : c \in Page /\ c \in 0..NumPages /\ IsPart(hdr, live, c, c) /\ hdr[c].base = c
         /\ \A c, r : IsPart(hdr, live, c, r) => c \in Heaps /\ r \in Page /\ r \in 0..NumPages /\ hdr[r].base = c
<1>0. MemGood(hdr, blocks, live, owned, Freed)
  BY DEF MemInv
<1>1. ASSUME NEW c, NEW r, IsPart(hdr, live, c, r)
      PROVE c \in Heaps /\ c \in Page /\ r \in Page /\ r \in 0..NumPages /\ hdr[r].base = c
  <2>1. c \in Compounds(hdr, live) /\ r \in Page /\ hdr[r].base = c /\ c \in Page
    BY <1>0, <1>1, PartFacts
  <2> QED BY <2>1, CompoundsAre, PageIs
<1>2. ASSUME NEW c \in Heaps PROVE IsPart(hdr, live, c, c)
  BY <1>0, FirstIsPart DEF Heaps
<1> QED BY <1>1, <1>2

(* The lowest block of the size of a heap.                                 *)
LEMMA BlockForHeap ==
  ASSUME MemInv, NEW c \in Heaps, NEW n, n = hdr[c].size, NEW q, q = LowestBlock(n), q # NoPage
  PROVE  /\ FreeAt(blocks, q, n) /\ q \in Page /\ q \in 0..NumPages
         /\ n \in Nat /\ n > 1 /\ n \in 1..NumPages /\ blocks[c] = n /\ c \in Page /\ q # c /\ blocks[q] = 0
<1>1. hdr \in [Page -> HeaderType] /\ blocks \in [Page -> 0..NumPages]
  BY MemTyped DEF MemInv
<1>2. IsPart(hdr, live, c, c) /\ c \in Page
  BY HeapIsPage
<1>3. n > 1 /\ blocks[c] = n
  BY <1>2, PartFacts DEF MemInv
<1>4. n \in Nat /\ n <= NumPages
  BY <1>1, <1>2, HeaderIs
<1>5. FreeAt(blocks, q, n)
  <2>1. n >= 1
    BY <1>3, <1>4
  <2> QED BY <1>1, <1>4, <2>1, LowestGives
<1>6. q \in Page /\ blocks[q] = 0
  BY <1>5, FreeIsNew
<1> QED BY <1>2, <1>3, <1>4, <1>5, <1>6, PageIs

(* The last part of a heap that expands is one.                            *)
LEMMA LastIsPart ==
  ASSUME MemInv, NEW p \in Heaps, IsExpanding(p)
  PROVE  /\ IsPart(hdr, live, p, LastPart(p)) /\ Parts(hdr, p) = hdr[p].expand
         /\ Len(hdr[p].expand) \in Nat /\ Len(hdr[p].expand) >= 1
         /\ \A i \in 1..Len(hdr[p].expand) : IsPart(hdr, live, p, hdr[p].expand[i])
         /\ hdr[p].expand[1] = p
<1>1. hdr[p].expand \in Seq(Page) /\ hdr[p].expand # <<>>
  BY MemTyped, HeaderIs, HeapIsPage DEF MemInv, IsExpanding
<1>2. Parts(hdr, p) = hdr[p].expand
  BY <1>1 DEF Parts
<1>3. Len(hdr[p].expand) \in Nat /\ Len(hdr[p].expand) >= 1 /\ DOMAIN hdr[p].expand = 1..Len(hdr[p].expand)
  BY <1>1
<1>4. \A i \in 1..Len(hdr[p].expand) : IsPart(hdr, live, p, hdr[p].expand[i])
  BY <1>2, <1>3, CompoundsAre DEF IsPart
<1>5. hdr[p].expand[1] = p
  <2>1. CompoundGood(hdr, blocks, live, Freed, p)
    BY CompoundsAre DEF MemInv, MemGood
  <2> QED BY <1>2, <2>1 DEF CompoundGood
<1>6. Len(hdr[p].expand) \in 1..Len(hdr[p].expand)
  BY <1>3
<1> QED BY <1>2, <1>3, <1>4, <1>5, <1>6 DEF LastPart

(* An allocate begins.                                                     *)
LEMMA AllocCall ==
  ASSUME MemInv, NEW t, NEW p \in Heaps, NEW kind \in {"heap", "queue"}, Alloc(t, p, kind)
  PROVE  MemInv'
<1>1. PICK c : c = [NoCall EXCEPT !.heap = p, !.kind = kind]
  OBVIOUS
<1>2. /\ t \in use.threads /\ use' = use /\ AtRest(t) /\ t \in Thread
      /\ pc' = [pc EXCEPT ![t] = "first"] /\ call' = [call EXCEPT ![t] = c]
      /\ hdr' = hdr /\ blocks' = blocks /\ live' = live /\ owned' = owned
  BY <1>1, UseFacts DEF Alloc, Call, Goto, MemInv
<1>3. c \in CallType /\ c.heap = p /\ c.near = NoPage /\ c.kind = kind
  <2>1. p \in 0..NumPages
    BY HeapIsPage
  <2>2. c \in CallType
    BY ONLY <1>1, <2>1, kind \in {"heap", "queue"}, NoCallTyped DEF CallType
  <2>3. c.heap = p /\ c.near = NoPage /\ c.kind = kind
    BY ONLY <1>1 DEF NoCall
  <2> QED BY <2>2, <2>3
<1>4. Moves(t, "first", c)
  BY <1>2, <1>3 DEF Moves, Place, Looking, Growing
<1>5. CallAt(t, "first", c)
  BY ONLY <1>2, <1>3, p \in Heaps DEF CallAt, Looking, Growing
<1>6. CallGood(t)'
  BY ONLY <1>2, <1>4, <1>5, CallGetsTo, MemInv
<1>7. pc[t] \in FreeingPlaces <=> "first" \in FreeingPlaces
  BY <1>2 DEF FreeingPlaces, AtRest
<1>8. "first" \in FreeingPlaces => c.page = call[t].page
  BY DEF FreeingPlaces
<1> QED BY ONLY <1>2, <1>4, <1>6, <1>7, <1>8, CallOnly, MemInv

(* It gets the lock of the heap, and may end there.                        *)
LEMMA LockFirstCall ==
  ASSUME MemInv, NEW t \in Thread, LockFirst(t)
  PROVE  MemInv'
<1>1. PICK p : p = call[t].heap
  OBVIOUS
<1>2. /\ pc[t] = "first" /\ blocks' = blocks /\ owned' = owned /\ use' = use
      /\ \/ AllocInternal(hdr, p, call[t].kind) /\ Finish(t)
         \/ /\ IsExpanding(p)
            /\ IF LastPart(p) = p
                 THEN Goto(t, "pick") /\ call' = [call EXCEPT ![t].last = p]
                 ELSE Goto(t, "last") /\ call' = [call EXCEPT ![t].last = LastPart(p)]
            /\ hdr' = hdr /\ live' = live
  BY <1>1 DEF LockFirst, Done
<1>3. CallAt(t, "first", call[t]) /\ p \in Heaps
  BY <1>1, <1>2, CallIsAt DEF MemInv, AtRest, CallAt
<1>4. pc[t] \notin FreeingPlaces
  BY <1>2 DEF FreeingPlaces
<1>5. CASE AllocInternal(hdr, p, call[t].kind) /\ Finish(t)
  <2>1. IsPart(hdr, live, p, p) /\ call[t].kind \in {"heap", "queue"}
    BY <1>3, HeapIsPage, CallTyped
  <2> QED BY ONLY <1>2, <1>4, <1>5, <2>1, AllocEnds, MemInv, t \in Thread
<1>6. CASE /\ IsExpanding(p)
           /\ IF LastPart(p) = p
                THEN Goto(t, "pick") /\ call' = [call EXCEPT ![t].last = p]
                ELSE Goto(t, "last") /\ call' = [call EXCEPT ![t].last = LastPart(p)]
           /\ hdr' = hdr /\ live' = live
  <2>1. PICK q : q = LastPart(p)
    OBVIOUS
  <2>2. PICK place : place = IF q = p THEN "pick" ELSE "last"
    OBVIOUS
  <2>3. PICK c : c = [call[t] EXCEPT !.last = q]
    OBVIOUS
  <2>4. IsPart(hdr, live, p, q)
    BY <1>3, <1>6, <2>1, LastIsPart
  <2>5. c \in CallType /\ c.last = q /\ c.heap = p /\ c.near = call[t].near
    <3>1. q \in 0..NumPages
      BY <2>4, HeapIsPage
    <3> QED BY <1>1, <2>3, <3>1, CallTyped DEF CallType
  <2>6. pc' = [pc EXCEPT ![t] = place] /\ call' = [call EXCEPT ![t] = c]
    <3>1. call \in [Thread -> CallType]
      BY CallTyped
    <3> QED BY <1>6, <2>1, <2>2, <2>3, <3>1 DEF Goto
  <2>7. Moves(t, place, c)
    BY <1>2, <2>2, <2>5, <2>6 DEF Moves, Place, Looking, Growing
  <2>8. CallAt(t, place, c)
    BY ONLY <1>1, <1>3, <1>6, <2>2, <2>4, <2>5 DEF CallAt, Looking, Growing
  <2>9. CallGood(t)'
    BY ONLY <1>6, <2>7, <2>8, CallGetsTo, MemInv
  <2>10. place \notin FreeingPlaces
    BY <2>2 DEF FreeingPlaces
  <2> QED BY ONLY <1>2, <1>4, <1>6, <2>7, <2>9, <2>10, CallOnly, MemInv
<1> QED BY <1>2, <1>5, <1>6

(* It gets the lock of the last part.                                      *)
LEMMA LockLastCall ==
  ASSUME MemInv, NEW t \in Thread, LockLast(t)
  PROVE  MemInv'
<1>1. /\ pc[t] = "last" /\ blocks' = blocks /\ owned' = owned /\ use' = use /\ hdr' = hdr /\ live' = live
      /\ pc' = [pc EXCEPT ![t] = "pick"] /\ call' = call
  BY DEF LockLast, Goto
<1>2. PICK c : c = call[t]
  OBVIOUS
<1>3. CallAt(t, "last", c)
  BY <1>1, <1>2, CallIsAt DEF MemInv, AtRest
<1>4. c \in CallType /\ call \in [Thread -> CallType]
  BY <1>2, CallTyped
<1>5. call' = [call EXCEPT ![t] = c]
  BY <1>1, <1>2, <1>4
<1>6. Moves(t, "pick", c)
  BY <1>1, <1>4, <1>5 DEF Moves, Place, Looking, Growing
<1>7. CallAt(t, "pick", c)
  BY ONLY <1>3 DEF CallAt, Looking, Growing
<1>8. CallGood(t)'
  BY ONLY <1>1, <1>6, <1>7, CallGetsTo, MemInv
<1>9. pc[t] \notin FreeingPlaces /\ "pick" \notin FreeingPlaces
  BY <1>1 DEF FreeingPlaces
<1> QED BY ONLY <1>1, <1>6, <1>8, <1>9, CallOnly, MemInv

(* It finds room in the last part, or looks on.                            *)
LEMMA PickCall ==
  ASSUME MemInv, NEW t \in Thread, Pick(t)
  PROVE  MemInv'
<1>1. PICK p : p = call[t].heap
  OBVIOUS
<1>2. PICK q : q = call[t].last
  OBVIOUS
<1>3. /\ pc[t] = "pick" /\ blocks' = blocks /\ owned' = owned /\ use' = use
      /\ \/ AllocInternal(hdr, q, call[t].kind) /\ Finish(t)
         \/ Goto(t, "scan") /\ call' = [call EXCEPT ![t].i = 1] /\ hdr' = hdr /\ live' = live
  BY <1>2 DEF Pick, Done
<1>4. CallAt(t, "pick", call[t])
  BY <1>3, CallIsAt DEF MemInv, AtRest
<1>5. p \in Heaps /\ IsExpanding(p) /\ IsPart(hdr, live, p, q)
  BY <1>1, <1>2, <1>4 DEF CallAt, Looking, Growing
<1>6. pc[t] \notin FreeingPlaces
  BY <1>3 DEF FreeingPlaces
<1>7. CASE AllocInternal(hdr, q, call[t].kind) /\ Finish(t)
  <2>1. call[t].kind \in {"heap", "queue"}
    BY CallTyped
  <2> QED BY ONLY <1>3, <1>5, <1>6, <1>7, <2>1, AllocEnds, MemInv, t \in Thread
<1>8. CASE Goto(t, "scan") /\ call' = [call EXCEPT ![t].i = 1] /\ hdr' = hdr /\ live' = live
  <2>1. PICK c : c = [call[t] EXCEPT !.i = 1]
    OBVIOUS
  <2>2. c \in CallType /\ c.heap = p /\ c.near = call[t].near /\ c.last = q /\ c.i = 1
    BY <1>1, <1>2, <2>1, CallTyped DEF CallType
  <2>3. pc' = [pc EXCEPT ![t] = "scan"] /\ call' = [call EXCEPT ![t] = c]
    BY <1>8, <2>1, CallTyped DEF Goto
  <2>4. Moves(t, "scan", c)
    BY <1>3, <2>2, <2>3 DEF Moves, Place, Looking, Growing
  <2>5. 1 <= Len(hdr[p].expand)
    BY <1>5, LastIsPart
  <2>6. CallAt(t, "scan", c)
    BY ONLY <1>1, <1>2, <1>4, <1>5, <2>2, <2>5 DEF CallAt, Looking, Growing
  <2>7. CallGood(t)'
    BY ONLY <1>8, <2>4, <2>6, CallGetsTo, MemInv
  <2>8. "scan" \notin FreeingPlaces
    BY DEF FreeingPlaces
  <2> QED BY ONLY <1>3, <1>6, <1>8, <2>4, <2>7, <2>8, CallOnly, MemInv
<1> QED BY <1>3, <1>7, <1>8

(* It looks at the next part, and expands the heap after the others.       *)
LEMMA ScanCall ==
  ASSUME MemInv, NEW t \in Thread, Scan(t)
  PROVE  MemInv'
<1>1. PICK p : p = call[t].heap
  OBVIOUS
<1>2. PICK i : i = call[t].i
  OBVIOUS
<1>3. PICK q : q = hdr[p].expand[i]
  OBVIOUS
<1>4. /\ pc[t] = "scan" /\ owned' = owned /\ use' = use
      /\ \/ /\ i <= Len(hdr[p].expand) - 1
            /\ blocks' = blocks
            /\ \/ AllocInternal(hdr, q, call[t].kind) /\ Finish(t)
               \/ call' = [call EXCEPT ![t].i = i + 1] /\ hdr' = hdr /\ live' = live /\ pc' = pc
         \/ Goto(t, "grow") /\ call' = call /\ hdr' = hdr /\ blocks' = blocks /\ live' = live
  BY <1>1, <1>2, <1>3 DEF Scan, Done, Others
<1>5. CallAt(t, "scan", call[t])
  BY <1>4, CallIsAt DEF MemInv, AtRest
<1>6. p \in Heaps /\ IsExpanding(p) /\ IsPart(hdr, live, p, call[t].last) /\ i >= 1 /\ i <= Len(hdr[p].expand) /\ i \in Nat
  BY <1>1, <1>2, <1>5, CallTyped DEF CallAt, Looking, Growing
<1>7. pc[t] \notin FreeingPlaces
  BY <1>4 DEF FreeingPlaces
<1>8. IsPart(hdr, live, p, q) /\ Len(hdr[p].expand) \in Nat
  BY <1>3, <1>6, LastIsPart
<1>9. call[t].kind \in {"heap", "queue"}
  BY CallTyped
<1>10. CASE blocks' = blocks /\ AllocInternal(hdr, q, call[t].kind) /\ Finish(t)
  BY ONLY <1>4, <1>7, <1>8, <1>9, <1>10, AllocEnds, MemInv, t \in Thread
<1>11. CASE i <= Len(hdr[p].expand) - 1 /\ blocks' = blocks
            /\ call' = [call EXCEPT ![t].i = i + 1] /\ hdr' = hdr /\ live' = live /\ pc' = pc
  <2>1. PICK c : c = [call[t] EXCEPT !.i = i + 1]
    OBVIOUS
  <2>1a. i + 1 \in Nat
    BY <1>6
  <2>2. c \in CallType /\ c.heap = p /\ c.near = call[t].near /\ c.last = call[t].last /\ c.i = i + 1
    BY <1>1, <2>1, <2>1a, CallTyped DEF CallType
  <2>3. pc' = [pc EXCEPT ![t] = "scan"] /\ call' = [call EXCEPT ![t] = c]
    BY <1>4, <1>11, <2>1, CallTyped
  <2>4. Moves(t, "scan", c)
    BY <1>4, <2>2, <2>3 DEF Moves, Place, Looking, Growing
  <2>5. c.i >= 1 /\ c.i <= Len(hdr[p].expand)
    BY <1>6, <1>8, <1>11, <2>2
  <2>6. CallAt(t, "scan", c)
    BY ONLY <1>1, <1>5, <1>6, <2>2, <2>5 DEF CallAt, Looking, Growing
  <2>7. CallGood(t)'
    BY ONLY <1>11, <2>4, <2>6, CallGetsTo, MemInv
  <2>8. "scan" \notin FreeingPlaces
    BY DEF FreeingPlaces
  <2> QED BY ONLY <1>4, <1>7, <1>11, <2>4, <2>7, <2>8, CallOnly, MemInv
<1>12. CASE Goto(t, "grow") /\ call' = call /\ hdr' = hdr /\ blocks' = blocks /\ live' = live
  <2>1. call' = [call EXCEPT ![t] = call[t]] /\ call[t] \in CallType
    BY <1>12, CallTyped
  <2>2. Moves(t, "grow", call[t])
    BY <1>4, <1>12, <2>1 DEF Moves, Goto, Place, Looking, Growing
  <2>3. CallAt(t, "grow", call[t])
    BY ONLY <1>5 DEF CallAt, Looking, Growing
  <2>4. CallGood(t)'
    BY ONLY <1>12, <2>2, <2>3, CallGetsTo, MemInv
  <2>5. "grow" \notin FreeingPlaces
    BY DEF FreeingPlaces
  <2> QED BY ONLY <1>4, <1>7, <1>12, <2>2, <2>4, <2>5, CallOnly, MemInv
<1> QED BY <1>4, <1>10, <1>11, <1>12

(* A call that expands its heap has all that a call that looks has.        *)
LEMMA GrowingCall ==
  ASSUME MemInv, NEW t \in Thread, pc[t] \in Growing
  PROVE  /\ CallAt(t, pc[t], call[t]) /\ call[t].heap \in Heaps /\ IsExpanding(call[t].heap)
         /\ pc[t] \notin FreeingPlaces /\ call[t].kind \in {"heap", "queue"}
<1>1. CallAt(t, pc[t], call[t])
  BY CallIsAt DEF MemInv, AtRest, Growing
<1> QED BY <1>1, CallTyped DEF CallAt, Looking, Growing, FreeingPlaces

(* Such a call takes a step on the way. *)
LEMMA GrowingStep ==
  ASSUME MemInv, NEW t \in Thread, pc[t] \in Growing, NEW place \in Growing, NEW q \in 0..NumPages,
         Goto(t, place), call' = [call EXCEPT ![t].page = q], owned' = owned, use' = use,
         Effect(hdr, blocks, live, owned, Freed, hdr', blocks', live', call[t].heap)
  PROVE  MemInv'
<1>1. PICK p : p = call[t].heap
  OBVIOUS
<1>2. CallAt(t, pc[t], call[t]) /\ p \in Heaps /\ IsExpanding(p) /\ pc[t] \notin FreeingPlaces
  BY <1>1, GrowingCall
<1>3. PICK c : c = [call[t] EXCEPT !.page = q]
  OBVIOUS
<1>4. c \in CallType /\ c.heap = p /\ c.near = call[t].near /\ c.last = call[t].last /\ c.i = call[t].i
  BY <1>1, <1>3, CallTyped DEF CallType
<1>5. Moves(t, place, c)
  BY <1>3, <1>4, CallTyped DEF Moves, Goto, Place, Looking, Growing
<1>6. pc'[t] = place /\ call'[t] = c /\ use' = use
  BY <1>5, MovesTo DEF MemInv
<1>7. /\ t \in use.threads
      /\ c.near # NoPage => IsPart(hdr, live, p, c.near) /\ "nearalloc" \in use.ops
      /\ IsPart(hdr, live, p, c.last) /\ c.i >= 1 /\ c.i <= Len(hdr[p].expand)
  BY <1>1, <1>2, <1>4 DEF CallAt, Looking, Growing
<1>8. /\ hdr' \in [Page -> HeaderType] /\ hdr \in [Page -> HeaderType]
      /\ Grown(hdr, live, Freed, hdr', live') /\ p \in Compounds(hdr, live) /\ p \in Page
  BY <1>2, CompoundsAre, HeapIsPage, MemTyped DEF Effect, MemInv
<1>9. HeapKept(hdr, live, hdr', live', p)
  BY <1>1, <1>8 DEF Grown
<1>10. Len(hdr[p].expand) \in Nat /\ Len(hdr'[p].expand) \in Nat /\ c.i \in Nat
  <2>1. hdr[p].expand \in Seq(Page) /\ hdr'[p].expand \in Seq(Page)
    BY <1>8, HeaderIs
  <2> QED BY <2>1, <1>4 DEF CallType
<1>11. /\ p \in Heaps' /\ IsExpanding(p)' /\ IsPart(hdr', live', p, c.last)
       /\ c.near # NoPage => IsPart(hdr', live', p, c.near)
       /\ c.i <= Len(hdr'[p].expand)
  <2>1. p \in Heaps'
    BY <1>9 DEF HeapKept, Heaps, Compounds
  <2>2. IsExpanding(p)'
    BY <1>2, <1>9 DEF HeapKept, IsExpanding
  <2>3. IsPart(hdr', live', p, c.last) /\ (c.near # NoPage => IsPart(hdr', live', p, c.near))
    BY <1>7, <1>9 DEF HeapKept
  <2>4. Len(hdr[p].expand) <= Len(hdr'[p].expand)
    BY <1>9 DEF HeapKept
  <2>5. c.i <= Len(hdr'[p].expand)
    BY <1>7, <1>10, <2>4
  <2> QED BY <2>1, <2>2, <2>3, <2>5
<1>12. CallGood(t)'
  <2>1. place \in Looking /\ place \notin {"idle", "last", "pick", "near", "sum", "freefirst", "freescan"}
    BY DEF Looking, Growing
  <2>2. pc'[t] \notin {"near", "sum", "freefirst", "freescan", "last"}
    BY <1>6, <2>1
  <2>3. ~ Frees(t)'
    BY <2>2 DEF Frees
  <2> QED BY ONLY <1>4, <1>6, <1>7, <1>11, <2>2, <2>3 DEF CallGood
<1>13. place \notin FreeingPlaces /\ "expanding" \in use.ops
  BY <1>2, ExpandingUse DEF Growing, FreeingPlaces
<1> QED BY ONLY <1>1, <1>2, <1>5, <1>12, <1>13, EffectStep, MemInv, use' = use, owned' = owned,
                Effect(hdr, blocks, live, owned, Freed, hdr', blocks', live', call[t].heap)

(* It takes a block, for a part or until the list has moved. *)
LEMMA TakeBlockCall ==
  ASSUME MemInv, NEW t \in Thread, TakeBlock(t)
  PROVE  MemInv'
<1>1. PICK p : p = call[t].heap
  OBVIOUS
<1>2. PICK n : n = hdr[p].size
  OBVIOUS
<1>3. PICK q : q = LowestBlock(n)
  OBVIOUS
<1>4. /\ pc[t] = "grow" /\ owned' = owned /\ use' = use
      /\ \/ Finish(t) /\ hdr' = hdr /\ blocks' = blocks /\ live' = live
         \/ /\ q # NoPage /\ AllocInternal(WithPart(hdr, p, q), q, call[t].kind)
            /\ blocks' = [blocks EXCEPT ![q] = n] /\ Finish(t)
         \/ /\ q # NoPage /\ blocks' = [blocks EXCEPT ![q] = n]
            /\ call' = [call EXCEPT ![t].page = q] /\ hdr' = hdr /\ live' = live
            /\ Goto(t, "space") \/ Goto(t, "back")
  BY <1>1, <1>2, <1>3 DEF TakeBlock, ExpandDone, Done
<1>5. p \in Heaps /\ IsExpanding(p) /\ pc[t] \notin FreeingPlaces /\ call[t].kind \in {"heap", "queue"} /\ pc[t] \in Growing
  BY <1>1, <1>4, GrowingCall DEF Growing
<1>6. CASE Finish(t) /\ hdr' = hdr /\ blocks' = blocks /\ live' = live
  <2>1. Moves(t, "idle", NoCall) /\ CallGood(t)'
    BY <1>4, <1>6, FinishMoves
  <2>2. "idle" \notin FreeingPlaces
    BY DEF FreeingPlaces
  <2> QED BY ONLY <1>4, <1>5, <1>6, <2>1, <2>2, CallOnly, MemInv
<1>7. CASE /\ q # NoPage /\ AllocInternal(WithPart(hdr, p, q), q, call[t].kind)
           /\ blocks' = [blocks EXCEPT ![q] = n] /\ Finish(t)
  <2>1. Effect(hdr, blocks, live, owned, Freed, hdr', blocks', live', p)
    BY ONLY <1>2, <1>3, <1>5, <1>7, PartEffect, MemInv
  <2> QED BY ONLY <1>4, <1>5, <1>7, <2>1, EffectEnds, MemInv, t \in Thread
<1>8. CASE /\ q # NoPage /\ blocks' = [blocks EXCEPT ![q] = n]
           /\ call' = [call EXCEPT ![t].page = q] /\ hdr' = hdr /\ live' = live
           /\ Goto(t, "space") \/ Goto(t, "back")
  <2>1. FreeAt(blocks, q, n) /\ q \in Page /\ q \in 0..NumPages
    BY <1>1, <1>2, <1>3, <1>5, <1>8, BlockForHeap
  <2>2. Effect(hdr, blocks, live, owned, Freed, hdr', blocks', live', p)
    <3>1. MemGood(hdr, blocks, live, owned, Freed) /\ hdr \in [Page -> HeaderType]
      BY MemTyped DEF MemInv
    <3>2. hdr[q] \in HeaderType /\ hdr = [hdr EXCEPT ![q] = hdr[q]]
      BY <2>1, <3>1
    <3>3. PICK b2 : b2 = [blocks EXCEPT ![q] = n]
      OBVIOUS
    <3>4. PICK v : v = hdr[q]
      OBVIOUS
    <3>5. BlockUse(hdr, blocks, q, n, v, hdr, b2)
      BY <2>1, <3>2, <3>3, <3>4 DEF BlockUse
    <3>6. Effect(hdr, blocks, live, owned, Freed, hdr, b2, live, p)
      BY ONLY <3>1, <3>5, BlockEffect
    <3> QED BY <3>3, <3>6, <1>8
  <2>3. PICK place \in Growing : Goto(t, place)
    BY <1>8 DEF Growing
  <2> QED BY ONLY <1>1, <1>4, <1>5, <1>8, <2>1, <2>2, <2>3, GrowingStep, MemInv, t \in Thread
<1> QED BY <1>4, <1>6, <1>7, <1>8

(* It takes another for the list.                                          *)
LEMMA MoveListCall ==
  ASSUME MemInv, NEW t \in Thread, MoveList(t)
  PROVE  MemInv'
<1>1. PICK p : p = call[t].heap
  OBVIOUS
<1>2. PICK n : n = hdr[p].size
  OBVIOUS
<1>3. PICK s : s = LowestBlock(n)
  OBVIOUS
<1>4. /\ pc[t] = "space" /\ owned' = owned /\ use' = use /\ live' = live /\ call' = call /\ Goto(t, "back")
      /\ \/ hdr' = hdr /\ blocks' = blocks
         \/ s # NoPage /\ hdr' = WithSpace(hdr, p, s) /\ blocks' = [blocks EXCEPT ![s] = n]
  BY <1>1, <1>2, <1>3 DEF MoveList
<1>5. p \in Heaps /\ IsExpanding(p) /\ pc[t] \in Growing /\ "back" \in Growing
  BY <1>1, <1>4, GrowingCall DEF Growing
<1>6. call' = [call EXCEPT ![t].page = call[t].page] /\ call[t].page \in 0..NumPages
  <2>1. call \in [Thread -> CallType] /\ call[t] \in CallType /\ call[t].page \in 0..NumPages
    BY CallTyped
  <2>2. [call[t] EXCEPT !.page = call[t].page] = call[t]
    BY <2>1 DEF CallType
  <2> QED BY <2>1, <2>2, <1>4
<1>7. MemGood(hdr, blocks, live, owned, Freed) /\ hdr \in [Page -> HeaderType]
  BY MemTyped DEF MemInv
<1>8. Effect(hdr, blocks, live, owned, Freed, hdr', blocks', live', p)
  <2>1. CASE hdr' = hdr /\ blocks' = blocks
    <3>1. \A k \in Page : hdr'[k].kind = hdr[k].kind /\ hdr'[k].base = hdr[k].base /\ hdr'[k].expand = hdr[k].expand
      BY <2>1
    <3>2. live \subseteq live'
      BY <1>4
    <3>3. Grown(hdr, live, Freed, hdr', live')
      BY ONLY <1>7, <3>1, <3>2, SameLinks
    <3> QED BY <3>3, <1>4, <1>7, <2>1 DEF Effect, PartsKept
  <2>2. CASE s # NoPage /\ hdr' = WithSpace(hdr, p, s) /\ blocks' = [blocks EXCEPT ![s] = n]
    <3>1. FreeAt(blocks, s, n)
      BY <1>1, <1>2, <1>3, <1>5, <2>2, BlockForHeap
    <3>2. SpaceTaken(hdr, blocks, p, n, s, hdr', blocks')
      BY <1>2, <2>2, <3>1 DEF SpaceTaken, WithSpace
    <3>3. p \in Compounds(hdr, live) /\ hdr[p].expand # <<>>
      BY <1>5, CompoundsAre DEF IsExpanding
    <3>4. Effect(hdr, blocks, live, owned, Freed, hdr', blocks', live, p)
      BY ONLY <1>7, <3>2, <3>3, SpaceEffect
    <3> QED BY <3>4, <1>4
  <2> QED BY <2>1, <2>2, <1>4
<1> QED BY ONLY <1>1, <1>4, <1>5, <1>6, <1>8, GrowingStep, MemInv, t \in Thread

(* The block it has goes back: it is nobody's.                             *)
LEMMA HandEffect ==
  ASSUME MemInv, NEW q, Loose(q), hdr' = [hdr EXCEPT ![q] = NoHeader], blocks' = [blocks EXCEPT ![q] = 0], live' = live, NEW p
  PROVE  Effect(hdr, blocks, live, owned, Freed, hdr', blocks', live', p)
<1>1. MemGood(hdr, blocks, live, owned, Freed) /\ hdr \in [Page -> HeaderType] /\ live \in SUBSET Page
  BY MemTyped DEF MemInv
<1>2. q \in Page /\ blocks[q] > 0 /\ q \notin live /\ hdr[q].kind \notin {"compound", "space"}
  BY DEF Loose
<1>3. PICK h2 : h2 = [hdr EXCEPT ![q] = NoHeader]
  OBVIOUS
<1>4. PICK b2 : b2 = [blocks EXCEPT ![q] = 0]
  OBVIOUS
<1>5. /\ MemGood(h2, b2, live, owned, Freed) /\ Compounds(h2, live) = Compounds(hdr, live)
      /\ \A c, k : IsPart(h2, live, c, k) <=> IsPart(hdr, live, c, k)
      /\ \A c \in Compounds(hdr, live) : h2[c] = hdr[c]
      /\ \A k \in Given(hdr, blocks, live, Freed) : h2[k] = hdr[k] /\ h2[hdr[k].base] = hdr[hdr[k].base]
  <2>1. Returns(hdr, blocks, live, q, h2, b2)
    BY <1>2, <1>3, <1>4 DEF Returns
  <2> QED BY ONLY <1>1, <2>1, BlockReturned
<1>6. h2 \in [Page -> HeaderType]
  BY <1>1, <1>3, NoHeaderTyped
<1>7. Grown(hdr, live, Freed, h2, live)
  <2>1. ASSUME NEW c \in Compounds(hdr, live) PROVE HeapKept(hdr, live, h2, live, c)
    <3>1. c \in live /\ h2[c] = hdr[c]
      BY <1>5 DEF Compounds
    <3> QED BY <3>1, <1>1, KeptWhenSame
  <2>2. Freed \subseteq Given(hdr, blocks, live, Freed)
    BY DEF Given
  <2> QED BY <2>1, <2>2, <1>5 DEF Grown, HeapOf
<1>8. PartsKept(hdr, live, h2, p)
  <2>1. ASSUME NEW c, NEW k, IsPart(hdr, live, c, k) PROVE h2[k] = hdr[k]
    <3>1. k \in Page /\ hdr[k].kind = "compound"
      BY <2>1, <1>1, PartFacts
    <3> QED BY <3>1, <1>1, <1>2, <1>3
  <2> QED BY <2>1 DEF PartsKept
<1> QED BY <1>3, <1>4, <1>5, <1>6, <1>7, <1>8 DEF Effect

(* It gives the block back, and takes one again, or ends.                  *)
LEMMA GiveBlockCall ==
  ASSUME MemInv, BlocksInv, NEW t \in Thread, GiveBlock(t)
  PROVE  MemInv'
<1>1. PICK p : p = call[t].heap
  OBVIOUS
<1>2. PICK q : q = call[t].page
  OBVIOUS
<1>3. /\ pc[t] = "back" /\ owned' = owned /\ use' = use /\ live' = live
      /\ hdr' = [hdr EXCEPT ![q] = NoHeader] /\ blocks' = [blocks EXCEPT ![q] = 0]
      /\ Finish(t) \/ (Goto(t, "grow") /\ call' = [call EXCEPT ![t].page = NoPage])
  BY <1>2 DEF GiveBlock, ExpandDone, Done
<1>4. p \in Heaps /\ IsExpanding(p) /\ pc[t] \notin FreeingPlaces /\ pc[t] \in Growing /\ "grow" \in Growing
  BY <1>1, <1>3, GrowingCall DEF Growing
<1>5. Loose(q)
  BY <1>2, <1>3 DEF BlocksInv, HandGood, InHand
<1>6. Effect(hdr, blocks, live, owned, Freed, hdr', blocks', live', p)
  BY ONLY <1>3, <1>5, HandEffect, MemInv
<1>7. CASE Finish(t)
  BY ONLY <1>3, <1>4, <1>6, <1>7, EffectEnds, MemInv, t \in Thread
<1>8. CASE Goto(t, "grow") /\ call' = [call EXCEPT ![t].page = NoPage]
  <2>1. NoPage \in 0..NumPages
    BY PageIs
  <2> QED BY ONLY <1>1, <1>3, <1>4, <1>6, <1>8, <2>1, GrowingStep, MemInv, t \in Thread
<1> QED BY <1>3, <1>7, <1>8

(* Pages are headers of their own, and know their part. *)
LEMMA PageHeap ==
  ASSUME MemInv, NEW q \in Pages \cup Heaps, NEW r, r = BaseOf(FindHeader(Address(q)))
  PROVE  /\ q \in Page /\ FirstOf(r) \in Heaps /\ IsPart(hdr, live, FirstOf(r), r)
         /\ q \in Pages => /\ r = hdr[q].base /\ FirstOf(r) = hdr[r].base /\ Inside(hdr, r, q)
                           /\ q \in live /\ blocks[q] = 0 /\ r = BaseOf(q)
<1>0. MemGood(hdr, blocks, live, owned, Freed) /\ live \in SUBSET Page
  BY MemTyped DEF MemInv
<1>1. q \in Page /\ q \in live /\ hdr[q].kind # "none"
  <2>1. q \in live /\ hdr[q].kind # "none"
    BY DEF Pages, Heaps
  <2> QED BY <1>0, <2>1
<1>2. r = BaseOf(q)
  BY <1>1, FindPage
<1>3. ASSUME NEW k, NEW c, IsPart(hdr, live, c, k) PROVE FirstOf(k) = hdr[k].base /\ hdr[k].base = c /\ c \in Heaps
  <2>1. /\ hdr[k].base = c /\ c \in Page /\ k \in Page /\ c \in live /\ hdr[c].base = c /\ c \in Heaps
    BY <1>0, <1>3, PartFacts, CompoundsAre
  <2>2. c # NoPage
    BY <2>1, PageIs
  <2>3. CASE IsExpanding(k)
    <3>1. k = c
      <4>1. PartGood(hdr, blocks, live, Freed, c, k)
        BY <1>0, <1>3, PartFacts
      <4> QED BY <2>3, <4>1 DEF PartGood, IsExpanding
    <3> QED BY <2>1, <2>3, <3>1 DEF FirstOf
  <2>4. CASE ~ IsExpanding(k)
    BY <2>1, <2>2, <2>4 DEF FirstOf, BaseOf
  <2> QED BY <2>1, <2>3, <2>4
<1>4. CASE q \in Heaps
  <2>1. IsPart(hdr, live, q, q) /\ hdr[q].base = q
    BY <1>4, HeapIsPage
  <2>2. r = q
    BY <1>2, <2>1 DEF BaseOf
  <2>3. q \notin Pages
    BY <1>4 DEF Pages, Heaps
  <2> QED BY <1>1, <1>3, <2>1, <2>2, <2>3
<1>5. CASE q \in Pages
  <2>1. q \in Given(hdr, blocks, live, Freed) /\ blocks[q] = 0
    BY <1>5 DEF Pages, Given
  <2>2. /\ hdr[q].base \in Page /\ IsPart(hdr, live, hdr[hdr[q].base].base, hdr[q].base) /\ Inside(hdr, hdr[q].base, q)
    BY <1>0, <2>1, GivenFacts
  <2>3. hdr[q].base # q /\ hdr[q].base # NoPage
    BY <2>2, <1>1, PageIs DEF Inside
  <2>4. r = hdr[q].base
    BY <1>2, <2>3 DEF BaseOf
  <2> QED BY <1>1, <1>2, <1>3, <2>1, <2>2, <2>4
<1> QED BY <1>4, <1>5

(* A near allocate begins.                                                 *)
LEMMA NearAllocCall ==
  ASSUME MemInv, NEW t, NEW q \in Pages \cup Heaps, NEW kind \in {"heap", "queue"}, NearAllocPage(t, q, kind)
  PROVE  MemInv'
<1>0. PICK r : r = BaseOf(FindHeader(Address(q)))
  OBVIOUS
<1>1. PICK c : c = [NoCall EXCEPT !.heap = FirstOf(r), !.near = r, !.kind = kind]
  OBVIOUS
<1>2. /\ t \in use.threads /\ use' = use /\ AtRest(t) /\ t \in Thread /\ "nearalloc" \in use.ops
      /\ pc' = [pc EXCEPT ![t] = "near"] /\ call' = [call EXCEPT ![t] = c]
      /\ hdr' = hdr /\ blocks' = blocks /\ live' = live /\ owned' = owned
  BY <1>0, <1>1, UseFacts DEF NearAllocPage, Call, Goto, MemInv
<1>3. FirstOf(r) \in Heaps /\ IsPart(hdr, live, FirstOf(r), r)
  BY <1>0, PageHeap
<1>4. r \in 0..NumPages /\ FirstOf(r) \in 0..NumPages /\ r # NoPage
  BY <1>3, HeapIsPage, PageIs
<1>5. c \in CallType
  BY ONLY <1>1, <1>4, kind \in {"heap", "queue"}, NoCallTyped DEF CallType
<1>6. c.heap = FirstOf(r) /\ c.near = r /\ c.kind = kind
  BY ONLY <1>1 DEF NoCall
<1>7. Moves(t, "near", c)
  BY <1>2, <1>5 DEF Moves, Place, Looking, Growing
<1>8. CallAt(t, "near", c)
  BY ONLY <1>2, <1>3, <1>4, <1>6 DEF CallAt, Looking, Growing
<1>9. CallGood(t)'
  BY ONLY <1>2, <1>7, <1>8, CallGetsTo, MemInv
<1>10. pc[t] \notin FreeingPlaces /\ "near" \notin FreeingPlaces
  BY <1>2 DEF FreeingPlaces, AtRest
<1> QED BY ONLY <1>2, <1>7, <1>9, <1>10, CallOnly, MemInv

(* It gets the lock of the part, and may go on as an allocate.             *)
LEMMA LockNearCall ==
  ASSUME MemInv, NEW t \in Thread, LockNear(t)
  PROVE  MemInv'
<1>1. PICK p : p = call[t].near
  OBVIOUS
<1>2. /\ pc[t] = "near" /\ blocks' = blocks /\ owned' = owned /\ use' = use
      /\ \/ AllocInternal(hdr, p, call[t].kind) /\ Finish(t)
         \/ Goto(t, "first") /\ call' = [call EXCEPT ![t].kind = "heap"] /\ hdr' = hdr /\ live' = live
  BY <1>1 DEF LockNear
<1>3. CallAt(t, "near", call[t])
  BY <1>2, CallIsAt DEF MemInv, AtRest
<1>4. PICK k : k = call[t].heap /\ IsPart(hdr, live, k, p) /\ k \in Heaps
  BY <1>1, <1>3 DEF CallAt, Looking, Growing
<1>5. pc[t] \notin FreeingPlaces
  BY <1>2 DEF FreeingPlaces
<1>6. CASE AllocInternal(hdr, p, call[t].kind) /\ Finish(t)
  <2>1. call[t].kind \in {"heap", "queue"}
    BY CallTyped
  <2> QED BY ONLY <1>2, <1>4, <1>5, <1>6, <2>1, AllocEnds, MemInv, t \in Thread
<1>7. CASE Goto(t, "first") /\ call' = [call EXCEPT ![t].kind = "heap"] /\ hdr' = hdr /\ live' = live
  <2>1. PICK c : c = [call[t] EXCEPT !.kind = "heap"]
    OBVIOUS
  <2>2. c \in CallType /\ c.heap = call[t].heap /\ c.near = call[t].near
    BY <2>1, CallTyped DEF CallType
  <2>3. pc' = [pc EXCEPT ![t] = "first"] /\ call' = [call EXCEPT ![t] = c]
    BY <1>7, <2>1, CallTyped DEF Goto
  <2>4. Moves(t, "first", c)
    BY <1>2, <2>2, <2>3 DEF Moves, Place, Looking, Growing
  <2>5. CallAt(t, "first", c)
    BY ONLY <1>3, <2>2 DEF CallAt, Looking, Growing
  <2>6. CallGood(t)'
    BY ONLY <1>7, <2>4, <2>5, CallGetsTo, MemInv
  <2>7. "first" \notin FreeingPlaces
    BY DEF FreeingPlaces
  <2> QED BY ONLY <1>2, <1>5, <1>7, <2>4, <2>6, <2>7, CallOnly, MemInv
<1> QED BY <1>2, <1>6, <1>7

(* The list of the parts has one part at least.                            *)
LEMMA PartsLength ==
  ASSUME MemInv, NEW p \in Heaps
  PROVE  /\ Len(Parts(hdr, p)) \in Nat /\ Len(Parts(hdr, p)) >= 1 /\ DOMAIN Parts(hdr, p) = 1..Len(Parts(hdr, p))
         /\ \A i \in 1..Len(Parts(hdr, p)) : IsPart(hdr, live, p, Parts(hdr, p)[i])
         /\ Len(Parts(hdr, p)) > 1 => IsExpanding(p) /\ Parts(hdr, p) = hdr[p].expand
         /\ Parts(hdr, p)[1] = p
<1>1. CASE IsExpanding(p)
  <2>1. hdr[p].expand \in Seq(Page)
    BY MemTyped, HeaderIs, HeapIsPage DEF MemInv
  <2> QED BY <1>1, <2>1, LastIsPart
<1>2. CASE ~ IsExpanding(p)
  <2>1. Parts(hdr, p) = <<p>>
    BY <1>2 DEF Parts, IsExpanding
  <2>2. IsPart(hdr, live, p, p)
    BY HeapIsPage
  <2> QED BY <2>1, <2>2
<1> QED BY <1>1, <1>2

(* SASCompoundHeapFreeSpace begins.                                        *)
LEMMA FreeSpaceCall ==
  ASSUME MemInv, NEW t, NEW p \in Heaps, FreeSpace(t, p)
  PROVE  MemInv'
<1>1. PICK c : c = [NoCall EXCEPT !.heap = p, !.i = 2]
  OBVIOUS
<1>2. /\ t \in use.threads /\ use' = use /\ AtRest(t) /\ t \in Thread
      /\ pc' = [pc EXCEPT ![t] = "sum"] /\ call' = [call EXCEPT ![t] = c]
      /\ hdr' = hdr /\ blocks' = blocks /\ live' = live /\ owned' = owned
  BY <1>1, UseFacts DEF FreeSpace, Call, Goto, MemInv
<1>3. p \in 0..NumPages
  BY HeapIsPage
<1>4. c \in CallType
  BY ONLY <1>1, <1>3, NoCallTyped DEF CallType
<1>5. c.heap = p /\ c.near = NoPage /\ c.i = 2
  BY ONLY <1>1 DEF NoCall
<1>6. Moves(t, "sum", c)
  BY <1>2, <1>4 DEF Moves, Place, Looking, Growing
<1>7. 2 <= Len(Parts(hdr, p)) + 1
  BY PartsLength
<1>8. CallAt(t, "sum", c)
  BY ONLY <1>2, <1>5, <1>7, p \in Heaps DEF CallAt, Looking, Growing
<1>9. CallGood(t)'
  BY ONLY <1>2, <1>6, <1>8, CallGetsTo, MemInv
<1>10. pc[t] \notin FreeingPlaces /\ "sum" \notin FreeingPlaces
  BY <1>2 DEF FreeingPlaces, AtRest
<1> QED BY ONLY <1>2, <1>6, <1>9, <1>10, CallOnly, MemInv

(* It gets the lock of the next part, and adds what is free there.         *)
LEMMA SumSpaceCall ==
  ASSUME MemInv, NEW t \in Thread, SumSpace(t)
  PROVE  MemInv'
<1>1. PICK p : p = call[t].heap
  OBVIOUS
<1>2. PICK i : i = call[t].i
  OBVIOUS
<1>3. /\ pc[t] = "sum" /\ hdr' = hdr /\ blocks' = blocks /\ live' = live /\ owned' = owned /\ use' = use
      /\ \/ i <= Len(Parts(hdr, p)) /\ call' = [call EXCEPT ![t].i = i + 1] /\ pc' = pc
         \/ Finish(t)
  BY <1>1, <1>2 DEF SumSpace
<1>4. CallAt(t, "sum", call[t])
  BY <1>3, CallIsAt DEF MemInv, AtRest
<1>5. p \in Heaps /\ i >= 2 /\ i \in Nat /\ Len(Parts(hdr, p)) \in Nat
  BY <1>1, <1>2, <1>4, CallTyped, PartsLength DEF CallAt, Looking, Growing
<1>6. pc[t] \notin FreeingPlaces
  BY <1>3 DEF FreeingPlaces
<1>7. CASE i <= Len(Parts(hdr, p)) /\ call' = [call EXCEPT ![t].i = i + 1] /\ pc' = pc
  <2>1. PICK c : c = [call[t] EXCEPT !.i = i + 1]
    OBVIOUS
  <2>2. i + 1 \in Nat /\ i + 1 >= 2 /\ i + 1 <= Len(Parts(hdr, p)) + 1
    BY <1>5, <1>7
  <2>3. c \in CallType /\ c.heap = p /\ c.near = call[t].near /\ c.i = i + 1
    BY <1>1, <2>1, <2>2, CallTyped DEF CallType
  <2>4. pc' = [pc EXCEPT ![t] = "sum"] /\ call' = [call EXCEPT ![t] = c]
    BY <1>3, <1>7, <2>1, CallTyped
  <2>5. Moves(t, "sum", c)
    BY <1>3, <2>3, <2>4 DEF Moves, Place, Looking, Growing
  <2>6. CallAt(t, "sum", c)
    BY ONLY <1>1, <1>4, <2>2, <2>3 DEF CallAt, Looking, Growing
  <2>7. CallGood(t)'
    BY ONLY <1>3, <2>5, <2>6, CallGetsTo, MemInv
  <2>8. "sum" \notin FreeingPlaces
    BY DEF FreeingPlaces
  <2> QED BY ONLY <1>3, <1>6, <2>5, <2>7, <2>8, CallOnly, MemInv
<1>8. CASE Finish(t)
  <2>1. Moves(t, "idle", NoCall) /\ CallGood(t)'
    BY ONLY <1>3, <1>8, FinishMoves, MemInv, t \in Thread
  <2>2. "idle" \notin FreeingPlaces
    BY DEF FreeingPlaces
  <2> QED BY ONLY <1>3, <1>6, <2>1, <2>2, CallOnly, MemInv
<1> QED BY <1>3, <1>7, <1>8

(* The calls that only look.                                               *)
LEMMA AdviseCall ==
  ASSUME MemInv, NEW t, NEW p, Advise(t, p)
  PROVE  MemInv'
<1>1. use' = use /\ pc' = pc /\ call' = call /\ blocks' = blocks /\ live' = live /\ hdr' = hdr /\ owned' = owned
  BY DEF Advise, Call
<1> QED BY ONLY <1>1, NothingMoves, MemInv

(* A free gets the lock of the heap.                                       *)
LEMMA FreeLockFirstCall ==
  ASSUME MemInv, NEW t \in Thread, FreeLockFirst(t)
  PROVE  MemInv'
<1>1. /\ pc[t] = "freefirst" /\ blocks' = blocks /\ owned' = owned /\ use' = use /\ hdr' = hdr /\ live' = live
      /\ pc' = [pc EXCEPT ![t] = "freescan"] /\ call' = call
  BY DEF FreeLockFirst, Goto
<1>2. PICK c : c = call[t]
  OBVIOUS
<1>3. CallAt(t, "freefirst", c)
  BY <1>1, <1>2, CallIsAt DEF MemInv, AtRest
<1>4. c \in CallType /\ call \in [Thread -> CallType]
  BY <1>2, CallTyped
<1>5. call' = [call EXCEPT ![t] = c]
  BY <1>1, <1>2, <1>4
<1>6. Moves(t, "freescan", c)
  BY <1>1, <1>4, <1>5 DEF Moves, Place, Looking, Growing
<1>7. c.i \in DOMAIN Parts(hdr, c.heap)
  BY <1>3, PartsLength DEF CallAt, Looking, Growing
<1>8. CallAt(t, "freescan", c)
  BY ONLY <1>3, <1>7 DEF CallAt, Looking, Growing
<1>9. CallGood(t)'
  BY ONLY <1>1, <1>6, <1>8, CallGetsTo, MemInv
<1>10. pc[t] \in FreeingPlaces /\ "freescan" \in FreeingPlaces
  BY <1>1 DEF FreeingPlaces
<1> QED BY ONLY <1>1, <1>2, <1>6, <1>9, <1>10, CallOnly, MemInv

(* A page that is let go of, and one that comes back, leave the rest.      *)
LEMMA LetGrown ==
  ASSUME NEW h, NEW b, NEW lv, NEW ow, NEW fr, MemGood(h, b, lv, ow, fr), NEW q \in lv, b[q] = 0
  PROVE  Grown(h, lv, fr, h, lv \ {q})
<1>0. h \in [Page -> HeaderType] /\ lv \in SUBSET Page
  BY MemTyped
<1>1. Compounds(h, lv \ {q}) = Compounds(h, lv)
  BY PageLet
<1>2. ASSUME NEW c \in Compounds(h, lv) PROVE HeapKept(h, lv, h, lv \ {q}, c)
  <2>1. c \in lv \ {q}
    BY <1>1, <1>2 DEF Compounds
  <2> QED BY <1>0, <2>1, KeptWhenSame
<1> QED BY <1>2 DEF Grown

BackAgain(h, b, lv, ow, fr, q, r, h2) ==
  /\ Grown(h, lv, fr \ {q}, h2, lv) /\ MemGood(h2, b, lv, ow, fr \ {q}) /\ h2 \in [Page -> HeaderType]
  /\ \A k \in Page : h2[k].expand \in {h[k].expand, <<>>}
  /\ \A k \in Page : k # q => h2[k].expand = h[k].expand /\ h2[k].size = h[k].size
  /\ q \notin lv /\ \A c, k : IsPart(h, lv, c, k) => k # q
  /\ \A k \in Page : k # q /\ k # r => h2[k] = h[k]

(* A page goes back; heaps only grow.                                      *)
LEMMA BackGrown ==
  ASSUME NEW h, NEW b, NEW lv, NEW ow, NEW fr, MemGood(h, b, lv, ow, fr),
         NEW q \in fr, NEW r, r = h[q].base, NEW h2, PageReturned(h, q, r, h2)
  PROVE  BackAgain(h, b, lv, ow, fr, q, r, h2)
<1>00. h2 = [h EXCEPT ![q] = NoHeader, ![r].list = DeallocSpace(@, Address(q), PageSize)]
  BY DEF PageReturned
<1>0. h \in [Page -> HeaderType] /\ lv \in SUBSET Page /\ fr \in SUBSET Page /\ q \in Page
  BY MemTyped
<1>1. /\ h2 \in [Page -> HeaderType] /\ MemGood(h2, b, lv, ow, fr \ {q}) /\ q \notin lv
      /\ \A k \in Page : k # q => h2[k] = [h[k] EXCEPT !.list = h2[k].list]
      /\ h2[q] = NoHeader
  <2>1. PageCame(h, b, lv, ow, fr, q, h2)
    BY ONLY PageReturned(h, q, r, h2), PageBack, MemGood(h, b, lv, ow, fr), q \in fr, r = h[q].base
  <2> QED BY ONLY <2>1 DEF PageCame
<1>2. ASSUME NEW k \in Page, k # q
      PROVE  h2[k].kind = h[k].kind /\ h2[k].base = h[k].base /\ h2[k].expand = h[k].expand /\ h2[k].size = h[k].size
  <2>1. h[k] \in HeaderType /\ h2[k] = [h[k] EXCEPT !.list = h2[k].list]
    BY <1>0, <1>1, <1>2
  <2> QED BY ONLY <2>1 DEF HeaderType
<1>3. \A c, k : IsPart(h, lv, c, k) => k # q
  <2>1. q \in Given(h, b, lv, fr)
    BY DEF Given
  <2>2. b[q] = 0
    BY <2>1, GivenFacts
  <2>3. \A c, k : IsPart(h, lv, c, k) => b[k] > 0
    BY PartFacts
  <2> QED BY <2>2, <2>3
<1>4. Grown(h, lv, fr \ {q}, h2, lv)
  <2>1. ASSUME NEW c \in Compounds(h, lv) PROVE HeapKept(h, lv, h2, lv, c)
    <3>1. c \in lv /\ c \in Page /\ c # q
      BY <1>0, <1>1 DEF Compounds
    <3> QED BY <3>1, <1>0, <1>2, KeptWhenSame
  <2>2. ASSUME NEW k \in fr \ {q} PROVE HeapOf(h2, k) = HeapOf(h, k)
    <3>1. k \in Given(h, b, lv, fr) /\ k \in Page
      BY <1>0 DEF Given
    <3>2. IsPart(h, lv, h[h[k].base].base, h[k].base) /\ h[k].base \in Page
      BY <3>1, GivenFacts
    <3>3. h[k].base # q
      BY <1>3, <3>2
    <3> QED BY <3>1, <3>2, <3>3, <1>2 DEF HeapOf
  <2> QED BY <2>1, <2>2 DEF Grown
<1>5. NoHeader.expand = <<>>
  BY DEF NoHeader, Header
<1>6. r \in Page
  <2>1. q \in Given(h, b, lv, fr)
    BY DEF Given
  <2> QED BY <2>1, GivenFacts
<1>7. \A k \in Page : k # q /\ k # r => h2[k] = h[k]
  BY <1>00, <1>0, <1>6
<1> QED BY <1>1, <1>2, <1>3, <1>4, <1>5, <1>7 DEF BackAgain

(* What a page that is given up at once leaves of the other facts. *)
LEMMA DeallocStep ==
  ASSUME MemInv, use' = use, pc' = pc, call' = call, blocks' = blocks,
         NEW q \in Pages, FreeInternal(hdr[q].base, q), GiveUp(q)
  PROVE  MemInv'
<1>0. /\ MemGood(hdr, blocks, live, owned, Freed) /\ q \in live /\ blocks[q] = 0
      /\ hdr \in [Page -> HeaderType] /\ live \in SUBSET Page /\ q \in Page
  BY MemTyped DEF MemInv, Pages
<1>1. PICK lv : lv = live \ {q}
  OBVIOUS
<1>2. PICK ow : ow = owned \ In(hdr, owned, q)
  OBVIOUS
<1>3. live' = lv /\ owned' = ow
  BY <1>1, <1>2, PiecesInIs DEF GiveUp
<1>4. PICK fr : fr = Freed \cup {q}
  OBVIOUS
<1>5. MemGood(hdr, blocks, lv, ow, fr) /\ q \notin Freed
  <2>1. MemGood(hdr, blocks, live \ {q}, owned \ In(hdr, owned, q), Freed \cup {q}) /\ q \notin Freed
    BY ONLY <1>0, PageLet
  <2> QED BY ONLY <1>1, <1>2, <1>4, <2>1
<1>6. Grown(hdr, live, Freed, hdr, lv)
  BY ONLY <1>0, <1>1, LetGrown
<1>7. PICK r : r = hdr[q].base
  OBVIOUS
<1>8. PageReturned(hdr, q, r, hdr')
  BY ONLY <1>7, FreeInternal(hdr[q].base, q) DEF FreeInternal, PageReturned
<1>9. q \in fr /\ fr \ {q} = Freed
  BY <1>4, <1>5
<1>10. /\ Grown(hdr, lv, fr \ {q}, hdr', lv) /\ MemGood(hdr', blocks, lv, ow, fr \ {q}) /\ hdr' \in [Page -> HeaderType]
       /\ \A k \in Page : hdr'[k].expand \in {hdr[k].expand, <<>>}
  <2>1. BackAgain(hdr, blocks, lv, ow, fr, q, r, hdr')
    BY ONLY <1>5, <1>7, <1>8, <1>9, BackGrown
  <2> QED BY ONLY <2>1 DEF BackAgain
<1>11. Grown(hdr, live, Freed, hdr', lv)
  BY ONLY <1>0, <1>6, <1>9, <1>10, GrownTwice
<1>12. MemGood(hdr', blocks', live', owned', Freed)
  BY <1>3, <1>9, <1>10
<1>13. "near" \notin use.ops
  BY NoCompound
<1>14. NearInv' /\ ExpandInv'
  BY <1>10, <1>13 DEF NearInv, ExpandInv, MemInv
<1>15. \A u \in Thread : /\ ~ AtRest(u) => HeapKept(hdr, live, hdr', live', call[u].heap)
                         /\ Frees(u) => HeapOf(hdr', call[u].page) = HeapOf(hdr, call[u].page)
  BY <1>3, <1>11, GrownKeeps
<1>16. /\ \A u \in Thread : ~ AtRest(u) => HeapKept(hdr, live, hdr', live', call[u].heap)
       /\ \A u \in Thread : Frees(u) => HeapOf(hdr', call[u].page) = HeapOf(hdr, call[u].page)
  BY ONLY <1>15
<1>17. MemInv /\ use' = use /\ pc' = pc /\ call' = call
  OBVIOUS
<1> QED BY ONLY <1>12, <1>14, <1>16, <1>17, RestStep

(* The near free of a page.                                                *)
LEMMA NearDeallocCall ==
  ASSUME MemInv, NEW t, NEW q \in Pages, NearDeallocPage(t, q)
  PROVE  MemInv'
<1>1. PICK r : r = BaseOf(FindHeader(Address(q)))
  OBVIOUS
<1>2. /\ use' = use /\ pc' = pc /\ call' = call /\ blocks' = blocks
      /\ FreeInternal(r, q) /\ GiveUp(q)
  BY <1>1 DEF NearDeallocPage, Call
<1>3. r = hdr[q].base
  BY <1>1, PageHeap
<1>4. FreeInternal(hdr[q].base, q)
  BY <1>2, <1>3
<1> QED BY ONLY <1>2, <1>4, DeallocStep, MemInv, q \in Pages

(* A free begins: the program has the page no longer.                      *)
LEMMA FreePageCall ==
  ASSUME MemInv, NEW t, NEW q \in Pages, FreePage(t, q)
  PROVE  MemInv'
<1>0. /\ MemGood(hdr, blocks, live, owned, Freed) /\ q \in live /\ blocks[q] = 0
      /\ hdr \in [Page -> HeaderType] /\ live \in SUBSET Page /\ q \in Page
  BY MemTyped DEF MemInv, Pages
<1>1. PICK p : p = FirstOf(BaseOf(q))
  OBVIOUS
<1>2. PICK c : c = [NoCall EXCEPT !.heap = p, !.page = q, !.i = 1]
  OBVIOUS
<1>3. PICK lv : lv = live \ {q}
  OBVIOUS
<1>4. PICK ow : ow = owned \ In(hdr, owned, q)
  OBVIOUS
<1>5. PICK fr : fr = Freed \cup {q}
  OBVIOUS
<1>6. /\ t \in use.threads /\ use' = use /\ AtRest(t) /\ t \in Thread /\ "free" \in use.ops
      /\ pc' = [pc EXCEPT ![t] = "freefirst"] /\ call' = [call EXCEPT ![t] = c]
      /\ hdr' = hdr /\ blocks' = blocks /\ live' = lv /\ owned' = ow
  BY <1>1, <1>2, <1>3, <1>4, UseFacts, PiecesInIs DEF FreePage, Call, Goto, GiveUp, MemInv
<1>7. MemGood(hdr, blocks, lv, ow, fr) /\ q \notin Freed /\ Compounds(hdr, lv) = Compounds(hdr, live)
  <2>1. /\ MemGood(hdr, blocks, live \ {q}, owned \ In(hdr, owned, q), Freed \cup {q}) /\ q \notin Freed
        /\ Compounds(hdr, live \ {q}) = Compounds(hdr, live)
    BY ONLY <1>0, PageLet
  <2> QED BY ONLY <1>3, <1>4, <1>5, <2>1
<1>8. Grown(hdr, live, Freed, hdr, lv)
  BY ONLY <1>0, <1>3, LetGrown
<1>9. p \in Heaps /\ p = hdr[hdr[q].base].base /\ p \in 0..NumPages /\ q \in 0..NumPages
  <2>1. PICK r : r = BaseOf(FindHeader(Address(q)))
    OBVIOUS
  <2>2. FirstOf(r) \in Heaps /\ r = hdr[q].base /\ FirstOf(r) = hdr[r].base /\ r = BaseOf(q)
    BY <2>1, PageHeap
  <2> QED BY <1>0, <1>1, <2>2, HeapIsPage, PageIs
<1>10. c \in CallType
  BY ONLY <1>2, <1>9, NoCallTyped DEF CallType
<1>11. c.heap = p /\ c.near = NoPage /\ c.page = q /\ c.i = 1
  BY ONLY <1>2 DEF NoCall
<1>12. Moves(t, "freefirst", c)
  BY <1>6, <1>10 DEF Moves, Place, Looking, Growing
<1>13. /\ StateType' /\ pc'[t] = "freefirst" /\ call'[t] = c
       /\ \A u \in Thread : u # t => pc'[u] = pc[u] /\ call'[u] = call[u]
  BY <1>12, MovesTo DEF MemInv
<1>14. Freed' = fr
  <2>1. \A k : k \in Freed' <=> \E u \in Thread : pc'[u] \in {"freefirst", "freescan"} /\ k = call'[u].page
    BY DEF Freed
  <2>2. \A k : k \in Freed <=> \E u \in Thread : pc[u] \in {"freefirst", "freescan"} /\ k = call[u].page
    BY DEF Freed
  <2>3. pc[t] \notin {"freefirst", "freescan"}
    BY <1>6 DEF AtRest
  <2> QED BY <1>5, <1>6, <1>11, <1>13, <2>1, <2>2, <2>3
<1>15. FreesApart'
  <2>1. FreesApart
    BY DEF MemInv
  <2>2. \A u \in Thread : Frees(u) => call[u].page \in Freed
    BY FreedMembers
  <2> QED BY <1>7, <1>11, <1>13, <2>1, <2>2 DEF FreesApart, Frees
<1>16. Heaps' = Heaps
  <2>1. \A k : k \in Compounds(hdr, lv) <=> k \in Compounds(hdr, live)
    BY <1>7
  <2> QED BY <1>6, <2>1 DEF Heaps, Compounds
<1>17. CallGood(t)'
  <2>1. /\ hdr'[hdr'[c.page].base].base = c.heap /\ c.heap \in Heaps' /\ c.page \in Page
        /\ "free" \in use'.ops /\ t \in use'.threads
    BY <1>0, <1>6, <1>9, <1>11, <1>16
  <2> QED BY ONLY <2>1, <1>11, <1>13 DEF CallGood, Looking, Growing
<1>18. MemGood(hdr', blocks', live', owned', Freed')
  BY <1>6, <1>7, <1>14
<1>19. \A u \in Thread : /\ ~ AtRest(u) => HeapKept(hdr, live, hdr', live', call[u].heap)
                         /\ Frees(u) => HeapOf(hdr', call[u].page) = HeapOf(hdr, call[u].page)
  BY <1>6, <1>8, GrownKeeps
<1>20. /\ \A u \in Thread : u # t /\ ~ AtRest(u) => HeapKept(hdr, live, hdr', live', call[u].heap)
       /\ \A u \in Thread : u # t /\ Frees(u) => HeapOf(hdr', call[u].page) = HeapOf(hdr, call[u].page)
  BY ONLY <1>19
<1>21. NearInv' /\ ExpandInv'
  BY <1>6 DEF MemInv, NearInv, ExpandInv
<1> QED BY ONLY <1>12, <1>15, <1>17, <1>18, <1>20, <1>21, CallStep, MemInv

(* The part that contains a page is the part that the page knows.          *)
LEMMA ContainsIs ==
  ASSUME MemInv, NEW k \in Given(hdr, blocks, live, Freed), NEW p, NEW r, IsPart(hdr, live, p, r), Contains(r, k)
  PROVE  r = hdr[k].base
<1>0. MemGood(hdr, blocks, live, owned, Freed)
  BY DEF MemInv
<1>1. r \in Nat /\ k \in Nat
  BY <1>0, PartFacts, GivenFacts, PageIs
<1>2. r <= k /\ k < r + hdr[r].size
  BY <1>1 DEF Contains
<1> QED BY ONLY <1>0, <1>2, GivenBase, k \in Given(hdr, blocks, live, Freed), IsPart(hdr, live, p, r)

(* A free looks at the next part, and puts the page back into its own.     *)
LEMMA FreeScanCall ==
  ASSUME MemInv, NEW t \in Thread, FreeScan(t)
  PROVE  MemInv'
<1>0. MemGood(hdr, blocks, live, owned, Freed)
  BY DEF MemInv
<1>1. PICK p : p = call[t].heap
  OBVIOUS
<1>2. PICK i : i = call[t].i
  OBVIOUS
<1>3. PICK r : r = Parts(hdr, p)[i]
  OBVIOUS
<1>4. PICK q : q = call[t].page
  OBVIOUS
<1>5. /\ pc[t] = "freescan" /\ blocks' = blocks /\ live' = live /\ owned' = owned /\ use' = use
      /\ \/ Contains(r, q) /\ FreeInternal(r, q) /\ Finish(t)
         \/ i < Len(Parts(hdr, p)) /\ call' = [call EXCEPT ![t].i = i + 1] /\ hdr' = hdr /\ pc' = pc
  BY <1>1, <1>2, <1>3, <1>4 DEF FreeScan
<1>6. CallAt(t, "freescan", call[t])
  BY <1>5, CallIsAt DEF MemInv, AtRest
<1>7. p \in Heaps /\ i \in DOMAIN Parts(hdr, p) /\ i \in Nat /\ IsPart(hdr, live, p, r) /\ Len(Parts(hdr, p)) \in Nat
  BY <1>1, <1>2, <1>3, <1>6, CallTyped, PartsLength DEF CallAt, Looking, Growing
<1>8. pc[t] \in FreeingPlaces
  BY <1>5 DEF FreeingPlaces
<1>9. q \in Freed /\ q \in Given(hdr, blocks, live, Freed)
  <2>1. q \in Freed
    BY <1>4, <1>5 DEF Freed
  <2> QED BY <2>1 DEF Given
<1>10. CASE Contains(r, q) /\ FreeInternal(r, q) /\ Finish(t)
  <2>1. r = hdr[q].base
    BY <1>7, <1>9, <1>10, ContainsIs
  <2>2. PageReturned(hdr, q, r, hdr')
    BY ONLY <1>10 DEF FreeInternal, PageReturned
  <2>3. BackAgain(hdr, blocks, live, owned, Freed, q, r, hdr')
    BY ONLY <1>0, <1>9, <2>1, <2>2, BackGrown
  <2>4. Moves(t, "idle", NoCall) /\ CallGood(t)'
    BY ONLY <1>5, <1>10, FinishMoves, MemInv, t \in Thread
  <2>5. /\ pc'[t] = "idle" /\ \A u \in Thread : u # t => pc'[u] = pc[u] /\ call'[u] = call[u]
    BY <2>4, MovesTo DEF MemInv
  <2>6. Freed' = Freed \ {q} /\ FreesApart'
    <3>1. FreesApart
      BY DEF MemInv
    <3>2. \A k : k \in Freed' <=> \E u \in Thread : pc'[u] \in {"freefirst", "freescan"} /\ k = call'[u].page
      BY DEF Freed
    <3>3. \A k : k \in Freed <=> \E u \in Thread : pc[u] \in {"freefirst", "freescan"} /\ k = call[u].page
      BY DEF Freed
    <3>4. \A u \in Thread : u # t /\ pc[u] \in {"freefirst", "freescan"} => call[u].page # q
      BY <3>1, <1>4, <1>5 DEF FreesApart, Frees
    <3>5. Freed' = Freed \ {q}
      <4>1. \A k : k \in Freed' => k \in Freed /\ k # q
        BY <2>5, <3>2, <3>3, <3>4
      <4>2. \A k : k \in Freed /\ k # q => k \in Freed'
        BY <1>4, <2>5, <3>2, <3>3
      <4> QED BY <4>1, <4>2
    <3>6. FreesApart'
      BY <3>1, <2>5 DEF FreesApart, Frees
    <3> QED BY <3>5, <3>6
  <2>7. MemGood(hdr', blocks', live', owned', Freed')
    BY <1>5, <2>3, <2>6 DEF BackAgain
  <2>8. ASSUME NEW u \in Thread, u # t
        PROVE  /\ ~ AtRest(u) => HeapKept(hdr, live, hdr', live', call[u].heap)
               /\ Frees(u) => HeapOf(hdr', call[u].page) = HeapOf(hdr, call[u].page)
    <3>1. Grown(hdr, live, Freed \ {q}, hdr', live')
      BY <1>5, <2>3 DEF BackAgain
    <3>2. ~ AtRest(u) => call[u].heap \in Compounds(hdr, live)
      BY CompoundsAre DEF MemInv, CallGood
    <3>3. Frees(u) => call[u].page \in Freed \ {q}
      <4>1. FreesApart /\ Frees(t)
        BY <1>5 DEF MemInv, Frees
      <4>2. Frees(u) => call[u].page \in Freed
        BY FreedMembers
      <4> QED BY <4>1, <4>2, <2>8, <1>4 DEF FreesApart
    <3> QED BY <3>1, <3>2, <3>3 DEF Grown
  <2>9. /\ \A u \in Thread : u # t /\ ~ AtRest(u) => HeapKept(hdr, live, hdr', live', call[u].heap)
        /\ \A u \in Thread : u # t /\ Frees(u) => HeapOf(hdr', call[u].page) = HeapOf(hdr, call[u].page)
    BY ONLY <2>8
  <2>10. NearInv' /\ ExpandInv'
    <3>1. "near" \notin use.ops
      BY <1>7, NoCompound
    <3>2. \A k \in Page : hdr'[k].expand \in {hdr[k].expand, <<>>}
      BY <2>3 DEF BackAgain
    <3> QED BY <3>1, <3>2, <1>5 DEF NearInv, ExpandInv, MemInv
  <2> QED BY ONLY <2>4, <2>6, <2>7, <2>9, <2>10, CallStep, MemInv
<1>11. CASE i < Len(Parts(hdr, p)) /\ call' = [call EXCEPT ![t].i = i + 1] /\ hdr' = hdr /\ pc' = pc
  <2>1. PICK c : c = [call[t] EXCEPT !.i = i + 1]
    OBVIOUS
  <2>2. i + 1 \in Nat /\ i + 1 \in DOMAIN Parts(hdr, p) /\ i + 1 >= 1
    BY <1>7, <1>11, PartsLength
  <2>3. c \in CallType /\ c.heap = p /\ c.near = call[t].near /\ c.i = i + 1 /\ c.page = q
    BY <1>1, <1>4, <2>1, <2>2, CallTyped DEF CallType
  <2>4. pc' = [pc EXCEPT ![t] = "freescan"] /\ call' = [call EXCEPT ![t] = c]
    BY <1>5, <1>11, <2>1, CallTyped
  <2>5. Moves(t, "freescan", c)
    BY <1>5, <2>3, <2>4 DEF Moves, Place, Looking, Growing
  <2>6. CallAt(t, "freescan", c)
    BY ONLY <1>1, <1>4, <1>6, <2>2, <2>3 DEF CallAt, Looking, Growing
  <2>7. CallGood(t)'
    BY ONLY <1>5, <1>11, <2>5, <2>6, CallGetsTo, MemInv
  <2>8. "freescan" \in FreeingPlaces
    BY DEF FreeingPlaces
  <2> QED BY ONLY <1>4, <1>5, <1>8, <1>11, <2>3, <2>5, <2>7, <2>8, CallOnly, MemInv
<1> QED BY <1>5, <1>10, <1>11

(* The calls without locks. *)
LEMMA EffectRest ==
  ASSUME MemInv, use' = use, pc' = pc, call' = call, NEW p, NEW c \in Heaps,
         Effect(hdr, blocks, live, owned, Freed, hdr', blocks', live', p), owned' = owned,
         "expanding" \in use.ops \/ \A k \in Page : hdr'[k].expand \in {hdr[k].expand, <<>>}
  PROVE  MemInv'
<1>1. NearInv' /\ ExpandInv'
  BY EffectKeeps
<1>2. MemGood(hdr', blocks', live', owned', Freed) /\ Grown(hdr, live, Freed, hdr', live')
  BY DEF Effect
<1>3. \A u \in Thread : /\ ~ AtRest(u) => HeapKept(hdr, live, hdr', live', call[u].heap)
                        /\ Frees(u) => HeapOf(hdr', call[u].page) = HeapOf(hdr, call[u].page)
  BY ONLY <1>2, GrownKeeps, MemInv
<1>4. /\ \A u \in Thread : ~ AtRest(u) => HeapKept(hdr, live, hdr', live', call[u].heap)
      /\ \A u \in Thread : Frees(u) => HeapOf(hdr', call[u].page) = HeapOf(hdr, call[u].page)
  BY ONLY <1>3
<1> QED BY ONLY <1>1, <1>2, <1>4, RestStep, MemInv, use' = use, pc' = pc, call' = call

(* A page is given out by a thread at rest.                                *)
LEMMA AllocRest ==
  ASSUME MemInv, use' = use, pc' = pc, call' = call, owned' = owned, blocks' = blocks, NEW c, NEW p, IsPart(hdr, live, c, p),
         NEW kind \in {"heap", "queue"}, AllocInternal(hdr, p, kind)
  PROVE  MemInv'
<1>0. MemGood(hdr, blocks, live, owned, Freed) /\ hdr \in [Page -> HeaderType]
  BY MemTyped DEF MemInv
<1>1. Effect(hdr, blocks, live, owned, Freed, hdr', blocks, live', p)
  BY <1>0, PageEffect
<1>2. \A k \in Page : hdr'[k].expand \in {hdr[k].expand, <<>>}
  <2>1. \A k \in Page : hdr'[k].expand \in {hdr[k].expand, hdr[k].expand, <<>>}
    BY <1>0, PageMade
  <2> QED BY <2>1
<1>3. c \in Heaps
  BY HeapIsPage
<1>4. Effect(hdr, blocks, live, owned, Freed, hdr', blocks', live', p)
  BY <1>1
<1> QED BY ONLY <1>2, <1>3, <1>4, EffectRest, MemInv, use' = use, pc' = pc, call' = call, owned' = owned

(* An allocate without locks.                                              *)
LEMMA AllocNoLockStep ==
  ASSUME MemInv, use' = use, pc' = pc, call' = call, owned' = owned,
         NEW t, NEW p \in Heaps, NEW kind \in {"heap", "queue"}, AllocNoLock(t, p, kind)
  PROVE  MemInv'
<1>1. PICK n \in Nat : n = Len(Parts(hdr, p)) /\ n >= 1
  BY PartsLength
<1>2. PICK roomy : roomy = {i \in 1..n : ~ Loaded(Parts(hdr, p)[i])}
  OBVIOUS
<1>3. \/ ~ IsExpanding(p) /\ AllocInternal(hdr, p, kind) /\ blocks' = blocks
      \/ /\ roomy # {} /\ blocks' = blocks
         /\ AllocInternal(hdr, Parts(hdr, p)[IF n \in roomy THEN n ELSE CHOOSE i \in roomy : \A j \in roomy : i <= j], kind)
      \/ IsExpanding(p) /\ Expand(t, p, kind)
  BY <1>1, <1>2 DEF AllocNoLock
<1>4. CASE AllocInternal(hdr, p, kind) /\ blocks' = blocks
  <2>1. IsPart(hdr, live, p, p)
    BY HeapIsPage
  <2> QED BY <1>4, <2>1, AllocRest
<1>5. CASE /\ roomy # {} /\ blocks' = blocks
           /\ AllocInternal(hdr, Parts(hdr, p)[IF n \in roomy THEN n ELSE CHOOSE i \in roomy : \A j \in roomy : i <= j], kind)
  <2>1. PICK i : i = IF n \in roomy THEN n ELSE CHOOSE m \in roomy : \A j \in roomy : m <= j
    OBVIOUS
  <2>2. roomy \in SUBSET Nat /\ roomy \subseteq 1..n
    BY <1>2
  <2>3. \E k \in roomy : \A j \in roomy : k <= j
    BY ONLY <1>5, <2>2, LeastNatural
  <2>4. i \in roomy
    BY <2>1, <2>3
  <2>5. IsPart(hdr, live, p, Parts(hdr, p)[i])
    BY <1>1, <2>2, <2>4, PartsLength
  <2>6. AllocInternal(hdr, Parts(hdr, p)[i], kind)
    BY <1>5, <2>1
  <2>7. blocks' = blocks
    BY <1>5
  <2> QED BY ONLY <2>5, <2>6, <2>7, AllocRest, MemInv, use' = use, pc' = pc, call' = call, owned' = owned, kind \in {"heap", "queue"}
<1>6. CASE IsExpanding(p) /\ Expand(t, p, kind)
  <2>1. Effect(hdr, blocks, live, owned, Freed, hdr', blocks', live', p)
    BY <1>6, ExpandEffect
  <2>2. "expanding" \in use.ops
    <3>1. ExpandInv /\ p \in Page
      BY MemTyped DEF MemInv, Heaps
    <3> QED BY <1>6, <3>1 DEF ExpandInv, IsExpanding
  <2> QED BY ONLY <2>1, <2>2, EffectRest, MemInv, use' = use, pc' = pc, call' = call, owned' = owned, p \in Heaps
<1> QED BY <1>3, <1>4, <1>5, <1>6

(* The calls without locks.                                                *)
LEMMA NoLockCall ==
  ASSUME MemInv, NEW t, NoLock(t)
  PROVE  MemInv'
<1>1. use' = use /\ pc' = pc /\ call' = call
  BY DEF NoLock, Call
<1>2. ASSUME NEW kind \in {"heap", "queue"}, NEW p \in Heaps, AllocNoLock(t, p, kind), owned' = owned PROVE MemInv'
  BY <1>1, <1>2, AllocNoLockStep
<1>3. ASSUME NEW kind \in {"heap", "queue"}, NEW q \in Pages, NearAllocNoLock(t, q, kind), owned' = owned PROVE MemInv'
  <2>1. PICK r : r = BaseOf(FindHeader(Address(q)))
    OBVIOUS
  <2>2. FirstOf(r) \in Heaps /\ IsPart(hdr, live, FirstOf(r), r)
    BY <2>1, PageHeap
  <2>3. \/ AllocInternal(hdr, r, kind) /\ blocks' = blocks
        \/ AllocNoLock(t, FirstOf(r), "heap")
    BY <1>3, <2>1 DEF NearAllocNoLock
  <2>4. CASE AllocInternal(hdr, r, kind) /\ blocks' = blocks
    BY <1>1, <1>3, <2>2, <2>4, AllocRest
  <2>5. CASE AllocNoLock(t, FirstOf(r), "heap")
    BY <1>1, <1>3, <2>2, <2>5, AllocNoLockStep
  <2> QED BY <2>3, <2>4, <2>5
<1>4. ASSUME NEW q \in Pages, FreeNoLock(q), GiveUp(q), blocks' = blocks PROVE MemInv'
  <2>1. PICK c : c = FirstOf(BaseOf(q))
    OBVIOUS
  <2>2. c \in Heaps
    <3>1. PICK r : r = BaseOf(FindHeader(Address(q)))
      OBVIOUS
    <3> QED BY <2>1, <3>1, PageHeap
  <2>3. PICK p : IsPart(hdr, live, c, p) /\ Contains(p, q) /\ FreeInternal(p, q)
    <3>1. PICK i \in DOMAIN Parts(hdr, c) : Contains(Parts(hdr, c)[i], q) /\ FreeInternal(Parts(hdr, c)[i], q)
      BY <1>4, <2>1 DEF FreeNoLock
    <3>2. IsPart(hdr, live, c, Parts(hdr, c)[i])
      BY <2>2, PartsLength
    <3> QED BY <3>1, <3>2
  <2>4. p = hdr[q].base
    <3>1. q \in Given(hdr, blocks, live, Freed)
      BY DEF Pages, Given
    <3> QED BY <2>3, <3>1, ContainsIs
  <2>5. FreeInternal(hdr[q].base, q)
    BY <2>3, <2>4
  <2> QED BY ONLY <1>1, <1>4, <2>5, DeallocStep, MemInv, q \in Pages
<1> QED BY <1>2, <1>3, <1>4 DEF NoLock

-----------------------------------------------------------------------------
(* The memory at the start, and after any step.                            *)
LEMMA MemInit ==
  ASSUME CInit
  PROVE  MemInv
<1>1. /\ hdr = [p \in Page |-> NoHeader] /\ blocks = [p \in Page |-> 0] /\ live = {} /\ owned = {} /\ use \in Uses
      /\ pc = [t \in Thread |-> "idle"] /\ call = [t \in Thread |-> NoCall]
  BY DEF CInit, SInit
<1>2. StateType
  BY <1>1, NoCallTyped DEF StateType, Place, Looking, Growing, AtRest
<1>3. Freed = {}
  BY <1>1 DEF Freed
<1>4. \A p \in Page : hdr[p].kind = "none" /\ hdr[p].expand = <<>> /\ blocks[p] = 0
  BY <1>1 DEF NoHeader, Header
<1>5. MemType(hdr, blocks, live, owned, Freed)
  <2>1. 0 \in 0..NumPages
    BY PageIs
  <2> QED BY <1>1, <1>3, <2>1, NoHeaderTyped DEF MemType
<1>6. Given(hdr, blocks, live, Freed) = {} /\ Compounds(hdr, live) = {}
  BY <1>1, <1>3 DEF Given, Compounds
<1>7. BlocksGood(blocks)
  BY <1>4 DEF BlocksGood
<1>8. SpacesApart(hdr, live)
  BY <1>6 DEF SpacesApart
<1>9. MemGood(hdr, blocks, live, owned, Freed)
  BY <1>1, <1>3, <1>5, <1>6, <1>7, <1>8 DEF MemGood
<1>10. \A t \in Thread : CallGood(t)
  BY <1>1 DEF CallGood, AtRest
<1>11. FreesApart
  BY <1>1 DEF FreesApart, Frees
<1>12. NearInv /\ ExpandInv
  BY <1>4 DEF NearInv, ExpandInv
<1> QED BY <1>2, <1>9, <1>10, <1>11, <1>12 DEF MemInv

(* Every step keeps the layout.                                            *)
LEMMA MemNext ==
  ASSUME MemInv, BlocksInv, SafeUses, [CNext]_cvars
  PROVE  MemInv'
<1>1. CASE UNCHANGED cvars
  BY <1>1, NothingMoves DEF cvars, svars
<1>2. ASSUME NEW t \in Thread, SOps(t), pc' = pc, call' = call PROVE MemInv'
  BY <1>2, SimpleCalls
<1>3. ASSUME NEW t \in Thread, CallSteps(t) PROVE MemInv'
  BY <1>3, LockFirstCall, LockLastCall, PickCall, ScanCall, TakeBlockCall, MoveListCall, GiveBlockCall,
     LockNearCall, FreeLockFirstCall, FreeScanCall, SumSpaceCall DEF CallSteps
<1>4. ASSUME NEW t \in Thread, NoLock(t) PROVE MemInv'
  BY <1>4, NoLockCall
<1>5. ASSUME NEW t \in Thread, NEW expanding \in BOOLEAN, NEW n \in use.pages, CreateCompound(t, expanding, n) PROVE MemInv'
  BY <1>5, CreateCompoundCall
<1>6. ASSUME NEW t \in Thread, NEW p \in Heaps, FreeSpace(t, p) \/ Advise(t, p) \/ DestroyCompound(t, p) PROVE MemInv'
  BY <1>6, FreeSpaceCall, AdviseCall, DestroyCompoundCall
<1>7. ASSUME NEW t \in Thread, NEW p \in Heaps, NEW kind \in {"heap", "queue"}, Alloc(t, p, kind) PROVE MemInv'
  BY <1>7, AllocCall
<1>8. ASSUME NEW t \in Thread, NEW q \in Pages, NearDeallocPage(t, q) \/ FreePage(t, q) PROVE MemInv'
  BY <1>8, NearDeallocCall, FreePageCall
<1>9. ASSUME NEW t \in Thread, NEW q \in Pages \cup Heaps, NEW kind \in {"heap", "queue"}, NearAllocPage(t, q, kind) PROVE MemInv'
  BY <1>9, NearAllocCall
<1>10. CASE CNext
  <2>1. PICK t \in Thread :
          \/ AtRest(t) /\ SOps(t) /\ UNCHANGED <<pc, call>>
          \/ CallSteps(t)
          \/ NoLock(t)
          \/ \E expanding \in BOOLEAN, n \in use.pages : CreateCompound(t, expanding, n)
          \/ \E p \in Heaps :
               \/ FreeSpace(t, p) \/ Advise(t, p) \/ DestroyCompound(t, p)
               \/ \E kind \in {"heap", "queue"} : Alloc(t, p, kind)
          \/ \E q \in Pages : NearDeallocPage(t, q) \/ FreePage(t, q)
          \/ \E q \in Pages \cup Heaps, kind \in {"heap", "queue"} : NearAllocPage(t, q, kind)
    BY <1>10 DEF CNext
  <2> QED BY <2>1, <1>2, <1>3, <1>4, <1>5, <1>6, <1>7, <1>8, <1>9
<1> QED BY <1>1, <1>10

-----------------------------------------------------------------------------
(* What is left in headers, and the blocks in the hands of calls.  What a  *)
(* step may make of a header; the blocks are b then.                       *)
HeaderStays(v, q, b) ==
  /\ \/ v.space = NoPage
     \/ v.space = hdr[q].space /\ v.max = hdr[q].max
     \/ v.max = SpaceMax /\ b[q] > 0
  /\ v.kind \in {"compound", "space"} => v.kind = hdr[q].kind \/ (b[q] > 0 /\ blocks[q] = 0)
  /\ v.expand # <<>> => v.expand = hdr[q].expand \/ b[q] > 0

HeadersStay(h, b) == \A q \in Page : HeaderStays(h[q], q, b)

BlockStays(q) == \/ blocks'[q] = blocks[q] \/ blocks[q] = 0
                 \/ blocks'[q] = 0 /\ hdr'[q] = NoHeader

LiveStays == \A k \in live' : k \in live \/ blocks[k] = 0 \/ blocks'[k] = 0

(* A call goes on with its block, or has one that was nobody's.            *)
NewHand(u) ==
  LET q == call'[u].page
  IN  /\ blocks[q] = 0 /\ blocks'[q] = hdr'[call'[u].heap].size
      /\ q \in Page /\ blocks'[q] > 0 /\ q \notin live' /\ hdr'[q].kind \notin {"compound", "space"}

HandsStay(t) ==
  \A u \in Thread : InHand(u)' =>
    \/ InHand(u) /\ call'[u] = call[u] /\ blocks'[call[u].page] = blocks[call[u].page]
    \/ u = t /\ NewHand(u)

(* The headers a step leaves.                                              *)
LEMMA HeadersNext ==
  ASSUME MemInv, MemInv', BlocksInv, HeadersStay(hdr', blocks'), \A q \in Page : BlockStays(q)
  PROVE  \A q \in Page : HeaderGood(q)'
<1> SUFFICES ASSUME NEW q \in Page PROVE HeaderGood(q)'
  OBVIOUS
<1>1. HeaderGood(q) /\ HeaderStays(hdr'[q], q, blocks') /\ BlockStays(q)
  BY DEF BlocksInv, HeadersStay
<1>2. blocks[q] \in Nat /\ blocks'[q] \in Nat
  BY MemTyped DEF MemInv
<1>3. NoHeader.space = NoPage /\ NoHeader.kind = "none" /\ NoHeader.expand = <<>>
  BY DEF NoHeader, Header
<1>4. blocks[q] > 0 => blocks'[q] > 0 \/ hdr'[q] = NoHeader
  BY <1>1, <1>2 DEF BlockStays
<1>5. hdr'[q].space # NoPage => hdr'[q].max = SpaceMax /\ blocks'[q] > 0
  BY <1>1, <1>3, <1>4 DEF HeaderStays, HeaderGood
<1>6. hdr'[q].kind \in {"compound", "space"} => blocks'[q] > 0
  BY <1>1, <1>3, <1>4 DEF HeaderStays, HeaderGood
<1>7. hdr'[q].expand # <<>> => blocks'[q] > 0
  BY <1>1, <1>3, <1>4 DEF HeaderStays, HeaderGood
<1> QED BY <1>5, <1>6, <1>7 DEF HeaderGood

(* A block that stays in the hands of a call.                              *)
LEMMA HandNext ==
  ASSUME MemInv, MemInv', BlocksInv, HeadersStay(hdr', blocks'), \A r \in Page : BlockStays(r), LiveStays,
         NEW u \in Thread, InHand(u), InHand(u)', call'[u] = call[u], NEW q, q = call[u].page, blocks'[q] = blocks[q]
  PROVE  /\ q \in Page /\ blocks'[q] > 0 /\ q \notin live' /\ hdr'[q].kind \notin {"compound", "space"}
         /\ blocks'[q] = hdr'[call[u].heap].size
<1>2. PICK p : p = call[u].heap
  OBVIOUS
<1>3. Loose(q) /\ blocks[q] = hdr[p].size
  BY <1>2 DEF BlocksInv, HandGood
<1>4. q \in Page /\ blocks[q] \in Nat /\ blocks[q] > 0
  BY <1>3, MemTyped DEF Loose, MemInv
<1>5. HeaderStays(hdr'[q], q, blocks')
  BY <1>4 DEF HeadersStay
<1>6. ~ (blocks[q] = 0)
  BY <1>4
<1>7. hdr'[q].kind \notin {"compound", "space"}
  BY <1>3, <1>5, <1>6 DEF Loose, HeaderStays
<1>8. q \notin live'
  BY <1>3, <1>6 DEF Loose, LiveStays
<1>9. ~ AtRest(u) /\ ~ AtRest(u)'
  BY DEF InHand, AtRest
<1>10. p \in Compounds(hdr, live) /\ p \in Compounds(hdr', live')
  BY <1>2, <1>9 DEF MemInv, CallGood, Heaps, Compounds
<1>11. p \in Page /\ hdr[p].size = blocks[p] /\ blocks[p] > 0 /\ hdr'[p].size = blocks'[p] /\ blocks'[p] > 0
  <2>1. MemGood(hdr, blocks, live, owned, Freed) /\ MemGood(hdr', blocks', live', owned', Freed')
    BY DEF MemInv
  <2>2. IsPart(hdr, live, p, p) /\ IsPart(hdr', live', p, p)
    BY <2>1, <1>10, FirstIsPart DEF Compounds
  <2>3. p \in Page /\ hdr[p].size = blocks[p] /\ hdr[p].size > 1 /\ hdr[p].size \in Nat
    BY <2>1, <2>2, PartFacts
  <2>4. hdr'[p].size = blocks'[p] /\ hdr'[p].size > 1 /\ hdr'[p].size \in Nat
    BY <2>1, <2>2, PartFacts
  <2> QED BY <2>3, <2>4
<1>12. blocks'[p] = blocks[p]
  <2>1. BlockStays(p) /\ ~ (blocks[p] = 0) /\ ~ (blocks'[p] = 0)
    BY <1>11
  <2> QED BY <2>1 DEF BlockStays
<1> QED BY <1>2, <1>3, <1>4, <1>7, <1>8, <1>11, <1>12

(* So much for a step.                                                     *)
LEMMA BlocksStep ==
  ASSUME MemInv, MemInv', BlocksInv, HeadersStay(hdr', blocks'), \A r \in Page : BlockStays(r), LiveStays,
         NEW t, HandsStay(t)
  PROVE  BlocksInv'
<1>1. \A q \in Page : HeaderGood(q)'
  BY HeadersNext
<1>2. ASSUME NEW u \in Thread, InHand(u)'
      PROVE  /\ Loose(call[u].page)' /\ blocks'[call'[u].page] = hdr'[call'[u].heap].size
             /\ \/ InHand(u) /\ call'[u] = call[u] /\ blocks[call[u].page] > 0
                \/ u = t /\ blocks[call'[u].page] = 0
  <2>1. CASE InHand(u) /\ call'[u] = call[u] /\ blocks'[call[u].page] = blocks[call[u].page]
    <3>1. PICK q : q = call[u].page
      OBVIOUS
    <3>2. /\ q \in Page /\ blocks'[q] > 0 /\ q \notin live' /\ hdr'[q].kind \notin {"compound", "space"}
          /\ blocks'[q] = hdr'[call[u].heap].size
      BY ONLY <1>2, <2>1, <3>1, HandNext, MemInv, MemInv', BlocksInv, HeadersStay(hdr', blocks'),
              \A r \in Page : BlockStays(r), LiveStays
    <3>3. Loose(call[u].page)'
      BY <2>1, <3>1, <3>2 DEF Loose
    <3> QED BY <2>1, <3>1, <3>2, <3>3
  <2>2. CASE u = t /\ NewHand(u)
    <3>1. Loose(call[u].page)' /\ blocks'[call'[u].page] = hdr'[call'[u].heap].size /\ blocks[call'[u].page] = 0
      BY <2>2 DEF NewHand, Loose
    <3> QED BY <2>2, <3>1
  <2> QED BY <1>2, <2>1, <2>2 DEF HandsStay
<1>3. ASSUME NEW u \in Thread, NEW v \in Thread, u # v, InHand(u)', InHand(v)', call'[u].page = call'[v].page PROVE FALSE
  <2>1. \/ InHand(u) /\ call'[u] = call[u] /\ blocks[call[u].page] > 0
        \/ u = t /\ blocks[call'[u].page] = 0
    BY <1>2, <1>3
  <2>2. \/ InHand(v) /\ call'[v] = call[v] /\ blocks[call[v].page] > 0
        \/ v = t /\ blocks[call'[v].page] = 0
    BY <1>2, <1>3
  <2>3. ~ (0 > 0)
    OBVIOUS
  <2>4. CASE InHand(u) /\ InHand(v) /\ call'[u] = call[u] /\ call'[v] = call[v]
    BY <1>3, <2>4 DEF BlocksInv, HandGood
  <2> QED BY <1>3, <2>1, <2>2, <2>3, <2>4
<1>4. ASSUME NEW u \in Thread PROVE HandGood(u)'
  BY <1>2, <1>3 DEF HandGood
<1> QED BY <1>1, <1>4 DEF BlocksInv

(* No block changes hands.                                                 *)
LEMMA NoBlockGoes ==
  ASSUME MemInv, MemInv', BlocksInv, blocks' = blocks, HeadersStay(hdr', blocks), PagesNew(blocks),
         \A u \in Thread : InHand(u)' => InHand(u) /\ call'[u] = call[u]
  PROVE  BlocksInv'
<1>1. HeadersStay(hdr', blocks') /\ LiveStays
  BY DEF PagesNew, LiveStays
<1>2. \A r \in Page : BlockStays(r)
  BY DEF BlockStays
<1>3. HandsStay(NoThread)
  BY DEF HandsStay
<1> QED BY <1>1, <1>2, <1>3, BlocksStep

(* Blocks are taken that were nobody's.                                    *)
LEMMA BlocksTaken ==
  ASSUME MemInv, MemInv', BlocksInv, \A q \in Page : blocks[q] > 0 => blocks'[q] = blocks[q],
         HeadersStay(hdr', blocks'), LiveStays, NEW t,
         \A u \in Thread : InHand(u)' => (InHand(u) /\ call'[u] = call[u]) \/ (u = t /\ NewHand(u))
  PROVE  BlocksInv'
<1>1. \A q \in Page : blocks[q] \in Nat
  BY MemTyped DEF MemInv
<1>2. \A r \in Page : BlockStays(r)
  BY <1>1 DEF BlockStays
<1>3. ASSUME NEW u \in Thread, InHand(u) PROVE blocks'[call[u].page] = blocks[call[u].page]
  <2>1. call[u].page \in Page /\ blocks[call[u].page] > 0
    BY <1>3 DEF BlocksInv, HandGood, Loose
  <2> QED BY <2>1
<1>4. HandsStay(t)
  BY <1>3 DEF HandsStay
<1> QED BY <1>2, <1>4, BlocksStep

(* ... such as one.                                                        *)
LEMMA OneTaken ==
  ASSUME MemInv, NEW p, NEW n, FreeAt(blocks, p, n), blocks' = [blocks EXCEPT ![p] = n]
  PROVE  /\ p \in Page /\ blocks[p] = 0 /\ blocks'[p] = n /\ blocks'[p] > 0
         /\ \A q \in Page : blocks[q] > 0 => blocks'[q] = blocks[q]
<1>1. blocks \in [Page -> 0..NumPages]
  BY MemTyped DEF MemInv
<1>2. p \in Page /\ blocks[p] = 0 /\ ~ (blocks[p] > 0)
  BY FreeIsNew
<1>3. n \in Nat /\ n >= 1
  BY DEF FreeAt
<1> QED BY <1>1, <1>2, <1>3

(* Blocks go back that no call has in its hands.                           *)
LEMMA BlocksGiven ==
  ASSUME MemInv, MemInv', BlocksInv, \A q \in Page : (blocks'[q] = blocks[q] /\ hdr'[q] = hdr[q]) \/ (blocks'[q] = 0 /\ hdr'[q] = NoHeader),
         live' \subseteq live,
         \A u \in Thread : InHand(u)' => InHand(u) /\ call'[u] = call[u] /\ blocks'[call[u].page] = blocks[call[u].page]
  PROVE  BlocksInv'
<1>1. NoHeader.space = NoPage /\ NoHeader.kind = "none" /\ NoHeader.expand = <<>>
  BY DEF NoHeader, Header
<1>2. HeadersStay(hdr', blocks')
  BY <1>1 DEF HeadersStay, HeaderStays
<1>3. \A r \in Page : BlockStays(r)
  BY DEF BlockStays
<1>4. LiveStays /\ HandsStay(NoThread)
  BY DEF LiveStays, HandsStay
<1> QED BY <1>2, <1>3, <1>4, BlocksStep

(* A call that takes no block into its hands, and leaves those of others.  *)
LEMMA HandsPass ==
  ASSUME MemInv, NEW t \in Thread, NEW place, NEW c, place \notin {"space", "back"},
         pc' = [pc EXCEPT ![t] = place], call' = [call EXCEPT ![t] = c]
  PROVE  \A u \in Thread : InHand(u)' => u # t /\ InHand(u) /\ call'[u] = call[u]
<1>1. pc \in [Thread -> Place] /\ call \in [Thread -> CallType]
  BY CallTyped
<1> QED BY <1>1 DEF InHand

LEMMA HandsRest ==
  ASSUME pc' = pc, call' = call
  PROVE  \A u \in Thread : InHand(u)' => InHand(u) /\ call'[u] = call[u]
BY DEF InHand

(* A header of which only the list or the top moved.                       *)
LinksStay(v, w) == v.space = w.space /\ v.max = w.max /\ v.kind = w.kind /\ v.expand = w.expand

LEMMA SameHeaders ==
  ASSUME NEW h, \A q \in Page : LinksStay(h[q], hdr[q]), NEW b
  PROVE  HeadersStay(h, b)
BY DEF LinksStay, HeadersStay, HeaderStays

(* Pieces, and pages that are given out or come back.                      *)
LEMMA PiecesKeepBlocks ==
  ASSUME MemInv, MemInv', BlocksInv, pc' = pc, call' = call, NEW t, NEW p, NEW n,
         \/ HeapAlloc(t, p, n) \/ StackAlloc(t, p, n)
         \/ \E x \in PiecesIn(p) : HeapFree(t, p, x, n)
         \/ \E x \in PiecesIn(p) : StackDealloc(t, p, x)
         \/ \E x \in owned : NearAlloc(t, x, n) \/ NearDealloc(t, x, n) \/ StackNearAlloc(t, x, n)
  PROVE  BlocksInv'
<1>1. hdr \in [Page -> HeaderType]
  BY MemTyped DEF MemInv
<1>2. ASSUME NEW q, NEW list, hdr' = [hdr EXCEPT ![q].list = list]
      PROVE  \A k \in Page : LinksStay(hdr'[k], hdr[k])
  BY <1>1, <1>2 DEF HeaderType, LinksStay
<1>3. ASSUME NEW q, NEW top, hdr' = [hdr EXCEPT ![q].next = top]
      PROVE  \A k \in Page : LinksStay(hdr'[k], hdr[k])
  BY <1>1, <1>3 DEF HeaderType, LinksStay
<1>4. ASSUME hdr' = hdr
      PROVE  \A k \in Page : LinksStay(hdr'[k], hdr[k])
  BY <1>4 DEF LinksStay
<1>5. live' = live /\ blocks' = blocks
  BY DEF HeapAlloc, StackAlloc, HeapFree, StackDealloc, NearAlloc, NearDealloc, StackNearAlloc, Push, Call
<1>6. \A q, m : TakePiece(q, m) => \A k \in Page : LinksStay(hdr'[k], hdr[k])
  <2>1. ASSUME NEW q, NEW m, TakePiece(q, m) PROVE hdr' = hdr \/ \E list : hdr' = [hdr EXCEPT ![q].list = list]
    BY <2>1 DEF TakePiece
  <2> QED BY <1>2, <1>4, <2>1
<1>7. \A q, x, m : PutPiece(q, x, m) => \A k \in Page : LinksStay(hdr'[k], hdr[k])
  <2>1. ASSUME NEW q, NEW x, NEW m, PutPiece(q, x, m) PROVE \E list : hdr' = [hdr EXCEPT ![q].list = list]
    BY <2>1 DEF PutPiece
  <2> QED BY <1>2, <2>1
<1>8. \A q, m : Push(t, q, m) => \A k \in Page : LinksStay(hdr'[k], hdr[k])
  <2>1. ASSUME NEW q, NEW m, Push(t, q, m) PROVE hdr' = hdr \/ \E top : hdr' = [hdr EXCEPT ![q].next = top]
    BY <2>1 DEF Push
  <2> QED BY <1>3, <1>4, <2>1
<1>9. ASSUME NEW x, StackDealloc(t, p, x) PROVE \A k \in Page : LinksStay(hdr'[k], hdr[k])
  <2>1. hdr' = [hdr EXCEPT ![p].next = x.at]
    BY <1>9 DEF StackDealloc
  <2> QED BY <1>3, <2>1
<1>10. \/ hdr' = hdr \/ (\E q, m : TakePiece(q, m)) \/ (\E q, x, m : PutPiece(q, x, m)) \/ (\E q, m : Push(t, q, m))
       \/ \E x : StackDealloc(t, p, x)
  BY DEF HeapAlloc, StackAlloc, HeapFree, NearAlloc, NearDealloc, StackNearAlloc
<1>11. \A k \in Page : LinksStay(hdr'[k], hdr[k])
  BY ONLY <1>4, <1>6, <1>7, <1>8, <1>9, <1>10
<1>12. HeadersStay(hdr', blocks) /\ PagesNew(blocks)
  BY <1>5, <1>11, SameHeaders DEF PagesNew
<1> QED BY <1>5, <1>12, HandsRest, NoBlockGoes

(* Nothing, as far as memory goes.                                         *)
LEMMA NothingKeepsBlocks ==
  ASSUME MemInv, MemInv', BlocksInv, hdr' = hdr, blocks' = blocks, live' = live,
         \A u \in Thread : InHand(u)' => InHand(u) /\ call'[u] = call[u]
  PROVE  BlocksInv'
<1>1. \A k \in Page : LinksStay(hdr'[k], hdr[k])
  BY DEF LinksStay
<1>2. HeadersStay(hdr', blocks) /\ PagesNew(blocks)
  BY <1>1, SameHeaders DEF PagesNew
<1> QED BY <1>2, NoBlockGoes

(* A new header in a block that was nobody's.                              *)
LEMMA NewKeepsHeaders ==
  ASSUME MemInv, BlocksInv, NEW p, NEW n, FreeAt(blocks, p, n), blocks' = [blocks EXCEPT ![p] = n],
         NEW v, hdr' = [hdr EXCEPT ![p] = v], v.space = NoPage \/ v.space = hdr[p].space
  PROVE  HeadersStay(hdr', blocks')
<1>1. hdr \in [Page -> HeaderType]
  BY MemTyped DEF MemInv
<1>2. p \in Page /\ blocks[p] = 0 /\ blocks'[p] > 0
  BY OneTaken
<1>3. v.space = NoPage
  BY <1>2 DEF BlocksInv, HeaderGood
<1>4. \A q \in Page : hdr'[q] = hdr[q] \/ (q = p /\ hdr'[q] = v)
  BY <1>1
<1>5. ASSUME NEW q \in Page PROVE HeaderStays(hdr'[q], q, blocks')
  BY <1>2, <1>3, <1>4 DEF HeaderStays
<1> QED BY <1>5 DEF HeadersStay

(* A new simple heap, stack or space.                                      *)
LEMMA NewKeepsBlocks ==
  ASSUME MemInv, MemInv', BlocksInv, pc' = pc, call' = call,
         NEW t, NEW kind \in {"heap", "stack", "space"}, NEW n \in use.pages, Create(t, kind, n)
  PROVE  BlocksInv'
<1>1. hdr \in [Page -> HeaderType] /\ blocks \in [Page -> 0..NumPages]
  BY MemTyped DEF MemInv
<1>2. PICK p : p = LowestBlock(n)
  OBVIOUS
<1>3. n \in 1..NumPages /\ n \in Nat /\ n >= 1
  BY UseFacts, PageIs DEF MemInv
<1>4. CASE p = NoPage
  <2>1. hdr' = hdr /\ blocks' = blocks /\ live' = live
    BY <1>2, <1>4 DEF Create
  <2> QED BY <2>1, HandsRest, NothingKeepsBlocks
<1>5. CASE p # NoPage
  <2>1. PICK v : v = NewHeader(kind, p, n)
    OBVIOUS
  <2>2. hdr' = [hdr EXCEPT ![p] = v] /\ blocks' = [blocks EXCEPT ![p] = n] /\ live' = live \cup {p}
    BY <1>2, <1>5, <2>1 DEF Create
  <2>3. FreeAt(blocks, p, n) /\ p \in Page
    <3>1. FreeAt(blocks, p, n)
      BY <1>1, <1>2, <1>3, <1>5, LowestGives
    <3> QED BY <3>1 DEF FreeAt
  <2>4. v.space = NoPage \/ v.space = hdr[p].space
    <3>1. CASE kind = "heap"
      <4>1. v = SimpleHeap(p, n)
        BY <2>1, <3>1 DEF NewHeader
      <4> QED BY ONLY <1>1, <1>3, <2>3, <4>1, FreshHeap
    <3>2. CASE kind \in {"space", "stack"}
      <4>1. v = SimpleSpace(n) \/ v = SimpleStack(p, n)
        BY <2>1, <3>2 DEF NewHeader
      <4>2. SimpleSpace(n).space = NoPage /\ SimpleStack(p, n).space = NoPage
        BY DEF SimpleSpace, SimpleStack, Header
      <4> QED BY ONLY <4>1, <4>2
    <3> QED BY <3>1, <3>2
  <2>5. HeadersStay(hdr', blocks')
    BY <2>2, <2>3, <2>4, NewKeepsHeaders
  <2>6. LiveStays /\ \A q \in Page : blocks[q] > 0 => blocks'[q] = blocks[q]
    BY <2>2, <2>3, OneTaken DEF LiveStays
  <2> QED BY <2>5, <2>6, HandsRest, BlocksTaken
<1> QED BY <1>4, <1>5

(* A new compound heap.                                                    *)
LEMMA CreateKeepsBlocks ==
  ASSUME MemInv, MemInv', BlocksInv, NEW t, NEW expanding \in BOOLEAN, NEW n \in use.pages, CreateCompound(t, expanding, n)
  PROVE  BlocksInv'
<1>1. hdr \in [Page -> HeaderType] /\ blocks \in [Page -> 0..NumPages]
  BY MemTyped DEF MemInv
<1>2. PICK p : p = LowestBlock(n)
  OBVIOUS
<1>3. n \in 1..NumPages /\ n \in Nat /\ n >= 1 /\ n > 1 /\ pc' = pc /\ call' = call
  BY UseFacts, PageIs DEF MemInv, CreateCompound
<1>4. CASE p = NoPage
  <2>1. hdr' = hdr /\ blocks' = blocks /\ live' = live
    BY <1>2, <1>4 DEF CreateCompound
  <2> QED BY <1>3, <2>1, HandsRest, NothingKeepsBlocks
<1>5. CASE p # NoPage
  <2>1. PICK v : v = IF expanding THEN FirstPart(p, n) ELSE CompoundBlock(p, n)
    OBVIOUS
  <2>2. hdr' = [hdr EXCEPT ![p] = v] /\ blocks' = [blocks EXCEPT ![p] = n] /\ live' = live \cup {p}
    BY <1>2, <1>5, <2>1 DEF CreateCompound
  <2>3. FreeAt(blocks, p, n) /\ p \in Page
    <3>1. FreeAt(blocks, p, n)
      BY <1>1, <1>2, <1>3, <1>5, LowestGives
    <3> QED BY <3>1 DEF FreeAt
  <2>4. PICK w : w = CompoundBlock(p, n)
    OBVIOUS
  <2>5. w \in HeaderType /\ w.space = hdr[p].space
    BY <1>1, <1>3, <2>3, <2>4, FreshCompound
  <2>6. v.space = hdr[p].space
    <3>1. v = w \/ v = [w EXCEPT !.expand = <<p>>, !.max = ListMax]
      BY <2>1, <2>4 DEF FirstPart
    <3> QED BY <2>5, <3>1 DEF HeaderType
  <2>7. HeadersStay(hdr', blocks')
    BY <2>2, <2>3, <2>6, NewKeepsHeaders
  <2>8. LiveStays /\ \A q \in Page : blocks[q] > 0 => blocks'[q] = blocks[q]
    BY <2>2, <2>3, OneTaken DEF LiveStays
  <2> QED BY <1>3, <2>7, <2>8, HandsRest, BlocksTaken
<1> QED BY <1>4, <1>5

(* A page that is given out, in any memory.                                *)
LEMMA PageKeepsHeaders ==
  ASSUME hdr \in [Page -> HeaderType], NEW h \in [Page -> HeaderType], NEW b, HeadersStay(h, b),
         NEW p \in Page, NEW kind \in {"heap", "queue"}, AllocInternal(h, p, kind)
  PROVE  HeadersStay(hdr', b)
<1>1. CASE hdr' = h
  BY <1>1
<1>2. ASSUME NEW list, NEW q, NEW v, hdr' = [h EXCEPT ![p].list = list, ![q] = v], v = PageHeader(kind, q, p)
      PROVE  HeadersStay(hdr', b)
  <2>1. ASSUME q \in Page
        PROVE  /\ v.space = NoPage \/ (v.space = hdr[q].space /\ v.max = hdr[q].max)
               /\ v.kind \in {"heap", "queue"} /\ v.expand \in {hdr[q].expand, <<>>}
    <3>0. v.kind \in {"heap", "queue"} /\ v.expand \in {hdr[q].expand, <<>>}
      BY ONLY hdr \in [Page -> HeaderType], p \in Page, kind \in {"heap", "queue"}, <1>2, <2>1, FreshPage DEF IsNewPage
    <3>1. CASE kind = "heap"
      <4>1. v = [SimpleHeap(q, 1) EXCEPT !.base = p]
        BY <1>2, <3>1 DEF PageHeader
      <4>2. PICK w : w = SimpleHeap(q, 1)
        OBVIOUS
      <4>3. 1 \in 1..NumPages
        BY PageIs
      <4>4. w \in HeaderType /\ w.space = hdr[q].space /\ w.max = hdr[q].max
        BY ONLY hdr \in [Page -> HeaderType], <2>1, <4>2, <4>3, FreshHeap
      <4>5. v = [w EXCEPT !.base = p]
        BY <4>1, <4>2
      <4>6. v.space = w.space /\ v.max = w.max
        BY ONLY <4>4, <4>5 DEF HeaderType
      <4> QED BY <3>0, <4>4, <4>6
    <3>2. CASE kind = "queue"
      <4>1. v.space = NoPage
        BY <1>2, <3>2 DEF PageHeader, Header
      <4> QED BY <3>0, <4>1
    <3> QED BY <3>1, <3>2
  <2>2. \A k \in Page : k # q => LinksStay(hdr'[k], h[k])
    BY <1>2 DEF HeaderType, LinksStay
  <2>3. \A k \in Page : k = q => hdr'[k] = v
    BY <1>2
  <2>4. ASSUME NEW k \in Page PROVE HeaderStays(hdr'[k], k, b)
    <3>1. CASE k = q
      BY <2>1, <2>3, <3>1 DEF HeaderStays
    <3>2. CASE k # q
      <4>1. HeaderStays(h[k], k, b) /\ LinksStay(hdr'[k], h[k])
        BY <2>2, <3>2 DEF HeadersStay
      <4> QED BY <4>1 DEF HeaderStays, LinksStay
    <3> QED BY <3>1, <3>2
  <2> QED BY <2>4 DEF HeadersStay
<1>3. hdr' = h \/ \E list, q, v : hdr' = [h EXCEPT ![p].list = list, ![q] = v] /\ v = PageHeader(kind, q, p)
  BY DEF AllocInternal
<1> QED BY <1>1, <1>2, <1>3

(* ... in the memory there is.                                             *)
LEMMA AllocKeepsBlocks ==
  ASSUME MemInv, MemInv', BlocksInv, blocks' = blocks, NEW c, NEW p, IsPart(hdr, live, c, p),
         NEW kind \in {"heap", "queue"}, AllocInternal(hdr, p, kind),
         \A u \in Thread : InHand(u)' => InHand(u) /\ call'[u] = call[u]
  PROVE  BlocksInv'
<1>1. hdr \in [Page -> HeaderType] /\ p \in Page /\ MemGood(hdr, blocks, live, owned, Freed)
  BY MemTyped, HeapIsPage DEF MemInv
<1>2. \A k \in Page : LinksStay(hdr[k], hdr[k])
  BY DEF LinksStay
<1>3. HeadersStay(hdr, blocks)
  BY <1>2, SameHeaders
<1>4. HeadersStay(hdr', blocks)
  BY ONLY <1>1, <1>3, kind \in {"heap", "queue"}, AllocInternal(hdr, p, kind), PageKeepsHeaders
<1>5. PagesNew(blocks)
  BY ONLY <1>1, kind \in {"heap", "queue"}, AllocInternal(hdr, p, kind), IsPart(hdr, live, c, p), PageMade
<1> QED BY <1>4, <1>5, NoBlockGoes

(* A page that comes back.                                                 *)
LEMMA FreeKeepsBlocks ==
  ASSUME MemInv, MemInv', BlocksInv, blocks' = blocks, live' \subseteq live, NEW p, NEW q, FreeInternal(p, q),
         \A u \in Thread : InHand(u)' => InHand(u) /\ call'[u] = call[u]
  PROVE  BlocksInv'
<1>1. hdr \in [Page -> HeaderType]
  BY MemTyped DEF MemInv
<1>2. PICK list : hdr' = [hdr EXCEPT ![q] = NoHeader, ![p].list = list]
  BY DEF FreeInternal
<1>3. PICK h : h = [hdr EXCEPT ![q] = NoHeader]
  OBVIOUS
<1>4. NoHeader.space = NoPage /\ NoHeader.kind = "none" /\ NoHeader.expand = <<>>
  BY DEF NoHeader, Header
<1>5. h \in [Page -> HeaderType] /\ \A k \in Page : h[k] = hdr[k] \/ h[k] = NoHeader
  BY <1>1, <1>3, NoHeaderTyped
<1>6. hdr' = [h EXCEPT ![p].list = list]
  BY <1>2, <1>3
<1>7. \A k \in Page : LinksStay(hdr'[k], h[k])
  BY <1>5, <1>6 DEF HeaderType, LinksStay
<1>8. \A k \in Page : LinksStay(hdr'[k], hdr[k]) \/ LinksStay(hdr'[k], NoHeader)
  BY <1>5, <1>7
<1>9. HeadersStay(hdr', blocks)
  BY <1>4, <1>8 DEF HeadersStay, HeaderStays, LinksStay
<1>10. PagesNew(blocks)
  BY DEF PagesNew
<1> QED BY <1>9, <1>10, NoBlockGoes

(* A further part in the list, in a block that was nobody's.               *)
LEMMA PartKeepsHeaders ==
  ASSUME hdr \in [Page -> HeaderType], NEW h \in [Page -> HeaderType], NEW b, HeadersStay(h, b),
         NEW p \in Page, NEW q \in Page, q # p, hdr[p].size > 1, blocks[q] = 0, b[q] > 0, b[p] > 0,
         NEW h2, h2 = WithPart(h, p, q)
  PROVE  h2 \in [Page -> HeaderType] /\ HeadersStay(h2, b)
<1>1. PICK v : v = FurtherPart(q, hdr[p].size, p)
  OBVIOUS
<1>2. hdr[p].size \in 1..NumPages
  BY HeaderIs, PageIs
<1>3. v \in HeaderType /\ v.space = hdr[q].space /\ v.max = hdr[q].max /\ v.expand = <<>>
  <2>1. v \in HeaderType /\ v.expand = <<>>
    BY <1>1, <1>2, FreshFurther
  <2>2. PICK w : w = CompoundBlock(q, hdr[p].size)
    OBVIOUS
  <2>3. w \in HeaderType /\ w.space = hdr[q].space /\ w.max = hdr[q].max
    BY <1>2, <2>2, FreshCompound
  <2>4. v = [w EXCEPT !.expand = <<>>, !.base = p]
    BY <1>1, <2>2 DEF FurtherPart
  <2>5. v.space = w.space /\ v.max = w.max
    BY ONLY <2>3, <2>4 DEF HeaderType
  <2> QED BY <2>1, <2>3, <2>5
<1>4. h2 = [h EXCEPT ![q] = v, ![p].expand = Append(h[p].expand, q)]
  BY <1>1 DEF WithPart
<1>5. Append(h[p].expand, q) \in Seq(Page)
  <2>1. h[p].expand \in Seq(Page)
    BY HeaderIs
  <2> QED BY <2>1
<1>6. h2[q] = v /\ h2[p] = [h[p] EXCEPT !.expand = Append(h[p].expand, q)] /\ DOMAIN h2 = Page
      /\ \A k \in Page : k # q /\ k # p => h2[k] = h[k]
  BY <1>4
<1>7. h2[p] \in HeaderType /\ h2[p].space = h[p].space /\ h2[p].max = h[p].max /\ h2[p].kind = h[p].kind
  BY <1>5, <1>6 DEF HeaderType
<1>8. h2 \in [Page -> HeaderType]
  <2>1. \A k \in Page : h2[k] \in HeaderType
    BY <1>3, <1>6, <1>7
  <2>2. h2 = [k \in Page |-> h2[k]]
    BY <1>4
  <2> QED BY ONLY <2>1, <2>2
<1>9. ASSUME NEW k \in Page PROVE HeaderStays(h2[k], k, b)
  <2>1. HeaderStays(h[k], k, b)
    BY DEF HeadersStay
  <2>2. CASE k = q
    BY <1>3, <1>6, <2>2 DEF HeaderStays
  <2>3. CASE k = p
    BY <1>7, <2>1, <2>3 DEF HeaderStays
  <2>4. CASE k # q /\ k # p
    BY <1>6, <2>1, <2>4
  <2> QED BY <2>2, <2>3, <2>4
<1> QED BY <1>8, <1>9 DEF HeadersStay

(* A space for the list, in a block that was nobody's.                     *)
LEMMA SpaceKeepsHeaders ==
  ASSUME hdr \in [Page -> HeaderType], NEW b,
         NEW p \in Page, NEW s \in Page, s # p, hdr[p].size > 1, blocks[s] = 0, b[s] > 0, b[p] > 0,
         NEW h1, h1 = WithSpace(hdr, p, s)
  PROVE  h1 \in [Page -> HeaderType] /\ HeadersStay(h1, b)
<1>1. PICK n : n = hdr[p].size
  OBVIOUS
<1>2. n \in 1..NumPages
  BY <1>1, HeaderIs, PageIs
<1>3. PICK v : v = SimpleSpace(n)
  OBVIOUS
<1>4. v \in HeaderType /\ v.space = NoPage /\ v.expand = <<>>
  <2>1. SimpleSpace(n).space = NoPage
    BY DEF SimpleSpace, Header
  <2> QED BY <1>2, <1>3, <2>1, FreshOther
<1>5. h1 = [hdr EXCEPT ![s] = v, ![p].space = s, ![p].max = SpaceMax]
  BY <1>1, <1>3 DEF WithSpace
<1>6. /\ h1[s] = v /\ h1[p] = [hdr[p] EXCEPT !.space = s, !.max = SpaceMax] /\ DOMAIN h1 = Page
      /\ \A k \in Page : k # s /\ k # p => h1[k] = hdr[k]
  BY <1>5
<1>7. h1[p] \in HeaderType /\ h1[p].max = SpaceMax /\ h1[p].kind = hdr[p].kind /\ h1[p].expand = hdr[p].expand
  <2>1. hdr[p] \in HeaderType /\ SpaceMax \in Nat /\ s \in 0..NumPages
    BY PageIs, CompoundAssumption
  <2>2. h1[p] = [hdr[p] EXCEPT !.space = s, !.max = SpaceMax]
    BY <1>6
  <2> QED BY ONLY <2>1, <2>2 DEF HeaderType
<1>8. h1 \in [Page -> HeaderType]
  <2>1. \A k \in Page : h1[k] \in HeaderType
    BY <1>4, <1>6, <1>7
  <2>2. h1 = [k \in Page |-> h1[k]]
    BY <1>5
  <2> QED BY ONLY <2>1, <2>2
<1>9. ASSUME NEW k \in Page PROVE HeaderStays(h1[k], k, b)
  <2>1. CASE k = s
    BY <1>4, <1>6, <2>1 DEF HeaderStays
  <2>2. CASE k = p
    BY <1>7, <2>2 DEF HeaderStays
  <2>3. CASE k # s /\ k # p
    BY <1>6, <2>3 DEF HeaderStays
  <2> QED BY <2>1, <2>2, <2>3
<1> QED BY <1>8, <1>9 DEF HeadersStay

(* A part that is taken.                                                   *)
LEMMA PartTakenKeeps ==
  ASSUME MemInv, MemInv', BlocksInv, NEW p \in Heaps, IsExpanding(p), NEW kind \in {"heap", "queue"},
         NEW n, n = hdr[p].size, NEW q, q = LowestBlock(n), q # NoPage,
         AllocInternal(WithPart(hdr, p, q), q, kind), blocks' = [blocks EXCEPT ![q] = n],
         \A u \in Thread : InHand(u)' => InHand(u) /\ call'[u] = call[u]
  PROVE  BlocksInv'
<1>1. hdr \in [Page -> HeaderType]
  BY MemTyped DEF MemInv
<1>2. /\ FreeAt(blocks, q, n) /\ q \in Page /\ q # p /\ p \in Page /\ n > 1 /\ n \in Nat /\ blocks[p] = n /\ blocks[q] = 0
  BY BlockForHeap
<1>3. blocks'[q] > 0 /\ blocks'[p] > 0 /\ \A k \in Page : blocks[k] > 0 => blocks'[k] = blocks[k]
  BY <1>2, OneTaken
<1>4. PICK b : b = blocks'
  OBVIOUS
<1>5. HeadersStay(hdr, b)
  <2>1. \A k \in Page : LinksStay(hdr[k], hdr[k])
    BY DEF LinksStay
  <2> QED BY <2>1, SameHeaders
<1>6. PICK h : h = WithPart(hdr, p, q)
  OBVIOUS
<1>7. h \in [Page -> HeaderType] /\ HeadersStay(h, b)
  BY <1>1, <1>2, <1>3, <1>4, <1>5, <1>6, PartKeepsHeaders
<1>8. AllocInternal(h, q, kind)
  BY <1>6
<1>9. HeadersStay(hdr', b)
  BY ONLY <1>1, <1>2, <1>7, <1>8, kind \in {"heap", "queue"}, PageKeepsHeaders
<1>10. LiveStays
  <2>1. PagesNew(blocks')
    BY PartEffect
  <2> QED BY <2>1 DEF PagesNew, LiveStays
<1> QED BY <1>3, <1>4, <1>9, <1>10, BlocksTaken

(* A call takes a block, for a part or into its hands.                     *)
LEMMA TakeBlockKeeps ==
  ASSUME MemInv, MemInv', BlocksInv, NEW t \in Thread, TakeBlock(t)
  PROVE  BlocksInv'
<1>1. PICK p : p = call[t].heap
  OBVIOUS
<1>2. PICK n : n = hdr[p].size
  OBVIOUS
<1>3. PICK q : q = LowestBlock(n)
  OBVIOUS
<1>4. /\ pc[t] = "grow"
      /\ \/ Finish(t) /\ hdr' = hdr /\ blocks' = blocks /\ live' = live
         \/ /\ q # NoPage /\ AllocInternal(WithPart(hdr, p, q), q, call[t].kind)
            /\ blocks' = [blocks EXCEPT ![q] = n] /\ Finish(t)
         \/ /\ q # NoPage /\ blocks' = [blocks EXCEPT ![q] = n]
            /\ call' = [call EXCEPT ![t].page = q] /\ hdr' = hdr /\ live' = live
            /\ Goto(t, "space") \/ Goto(t, "back")
  BY <1>1, <1>2, <1>3 DEF TakeBlock, ExpandDone, Done
<1>5. p \in Heaps /\ IsExpanding(p) /\ call[t].kind \in {"heap", "queue"}
  BY <1>1, <1>4, GrowingCall DEF Growing
<1>6. ASSUME Finish(t) PROVE \A u \in Thread : InHand(u)' => InHand(u) /\ call'[u] = call[u]
  <2>1. pc' = [pc EXCEPT ![t] = "idle"] /\ call' = [call EXCEPT ![t] = NoCall]
    BY <1>6 DEF Finish, Goto
  <2> QED BY <2>1, HandsPass
<1>7. CASE Finish(t) /\ hdr' = hdr /\ blocks' = blocks /\ live' = live
  BY <1>6, <1>7, NothingKeepsBlocks
<1>8. CASE /\ q # NoPage /\ AllocInternal(WithPart(hdr, p, q), q, call[t].kind)
           /\ blocks' = [blocks EXCEPT ![q] = n] /\ Finish(t)
  BY <1>2, <1>3, <1>5, <1>6, <1>8, PartTakenKeeps
<1>9. CASE /\ q # NoPage /\ blocks' = [blocks EXCEPT ![q] = n]
           /\ call' = [call EXCEPT ![t].page = q] /\ hdr' = hdr /\ live' = live
           /\ Goto(t, "space") \/ Goto(t, "back")
  <2>1. FreeAt(blocks, q, n) /\ q \in Page
    BY <1>2, <1>3, <1>5, <1>9, BlockForHeap
  <2>2. blocks[q] = 0 /\ blocks'[q] = n /\ blocks'[q] > 0 /\ \A k \in Page : blocks[k] > 0 => blocks'[k] = blocks[k]
    BY <1>9, <2>1, OneTaken
  <2>3. HeadersStay(hdr', blocks')
    <3>1. \A k \in Page : LinksStay(hdr'[k], hdr[k])
      BY <1>9 DEF LinksStay
    <3> QED BY <3>1, SameHeaders
  <2>4. LiveStays
    BY <1>9 DEF LiveStays
  <2>5. call'[t].page = q /\ call'[t].heap = p /\ \A u \in Thread : u # t => pc'[u] = pc[u] /\ call'[u] = call[u]
    <3>1. call \in [Thread -> CallType] /\ pc \in [Thread -> Place] /\ call[t] \in CallType
      BY CallTyped
    <3>2. \E place : pc' = [pc EXCEPT ![t] = place]
      BY <1>9 DEF Goto
    <3> QED BY <1>1, <1>9, <3>1, <3>2 DEF CallType
  <2>6. NewHand(t)
    <3>1. q \notin live
      <4>1. ASSUME q \in live PROVE FALSE
        <5>1. LiveGood(hdr, blocks, q) /\ hdr[q].kind \in {"heap", "queue"}
          BY <2>2, <4>1 DEF MemInv, MemGood, LiveGood
        <5>2. q \in live' /\ LiveGood(hdr', blocks', q) /\ hdr'[q].kind \in {"heap", "queue"} /\ blocks'[q] = hdr'[q].size
          BY <1>9, <2>2, <4>1, <5>1 DEF MemInv, MemGood, LiveGood
        <5>3. q \in Given(hdr, blocks, live, Freed)
          BY <2>2, <4>1, <5>1 DEF Given
        <5>4. MemGood(hdr, blocks, live, owned, Freed)
          BY DEF MemInv
        <5>5. hdr[q].size = 1
          BY <5>3, <5>4, GivenFacts
        <5>6. n > 1
          BY <1>2, <1>3, <1>5, <1>9, BlockForHeap
        <5>7. hdr'[q].size = hdr[q].size
          BY <1>9
        <5> QED BY <2>2, <5>2, <5>5, <5>6, <5>7
      <4> QED BY <4>1
    <3>2. hdr[q].kind \notin {"compound", "space"}
      BY <2>1, <2>2 DEF BlocksInv, HeaderGood
    <3> QED BY <1>2, <1>9, <2>1, <2>2, <2>5, <3>1, <3>2 DEF NewHand
  <2>7. \A u \in Thread : InHand(u)' => (InHand(u) /\ call'[u] = call[u]) \/ (u = t /\ NewHand(u))
    BY <2>5, <2>6 DEF InHand
  <2> QED BY <2>2, <2>3, <2>4, <2>7, BlocksTaken
<1> QED BY <1>4, <1>7, <1>8, <1>9

(* It takes another for the list.                                          *)
LEMMA MoveListKeeps ==
  ASSUME MemInv, MemInv', BlocksInv, NEW t \in Thread, MoveList(t)
  PROVE  BlocksInv'
<1>1. PICK p : p = call[t].heap
  OBVIOUS
<1>2. PICK n : n = hdr[p].size
  OBVIOUS
<1>3. PICK s : s = LowestBlock(n)
  OBVIOUS
<1>4. /\ pc[t] = "space" /\ live' = live /\ call' = call /\ Goto(t, "back")
      /\ \/ hdr' = hdr /\ blocks' = blocks
         \/ s # NoPage /\ hdr' = WithSpace(hdr, p, s) /\ blocks' = [blocks EXCEPT ![s] = n]
  BY <1>1, <1>2, <1>3 DEF MoveList
<1>5. p \in Heaps /\ IsExpanding(p)
  BY <1>1, <1>4, GrowingCall DEF Growing
<1>6. \A u \in Thread : InHand(u)' => InHand(u) /\ call'[u] = call[u]
  <2>1. pc \in [Thread -> Place]
    BY CallTyped
  <2> QED BY <1>4, <2>1 DEF Goto, InHand
<1>7. CASE hdr' = hdr /\ blocks' = blocks
  BY <1>4, <1>6, <1>7, NothingKeepsBlocks
<1>8. CASE s # NoPage /\ hdr' = WithSpace(hdr, p, s) /\ blocks' = [blocks EXCEPT ![s] = n]
  <2>1. FreeAt(blocks, s, n) /\ s \in Page /\ s # p /\ p \in Page /\ n > 1 /\ n \in Nat /\ blocks[p] = n /\ blocks[s] = 0
    BY <1>2, <1>3, <1>5, <1>8, BlockForHeap
  <2>2. blocks'[s] > 0 /\ blocks'[p] > 0 /\ \A k \in Page : blocks[k] > 0 => blocks'[k] = blocks[k]
    BY <1>8, <2>1, OneTaken
  <2>3. hdr \in [Page -> HeaderType]
    BY MemTyped DEF MemInv
  <2>4. HeadersStay(hdr', blocks')
    BY <1>2, <1>8, <2>1, <2>2, <2>3, SpaceKeepsHeaders
  <2>5. LiveStays
    BY <1>4 DEF LiveStays
  <2> QED BY <1>6, <2>2, <2>4, <2>5, BlocksTaken
<1> QED BY <1>4, <1>7, <1>8

(* It gives back the one it has.                                           *)
LEMMA GiveBlockKeeps ==
  ASSUME MemInv, MemInv', BlocksInv, NEW t \in Thread, GiveBlock(t)
  PROVE  BlocksInv'
<1>1. PICK q : q = call[t].page
  OBVIOUS
<1>2. /\ pc[t] = "back" /\ live' = live /\ hdr' = [hdr EXCEPT ![q] = NoHeader] /\ blocks' = [blocks EXCEPT ![q] = 0]
      /\ Finish(t) \/ (Goto(t, "grow") /\ call' = [call EXCEPT ![t].page = NoPage])
  BY <1>1 DEF GiveBlock, ExpandDone, Done
<1>3. hdr \in [Page -> HeaderType] /\ blocks \in [Page -> 0..NumPages]
  BY MemTyped DEF MemInv
<1>4. \A k \in Page : (blocks'[k] = blocks[k] /\ hdr'[k] = hdr[k]) \/ (blocks'[k] = 0 /\ hdr'[k] = NoHeader)
  BY <1>2, <1>3
<1>5. \A u \in Thread : InHand(u)' => u # t /\ InHand(u) /\ call'[u] = call[u]
  <2>1. \/ pc' = [pc EXCEPT ![t] = "idle"] /\ call' = [call EXCEPT ![t] = NoCall]
        \/ pc' = [pc EXCEPT ![t] = "grow"] /\ call' = [call EXCEPT ![t] = [call[t] EXCEPT !.page = NoPage]]
    BY <1>2 DEF Finish, Goto
  <2> QED BY <2>1, HandsPass
<1>6. InHand(t)
  BY <1>2 DEF InHand
<1>7. ASSUME NEW u \in Thread, InHand(u)' PROVE blocks'[call[u].page] = blocks[call[u].page]
  <2>1. u # t /\ InHand(u)
    BY <1>5, <1>7
  <2>2. call[u].page # q
    BY <1>1, <1>6, <2>1 DEF BlocksInv, HandGood
  <2>3. call[u].page \in Page
    BY <2>1 DEF BlocksInv, HandGood, Loose
  <2> QED BY <1>2, <1>3, <2>2, <2>3
<1>8. live' \subseteq live
  BY <1>2
<1> QED BY <1>4, <1>5, <1>7, <1>8, BlocksGiven

(* A heap goes, with what it has.                                          *)
LEMMA DestroyKeepsBlocks ==
  ASSUME MemInv, MemInv', BlocksInv, NEW t, NEW p, (pc' = pc /\ call' = call /\ DestroySimple(t, p)) \/ DestroyCompound(t, p)
  PROVE  BlocksInv'
<1>1. hdr \in [Page -> HeaderType] /\ blocks \in [Page -> 0..NumPages]
      /\ MemGood(hdr, blocks, live, owned, Freed) /\ live \in SUBSET Page
  BY MemTyped DEF MemInv
<1>2. pc' = pc /\ call' = call
  BY DEF DestroyCompound
<1>3. PICK gone : \A k \in Page : /\ k \in gone => blocks'[k] = 0 /\ hdr'[k] = NoHeader /\ (k \in live \/ hdr[k].kind \in {"compound", "space"})
                                  /\ k \notin gone => blocks'[k] = blocks[k] /\ hdr'[k] = hdr[k]
  <2>1. CASE DestroySimple(t, p)
    <3>1. p \in live /\ hdr' = [hdr EXCEPT ![p] = NoHeader] /\ blocks' = [blocks EXCEPT ![p] = 0]
      BY <2>1 DEF DestroySimple
    <3>2. \A k \in Page : /\ k \in {p} => blocks'[k] = 0 /\ hdr'[k] = NoHeader /\ k \in live
                          /\ k \notin {p} => blocks'[k] = blocks[k] /\ hdr'[k] = hdr[k]
      BY <1>1, <3>1
    <3> QED BY <3>2
  <2>2. CASE DestroyCompound(t, p)
    <3>1. PICK parts : parts = {Parts(hdr, p)[i] : i \in DOMAIN Parts(hdr, p)}
      OBVIOUS
    <3>2. PICK S : S = {s \in {hdr[p].space} \ {NoPage} : IsExpanding(p) /\ hdr[s].kind = "space"}
      OBVIOUS
    <3>3. /\ p \in Heaps
          /\ blocks' = [q \in Page |-> IF q \in parts \cup S THEN 0 ELSE blocks[q]]
          /\ hdr' = [q \in Page |-> IF q \in parts \cup S THEN NoHeader ELSE hdr[q]]
      BY <2>2, <3>1, <3>2 DEF DestroyCompound
    <3>4. ASSUME NEW k \in parts PROVE hdr[k].kind = "compound"
      <4>1. IsPart(hdr, live, p, k)
        BY <3>1, <3>3, <3>4, CompoundsAre DEF IsPart
      <4> QED BY <1>1, <4>1, PartFacts
    <3>5. \A k \in S : hdr[k].kind = "space"
      BY <3>2
    <3>6. \A k \in Page : /\ k \in parts \cup S => blocks'[k] = 0 /\ hdr'[k] = NoHeader /\ hdr[k].kind \in {"compound", "space"}
                          /\ k \notin parts \cup S => blocks'[k] = blocks[k] /\ hdr'[k] = hdr[k]
      BY <3>3, <3>4, <3>5
    <3> QED BY <3>6
  <2> QED BY <2>1, <2>2
<1>4. \A k \in Page : (blocks'[k] = blocks[k] /\ hdr'[k] = hdr[k]) \/ (blocks'[k] = 0 /\ hdr'[k] = NoHeader)
  BY <1>3
<1>5. ASSUME NEW u \in Thread, InHand(u)' PROVE InHand(u) /\ call'[u] = call[u] /\ blocks'[call[u].page] = blocks[call[u].page]
  <2>1. InHand(u) /\ call'[u] = call[u]
    BY <1>2, <1>5, HandsRest
  <2>2. Loose(call[u].page)
    BY <2>1 DEF BlocksInv, HandGood
  <2> QED BY <1>3, <2>1, <2>2 DEF Loose
<1>6. live' \subseteq live
  BY DEF DestroySimple, DestroyCompound
<1> QED BY <1>4, <1>5, <1>6, BlocksGiven

(* The calls that have no block in their hands do not get one.             *)
LEMMA CallHands ==
  ASSUME MemInv, NEW t \in Thread,
         LockFirst(t) \/ LockLast(t) \/ Pick(t) \/ Scan(t) \/ LockNear(t) \/ FreeLockFirst(t) \/ FreeScan(t) \/ SumSpace(t)
  PROVE  \A u \in Thread : InHand(u)' => InHand(u) /\ call'[u] = call[u]
<1>1. pc \in [Thread -> Place] /\ call \in [Thread -> CallType]
  BY CallTyped
<1>2. /\ pc[t] \notin {"space", "back"}
      /\ pc' = pc \/ \E place : place \notin {"space", "back"} /\ pc' = [pc EXCEPT ![t] = place]
      /\ call' = call \/ \E c : call' = [call EXCEPT ![t] = c]
  <2>1. CASE LockFirst(t)
    BY <2>1 DEF LockFirst, Done, Finish, Goto
  <2>2. CASE LockLast(t)
    BY <2>2 DEF LockLast, Goto
  <2>3. CASE Pick(t)
    BY <2>3 DEF Pick, Done, Finish, Goto
  <2>4. CASE Scan(t)
    BY <2>4 DEF Scan, Done, Finish, Goto
  <2>5. CASE LockNear(t)
    BY <2>5 DEF LockNear, Finish, Goto
  <2>6. CASE FreeLockFirst(t)
    BY <2>6 DEF FreeLockFirst, Goto
  <2>7. CASE FreeScan(t)
    BY <2>7 DEF FreeScan, Finish, Goto
  <2>8. CASE SumSpace(t)
    BY <2>8 DEF SumSpace, Finish, Goto
  <2> QED BY <2>1, <2>2, <2>3, <2>4, <2>5, <2>6, <2>7, <2>8
<1> QED BY <1>1, <1>2 DEF InHand

(* The steps of calls.                                                     *)
LEMMA CallKeepsBlocks ==
  ASSUME MemInv, MemInv', BlocksInv, NEW t \in Thread, CallSteps(t)
  PROVE  BlocksInv'
<1>1. call[t].kind \in {"heap", "queue"}
  BY CallTyped
<1>2. CASE TakeBlock(t) \/ MoveList(t) \/ GiveBlock(t)
  BY <1>2, TakeBlockKeeps, MoveListKeeps, GiveBlockKeeps
<1>3. ASSUME LockFirst(t) \/ LockLast(t) \/ Pick(t) \/ Scan(t) \/ LockNear(t) \/ FreeLockFirst(t) \/ FreeScan(t) \/ SumSpace(t)
      PROVE  BlocksInv'
  <2>0. /\ \A u \in Thread : InHand(u)' => InHand(u) /\ call'[u] = call[u]
        /\ ~ AtRest(t)
    BY <1>3, CallHands DEF LockFirst, LockLast, Pick, Scan, LockNear, FreeLockFirst, FreeScan, SumSpace, AtRest
  <2>1. CallAt(t, pc[t], call[t]) /\ call[t].heap \in Heaps
    BY <2>0, CallIsAt DEF MemInv, CallAt
  <2>2. ASSUME hdr' = hdr, blocks' = blocks, live' = live PROVE BlocksInv'
    BY <2>0, <2>2, NothingKeepsBlocks
  <2>3. ASSUME NEW p, IsPart(hdr, live, call[t].heap, p), AllocInternal(hdr, p, call[t].kind), blocks' = blocks PROVE BlocksInv'
    BY <1>1, <2>0, <2>3, AllocKeepsBlocks
  <2>4. CASE LockFirst(t)
    <3>1. blocks' = blocks /\ ((hdr' = hdr /\ live' = live) \/ AllocInternal(hdr, call[t].heap, call[t].kind))
      BY <2>4 DEF LockFirst
    <3>2. IsPart(hdr, live, call[t].heap, call[t].heap)
      BY <2>1, HeapIsPage
    <3> QED BY <2>2, <2>3, <3>1, <3>2
  <2>5. CASE Pick(t)
    <3>1. pc[t] = "pick" /\ blocks' = blocks /\ ((hdr' = hdr /\ live' = live) \/ AllocInternal(hdr, call[t].last, call[t].kind))
      BY <2>5 DEF Pick
    <3>2. IsPart(hdr, live, call[t].heap, call[t].last)
      BY <2>1, <3>1 DEF CallAt
    <3> QED BY <2>2, <2>3, <3>1, <3>2
  <2>6. CASE Scan(t)
    <3>1. PICK i : i = call[t].i
      OBVIOUS
    <3>2. PICK q : q = hdr[call[t].heap].expand[i]
      OBVIOUS
    <3>3. pc[t] = "scan" /\ blocks' = blocks /\ ((hdr' = hdr /\ live' = live) \/ AllocInternal(hdr, q, call[t].kind))
      BY <2>6, <3>1, <3>2 DEF Scan
    <3>4. i >= 1 /\ i <= Len(hdr[call[t].heap].expand) /\ i \in Nat /\ IsExpanding(call[t].heap)
      BY <2>1, <3>1, <3>3, CallTyped DEF CallAt, Looking
    <3>5. IsPart(hdr, live, call[t].heap, q)
      BY <2>1, <3>2, <3>4, LastIsPart
    <3> QED BY <2>2, <2>3, <3>3, <3>5
  <2>7. CASE LockNear(t)
    <3>1. pc[t] = "near" /\ blocks' = blocks /\ ((hdr' = hdr /\ live' = live) \/ AllocInternal(hdr, call[t].near, call[t].kind))
      BY <2>7 DEF LockNear
    <3>2. IsPart(hdr, live, call[t].heap, call[t].near)
      BY <2>1, <3>1 DEF CallAt
    <3> QED BY <2>2, <2>3, <3>1, <3>2
  <2>8. CASE FreeScan(t)
    <3>1. blocks' = blocks /\ live' = live /\ (hdr' = hdr \/ \E q : FreeInternal(q, call[t].page))
      BY <2>8 DEF FreeScan
    <3> QED BY <2>0, <2>2, <3>1, FreeKeepsBlocks
  <2>9. CASE LockLast(t) \/ FreeLockFirst(t) \/ SumSpace(t)
    <3>1. hdr' = hdr /\ blocks' = blocks /\ live' = live
      BY <2>9 DEF LockLast, FreeLockFirst, SumSpace
    <3> QED BY <2>2, <3>1
  <2> QED BY <1>3, <2>4, <2>5, <2>6, <2>7, <2>8, <2>9
<1> QED BY <1>2, <1>3 DEF CallSteps

(* A heap that expands for a program that is alone.                        *)
LEMMA ExpandKeepsBlocks ==
  ASSUME MemInv, MemInv', BlocksInv, pc' = pc, call' = call,
         NEW t, NEW p \in Heaps, IsExpanding(p), NEW kind \in {"heap", "queue"}, Expand(t, p, kind)
  PROVE  BlocksInv'
<1>1. hdr \in [Page -> HeaderType] /\ blocks \in [Page -> 0..NumPages]
  BY MemTyped DEF MemInv
<1>2. PICK n : n = hdr[p].size
  OBVIOUS
<1>3. PICK q : q = LowestBlock(n)
  OBVIOUS
<1>4. PICK s : s = SpaceFor(p)
  OBVIOUS
<1>5. \A u \in Thread : InHand(u)' => InHand(u) /\ call'[u] = call[u]
  BY HandsRest
<1>6. \/ /\ q # NoPage
         /\ AllocInternal(WithPart(hdr, p, q), q, kind)
         /\ blocks' = [blocks EXCEPT ![q] = n]
      \/ /\ q # NoPage /\ s # NoPage
         /\ AllocInternal(WithPart(WithSpace(hdr, p, s), p, q), q, kind)
         /\ blocks' = [blocks EXCEPT ![q] = n, ![s] = n]
      \/ hdr' = hdr /\ blocks' = blocks /\ live' = live
  BY <1>2, <1>3, <1>4 DEF Expand
<1>7. CASE /\ q # NoPage
           /\ AllocInternal(WithPart(hdr, p, q), q, kind)
           /\ blocks' = [blocks EXCEPT ![q] = n]
  BY <1>2, <1>3, <1>5, <1>7, PartTakenKeeps
<1>8. CASE /\ q # NoPage /\ s # NoPage
           /\ AllocInternal(WithPart(WithSpace(hdr, p, s), p, q), q, kind)
           /\ blocks' = [blocks EXCEPT ![q] = n, ![s] = n]
  <2>1. FreeAt(blocks, q, n) /\ q \in Page /\ q # p /\ p \in Page /\ n > 1 /\ n \in Nat /\ blocks[p] = n /\ blocks[q] = 0
    BY <1>2, <1>3, <1>8, BlockForHeap
  <2>2. FreeAt(blocks, s, n)
    <3>1. n >= 1
      BY <2>1
    <3> QED BY ONLY <1>1, <1>2, <1>3, <1>4, <1>8, <2>1, <3>1, SecondBlock
  <2>3. s \in Page /\ blocks[s] = 0 /\ s # p
    <3>1. s \in Page /\ blocks[s] = 0
      BY <2>2, FreeIsNew
    <3> QED BY <2>1, <3>1
  <2>4. blocks'[q] = n /\ blocks'[s] = n /\ \A k \in Page : k # q /\ k # s => blocks'[k] = blocks[k]
    BY <1>1, <1>8, <2>1, <2>3
  <2>5. PICK b : b = blocks'
    OBVIOUS
  <2>6. b[q] > 0 /\ b[s] > 0 /\ b[p] > 0 /\ \A k \in Page : blocks[k] > 0 => b[k] = blocks[k]
    BY <2>1, <2>3, <2>4, <2>5
  <2>7. PICK h1 : h1 = WithSpace(hdr, p, s)
    OBVIOUS
  <2>8. h1 \in [Page -> HeaderType] /\ HeadersStay(h1, b)
    BY ONLY <1>1, <1>2, <2>1, <2>3, <2>6, <2>7, SpaceKeepsHeaders
  <2>9. PICK h : h = WithPart(h1, p, q)
    OBVIOUS
  <2>10. h \in [Page -> HeaderType] /\ HeadersStay(h, b)
    BY ONLY <1>1, <1>2, <2>1, <2>6, <2>8, <2>9, PartKeepsHeaders
  <2>11. AllocInternal(h, q, kind)
    BY <1>8, <2>7, <2>9
  <2>12. HeadersStay(hdr', b)
    BY ONLY <1>1, <2>1, <2>10, <2>11, kind \in {"heap", "queue"}, PageKeepsHeaders
  <2>13. LiveStays
    <3>1. PagesNew(blocks')
      BY ExpandEffect
    <3> QED BY <3>1 DEF PagesNew, LiveStays
  <2> QED BY <1>5, <2>5, <2>6, <2>12, <2>13, BlocksTaken
<1>9. CASE hdr' = hdr /\ blocks' = blocks /\ live' = live
  BY <1>5, <1>9, NothingKeepsBlocks
<1> QED BY <1>6, <1>7, <1>8, <1>9

(* The calls without locks.                                                *)
LEMMA AllocAloneKeeps ==
  ASSUME MemInv, MemInv', BlocksInv, pc' = pc, call' = call,
         NEW t, NEW p \in Heaps, NEW kind \in {"heap", "queue"}, AllocNoLock(t, p, kind)
  PROVE  BlocksInv'
<1>1. PICK n \in Nat : n = Len(Parts(hdr, p)) /\ n >= 1
  BY PartsLength
<1>2. PICK roomy : roomy = {i \in 1..n : ~ Loaded(Parts(hdr, p)[i])}
  OBVIOUS
<1>3. \/ AllocInternal(hdr, p, kind) /\ blocks' = blocks
      \/ /\ roomy # {} /\ blocks' = blocks
         /\ AllocInternal(hdr, Parts(hdr, p)[IF n \in roomy THEN n ELSE CHOOSE i \in roomy : \A j \in roomy : i <= j], kind)
      \/ IsExpanding(p) /\ Expand(t, p, kind)
  BY <1>1, <1>2 DEF AllocNoLock
<1>4. CASE AllocInternal(hdr, p, kind) /\ blocks' = blocks
  <2>1. IsPart(hdr, live, p, p)
    BY HeapIsPage
  <2> QED BY <1>4, <2>1, HandsRest, AllocKeepsBlocks
<1>5. CASE /\ roomy # {} /\ blocks' = blocks
           /\ AllocInternal(hdr, Parts(hdr, p)[IF n \in roomy THEN n ELSE CHOOSE i \in roomy : \A j \in roomy : i <= j], kind)
  <2>1. PICK i : i = IF n \in roomy THEN n ELSE CHOOSE m \in roomy : \A j \in roomy : m <= j
    OBVIOUS
  <2>2. roomy \in SUBSET Nat /\ roomy \subseteq 1..n
    BY <1>2
  <2>3. \E k \in roomy : \A j \in roomy : k <= j
    BY ONLY <1>5, <2>2, LeastNatural
  <2>4. i \in roomy
    BY <2>1, <2>3
  <2>5. IsPart(hdr, live, p, Parts(hdr, p)[i])
    BY <1>1, <2>2, <2>4, PartsLength
  <2>6. AllocInternal(hdr, Parts(hdr, p)[i], kind)
    BY <1>5, <2>1
  <2> QED BY <1>5, <2>5, <2>6, HandsRest, AllocKeepsBlocks
<1>6. CASE IsExpanding(p) /\ Expand(t, p, kind)
  BY <1>6, ExpandKeepsBlocks
<1> QED BY <1>3, <1>4, <1>5, <1>6

LEMMA AloneKeepsBlocks ==
  ASSUME MemInv, MemInv', BlocksInv, NEW t, NoLock(t)
  PROVE  BlocksInv'
<1>0. pc' = pc /\ call' = call
  BY DEF NoLock
<1>1. ASSUME NEW p \in Heaps, NEW kind \in {"heap", "queue"}, AllocNoLock(t, p, kind) PROVE BlocksInv'
  BY <1>0, <1>1, AllocAloneKeeps
<1>2. ASSUME NEW q \in Pages, NEW kind \in {"heap", "queue"}, NearAllocNoLock(t, q, kind) PROVE BlocksInv'
  <2>1. PICK p : p = BaseOf(FindHeader(Address(q)))
    OBVIOUS
  <2>2. \/ blocks' = blocks /\ AllocInternal(hdr, p, kind)
        \/ AllocNoLock(t, FirstOf(p), "heap")
    BY <1>2, <2>1 DEF NearAllocNoLock
  <2>3. FirstOf(p) \in Heaps /\ IsPart(hdr, live, FirstOf(p), p)
    BY <2>1, PageHeap
  <2> QED BY <1>0, <1>1, <2>2, <2>3, HandsRest, AllocKeepsBlocks
<1>3. ASSUME NEW q, FreeNoLock(q), GiveUp(q), blocks' = blocks PROVE BlocksInv'
  <2>1. (\E p : FreeInternal(p, q)) /\ live' \subseteq live
    BY <1>3 DEF FreeNoLock, GiveUp
  <2> QED BY <1>0, <1>3, <2>1, HandsRest, FreeKeepsBlocks
<1> QED BY <1>1, <1>2, <1>3 DEF NoLock

(* Every step.                                                             *)
LEMMA BlocksNext ==
  ASSUME MemInv, MemInv', BlocksInv, [CNext]_cvars
  PROVE  BlocksInv'
<1>1. CASE UNCHANGED cvars
  BY <1>1, HandsRest, NothingKeepsBlocks DEF cvars, svars
<1>2. ASSUME NEW t \in Thread, SOps(t), pc' = pc, call' = call PROVE BlocksInv'
  <2>1. \/ \E kind \in {"heap", "stack", "space"}, n \in use.pages : Create(t, kind, n)
        \/ \E p \in live :
             \/ DestroySimple(t, p)
             \/ \E n \in use.sizes : HeapAlloc(t, p, n) \/ StackAlloc(t, p, n)
             \/ \E x \in PiecesIn(p), n \in use.sizes : HeapFree(t, p, x, n)
             \/ \E x \in PiecesIn(p) : StackDealloc(t, p, x)
        \/ \E x \in owned, n \in use.sizes :
             NearAlloc(t, x, n) \/ NearDealloc(t, x, n) \/ StackNearAlloc(t, x, n)
    BY <1>2 DEF SOps
  <2> QED BY <1>2, <2>1, NewKeepsBlocks, PiecesKeepBlocks, DestroyKeepsBlocks
<1>3. ASSUME NEW t \in Thread, NEW p, FreeSpace(t, p) \/ Advise(t, p) \/ \E kind : Alloc(t, p, kind) PROVE BlocksInv'
  <2>1. hdr' = hdr /\ blocks' = blocks /\ live' = live
    BY <1>3 DEF FreeSpace, Advise, Alloc
  <2>2. \A u \in Thread : InHand(u)' => InHand(u) /\ call'[u] = call[u]
    <3>1. CASE Advise(t, p)
      BY <3>1, HandsRest DEF Advise
    <3>2. CASE FreeSpace(t, p) \/ \E kind : Alloc(t, p, kind)
      <4>1. \E place, c : place \notin {"space", "back"} /\ pc' = [pc EXCEPT ![t] = place] /\ call' = [call EXCEPT ![t] = c]
        BY <3>2 DEF FreeSpace, Alloc, Goto
      <4> QED BY <4>1, HandsPass
    <3> QED BY <1>3, <3>1, <3>2
  <2> QED BY <2>1, <2>2, NothingKeepsBlocks
<1>4. ASSUME NEW t \in Thread, NEW q, \E kind : NearAllocPage(t, q, kind) PROVE BlocksInv'
  <2>1. hdr' = hdr /\ blocks' = blocks /\ live' = live
    BY <1>4 DEF NearAllocPage
  <2>2. \E c : pc' = [pc EXCEPT ![t] = "near"] /\ call' = [call EXCEPT ![t] = c]
    BY <1>4 DEF NearAllocPage, Goto
  <2>3. \A u \in Thread : InHand(u)' => InHand(u) /\ call'[u] = call[u]
    BY <2>2, HandsPass
  <2> QED BY <2>1, <2>3, NothingKeepsBlocks
<1>5. ASSUME NEW t \in Thread, NEW q, FreePage(t, q) PROVE BlocksInv'
  <2>1. hdr' = hdr /\ blocks' = blocks /\ live' \subseteq live
    BY <1>5 DEF FreePage, GiveUp
  <2>2. \E c : pc' = [pc EXCEPT ![t] = "freefirst"] /\ call' = [call EXCEPT ![t] = c]
    BY <1>5 DEF FreePage, Goto
  <2>3. \A u \in Thread : InHand(u)' => InHand(u) /\ call'[u] = call[u]
    BY <2>2, HandsPass
  <2>4. \A k \in Page : LinksStay(hdr'[k], hdr[k])
    BY <2>1 DEF LinksStay
  <2>5. HeadersStay(hdr', blocks) /\ PagesNew(blocks)
    BY <2>1, <2>4, SameHeaders DEF PagesNew
  <2> QED BY <2>1, <2>3, <2>5, NoBlockGoes
<1>6. ASSUME NEW t \in Thread, NEW q, NearDeallocPage(t, q) PROVE BlocksInv'
  <2>1. blocks' = blocks /\ live' \subseteq live /\ pc' = pc /\ call' = call /\ \E p : FreeInternal(p, q)
    BY <1>6 DEF NearDeallocPage, GiveUp
  <2> QED BY <2>1, HandsRest, FreeKeepsBlocks
<1>7. ASSUME NEW t \in Thread, NEW p, DestroyCompound(t, p) PROVE BlocksInv'
  BY <1>7, DestroyKeepsBlocks
<1>8. CASE CNext
  <2>1. PICK t \in Thread :
          \/ AtRest(t) /\ SOps(t) /\ UNCHANGED <<pc, call>>
          \/ CallSteps(t)
          \/ NoLock(t)
          \/ \E expanding \in BOOLEAN, n \in use.pages : CreateCompound(t, expanding, n)
          \/ \E p \in Heaps :
               \/ FreeSpace(t, p) \/ Advise(t, p) \/ DestroyCompound(t, p)
               \/ \E kind \in {"heap", "queue"} : Alloc(t, p, kind)
          \/ \E q \in Pages : NearDeallocPage(t, q) \/ FreePage(t, q)
          \/ \E q \in Pages \cup Heaps, kind \in {"heap", "queue"} : NearAllocPage(t, q, kind)
    BY <1>8 DEF CNext
  <2> QED BY <2>1, <1>2, <1>3, <1>4, <1>5, <1>6, <1>7, CallKeepsBlocks, AloneKeepsBlocks, CreateKeepsBlocks
<1> QED BY <1>1, <1>8

(* At the start no block is in use.                                        *)
LEMMA BlocksInit ==
  ASSUME CInit
  PROVE  BlocksInv
<1>1. (\A q \in Page : hdr[q] = NoHeader) /\ \A t \in Thread : pc[t] = "idle"
  BY DEF CInit, SInit
<1>2. NoHeader.space = NoPage /\ NoHeader.kind = "none" /\ NoHeader.expand = <<>>
  BY DEF NoHeader, Header
<1> QED BY <1>1, <1>2 DEF BlocksInv, HeaderGood, HandGood, InHand

-----------------------------------------------------------------------------
(* Locks.  The lock of a page as thread t has it n times.                  *)
Hold(t, n) == IF n = 0 THEN Unlocked ELSE [owner |-> t, depth |-> n]

LockOk(lk) ==
  /\ lk \in [Page -> [owner : Thread \cup {NoThread}, depth : Nat]]
  /\ \A p \in Page : lk[p].owner # NoThread => lk[p].owner \in use.threads

(* Locks lk, that a step of t has made of those there were, as many times  *)
(* as N says.                                                              *)
LocksBy(lk, t, N) ==
  /\ LockOk(lk)
  /\ N \in [Page -> Nat]
  /\ ~ Unlocks =>
       \A k \in Page : \/ lk[k] = lock[k] /\ N[k] = Depth(t, k)
                       \/ CanLock(k, t) /\ lk[k] = Hold(t, N[k])

(* How often a call has a lock.                                            *)
LEMMA DepthIs ==
  ASSUME NEW t, NEW k
  PROVE  Depth(t, k) \in Nat
BY DEF Depth

(* A thread of this behaviour.                                             *)
LEMMA ThreadIs ==
  ASSUME StateType, NEW t \in use.threads
  PROVE  t \in Thread /\ t # NoThread
BY UseFacts, HeapsAssumption

(* A lock that one thread has, so many times.                              *)
LEMMA HoldIs ==
  ASSUME NEW t \in Thread, NEW n \in Nat
  PROVE  /\ Hold(t, n) \in [owner : Thread \cup {NoThread}, depth : Nat]
         /\ Hold(t, n).depth = n /\ Hold(t, n).owner \in {t, NoThread}
         /\ n > 0 => Hold(t, n).owner = t
         /\ Hold(t, n) = Unlocked <=> n = 0
BY DEF Hold, Unlocked

(* All locks are those of threads of this behaviour.                       *)
LEMMA LockOkNow ==
  ASSUME LockGood
  PROVE  LockOk(lock)
BY DEF LockGood, LockType, LockOk

(* A lock a thread may take is free, or it has it already.                 *)
LEMMA OwnLock ==
  ASSUME StateType, LockGood, ~ Unlocks, NEW t \in use.threads, NEW k \in Page
  PROVE  /\ CanLock(k, t) => lock[k] = Hold(t, Depth(t, k))
         /\ Depth(t, k) > 0 => CanLock(k, t)
         /\ \A u \in Thread : u # t /\ CanLock(k, t) => Depth(u, k) = 0
<1>0. t \in Thread /\ t # NoThread
  BY ThreadIs
<1>1. PICK d : d = [u \in Thread |-> Depth(u, k)]
  OBVIOUS
<1>2. d \in [Thread -> Nat] /\ \A u \in Thread : Depth(u, k) = d[u]
  BY <1>1, DepthIs
<1>3. \A u \in Thread : d[u] > 0 => lock[k] = [owner |-> u, depth |-> d[u]]
  BY <1>2 DEF LockGood
<1>4. lock[k] # Unlocked => \E u \in Thread : d[u] > 0
  BY <1>2 DEF LockGood
<1>5. NoThread \notin Thread
  BY HeapsAssumption
<1>6. ASSUME NEW u \in Thread, d[u] > 0 PROVE lock[k].owner = u
  <2>1. lock[k] = [owner |-> u, depth |-> d[u]]
    BY <1>3, <1>6
  <2> QED BY ONLY <2>1
<1>7. \A u \in Thread : CanLock(k, t) /\ u # t => d[u] = 0
  BY ONLY <1>0, <1>2, <1>5, <1>6 DEF CanLock
<1>8. d[t] > 0 => CanLock(k, t)
  BY <1>0, <1>6 DEF CanLock
<1>9. ASSUME CanLock(k, t) PROVE lock[k] = Hold(t, d[t])
  <2>1. CASE d[t] = 0
    <3>1. \A u \in Thread : ~ (d[u] > 0)
      BY ONLY <1>0, <1>2, <1>7, <1>9, <2>1
    <3> QED BY <1>4, <2>1, <3>1 DEF Hold
  <2>2. CASE d[t] # 0
    <3>1. d[t] > 0
      BY <1>0, <1>2, <2>2
    <3> QED BY <1>0, <1>3, <2>2, <3>1 DEF Hold
  <2> QED BY <2>1, <2>2
<1> QED BY <1>0, <1>2, <1>7, <1>8, <1>9

(* Locks there are.                                                        *)
LEMMA LocksNow ==
  ASSUME LockGood, NEW t, NEW N, N = [k \in Page |-> Depth(t, k)]
  PROVE  LocksBy(lock, t, N)
BY LockOkNow, DepthIs DEF LocksBy

(* A lock is taken: one more.                                              *)
LEMMA LocksTaken ==
  ASSUME StateType, LockGood, NEW t \in use.threads, NEW lk, NEW N, LocksBy(lk, t, N),
         NEW q \in Page, CanLock(q, t), NEW N2, N2 = [N EXCEPT ![q] = @ + 1]
  PROVE  LocksBy(Locked(lk, q, t), t, N2)
<1>1. PICK l2 : l2 = Locked(lk, q, t)
  OBVIOUS
<1>2. /\ LockOk(lk) /\ N \in [Page -> Nat] /\ lk \in [Page -> [owner : Thread \cup {NoThread}, depth : Nat]]
  BY DEF LocksBy, LockOk
<1>3. t \in Thread /\ t # NoThread
  BY ThreadIs
<1>4. /\ l2[q] = [owner |-> t, depth |-> lk[q].depth + 1] /\ \A k \in Page : k # q => l2[k] = lk[k]
      /\ lk[q].depth \in Nat /\ DOMAIN l2 = Page
  BY <1>1, <1>2 DEF Locked
<1>5. l2 \in [Page -> [owner : Thread \cup {NoThread}, depth : Nat]]
  BY <1>1, <1>2, <1>3, <1>4 DEF Locked
<1>6. LockOk(l2)
  BY <1>2, <1>4, <1>5 DEF LockOk
<1>7. N2 \in [Page -> Nat] /\ N2[q] = N[q] + 1 /\ \A k \in Page : k # q => N2[k] = N[k]
  BY <1>2
<1>8. ASSUME ~ Unlocks, NEW k \in Page
      PROVE  \/ l2[k] = lock[k] /\ N2[k] = Depth(t, k)
             \/ CanLock(k, t) /\ l2[k] = Hold(t, N2[k])
  <2>1. \/ lk[k] = lock[k] /\ N[k] = Depth(t, k)
        \/ CanLock(k, t) /\ lk[k] = Hold(t, N[k])
    BY <1>8 DEF LocksBy
  <2>2. CASE k # q
    BY <1>4, <1>7, <2>1, <2>2
  <2>3. CASE k = q
    <3>1. lk[q] = Hold(t, N[q])
      BY <1>8, <2>1, <2>3, OwnLock
    <3>2. lk[q].depth = N[q]
      BY <1>2, <1>3, <3>1, HoldIs
    <3>3. l2[q] = Hold(t, N2[q])
      BY <1>2, <1>4, <1>7, <3>2 DEF Hold
    <3> QED BY <2>3, <3>3
  <2> QED BY <2>2, <2>3
<1> QED BY <1>1, <1>6, <1>7, <1>8 DEF LocksBy

(* What a release does to a lock.                                          *)
LEMMA ReleasedIs ==
  ASSUME NEW lk \in [Page -> [owner : Thread \cup {NoThread}, depth : Nat]]
  PROVE  \A k \in Page : Released(lk, k)[k] =
           IF lk[k].depth <= 1 THEN Unlocked ELSE [owner |-> lk[k].owner, depth |-> lk[k].depth - 1]
<1>1. DOMAIN lk = Page
  OBVIOUS
<1> QED BY <1>1 DEF Released

(* One less of each of ps.                                                 *)
Drops(lk, N, ps, l2, N2) ==
  /\ N2 \in [Page -> Nat] /\ \A k \in Page : N[k] = N2[k] + (IF k \in ps THEN 1 ELSE 0)
  /\ l2 = [k \in Page |-> IF k \in ps THEN Released(lk, k)[k] ELSE lk[k]]

(* Locks are released, one after the other.                                *)
LEMMA LocksDropped ==
  ASSUME StateType, LockGood, NEW t \in use.threads, NEW lk, NEW N, LocksBy(lk, t, N),
         NEW ps, NEW l2, NEW N2, Drops(lk, N, ps, l2, N2)
  PROVE  LocksBy(l2, t, N2)
<1>1. /\ N2 \in [Page -> Nat] /\ \A k \in Page : N[k] = N2[k] + (IF k \in ps THEN 1 ELSE 0)
      /\ l2 = [k \in Page |-> IF k \in ps THEN Released(lk, k)[k] ELSE lk[k]]
  BY DEF Drops
<1>2. /\ LockOk(lk) /\ N \in [Page -> Nat] /\ lk \in [Page -> [owner : Thread \cup {NoThread}, depth : Nat]]
  BY DEF LocksBy, LockOk
<1>3. t \in Thread /\ t # NoThread
  BY ThreadIs
<1>4. \A k \in Page : /\ lk[k].depth \in Nat /\ lk[k].owner \in Thread \cup {NoThread}
                      /\ lk[k] = [owner |-> lk[k].owner, depth |-> lk[k].depth]
  BY <1>2
<1>5. \A k \in Page : Released(lk, k)[k] = IF lk[k].depth <= 1 THEN Unlocked ELSE [owner |-> lk[k].owner, depth |-> lk[k].depth - 1]
  BY ONLY <1>2, ReleasedIs
<1>6. ASSUME NEW k \in Page PROVE l2[k] \in [owner : Thread \cup {NoThread}, depth : Nat] /\ l2[k].owner \in {lk[k].owner, NoThread}
  <2>0. PICK n : n = lk[k].depth
    OBVIOUS
  <2>0a. n \in Nat
    BY <1>4, <2>0
  <2>0b. Released(lk, k)[k] = IF n <= 1 THEN Unlocked ELSE [owner |-> lk[k].owner, depth |-> n - 1]
    BY <1>5, <2>0
  <2>0c. l2[k] = IF k \in ps THEN Released(lk, k)[k] ELSE lk[k]
    BY <1>1
  <2>1. l2[k] \in {lk[k], Unlocked} \/ (n > 1 /\ l2[k] = [owner |-> lk[k].owner, depth |-> n - 1])
    BY ONLY <2>0a, <2>0b, <2>0c
  <2>2. Unlocked \in [owner : Thread \cup {NoThread}, depth : Nat] /\ Unlocked.owner = NoThread
    BY DEF Unlocked
  <2>3. n > 1 => n - 1 \in Nat
    BY ONLY <2>0a
  <2> QED BY <1>2, <1>4, <2>1, <2>2, <2>3
<1>7. LockOk(l2)
  BY <1>1, <1>2, <1>6 DEF LockOk
<1>8. ASSUME ~ Unlocks, NEW k \in Page
      PROVE  \/ l2[k] = lock[k] /\ N2[k] = Depth(t, k)
             \/ CanLock(k, t) /\ l2[k] = Hold(t, N2[k])
  <2>1. \/ lk[k] = lock[k] /\ N[k] = Depth(t, k)
        \/ CanLock(k, t) /\ lk[k] = Hold(t, N[k])
    BY <1>8 DEF LocksBy
  <2>2. CASE k \notin ps
    BY <1>1, <2>1, <2>2
  <2>3. CASE k \in ps
    <3>1. N[k] = N2[k] + 1 /\ N2[k] \in Nat
      BY <1>1, <2>3
    <3>2. CanLock(k, t) /\ lk[k] = Hold(t, N[k])
      BY <1>8, <2>1, <3>1, OwnLock
    <3>3. lk[k].depth = N[k] /\ lk[k].owner = t
      BY <1>2, <1>3, <3>1, <3>2, HoldIs
    <3>4. l2[k] = Hold(t, N2[k])
      BY <1>1, <1>5, <2>3, <3>1, <3>3 DEF Hold
    <3> QED BY <3>2, <3>4
  <2> QED BY <2>2, <2>3
<1> QED BY <1>1, <1>7, <1>8 DEF LocksBy

(* Done: the locks of ps, and the one of a near allocate.                  *)
LEMMA LocksDone ==
  ASSUME StateType, LockGood, NEW t \in use.threads, NEW lk, NEW N, LocksBy(lk, t, N), NEW ps,
         \A k \in Page : N[k] = (IF k \in ps THEN 1 ELSE 0) + (IF k = call[t].near THEN 1 ELSE 0),
         NEW N2, N2 = [k \in Page |-> 0]
  PROVE  LocksBy(ReleaseCall(t, lk, ps), t, N2)
<1>1. PICK l1 : l1 = ReleaseAll(lk, ps \ {NoPage})
  OBVIOUS
<1>2. l1 = [k \in Page |-> IF k \in ps THEN Released(lk, k)[k] ELSE lk[k]]
  BY <1>1, PageIs DEF ReleaseAll
<1>3. PICK N1 : N1 = [k \in Page |-> IF k = call[t].near THEN 1 ELSE 0]
  OBVIOUS
<1>4. N1 \in [Page -> Nat] /\ \A k \in Page : N[k] = N1[k] + (IF k \in ps THEN 1 ELSE 0)
  BY <1>3
<1>4a. Drops(lk, N, ps, l1, N1)
  BY ONLY <1>2, <1>4 DEF Drops
<1>5. LocksBy(l1, t, N1)
  BY ONLY StateType, LockGood, t \in use.threads, LocksBy(lk, t, N), <1>4a, LocksDropped
<1>6. CASE call[t].near = NoPage
  <2>1. N1 = N2
    BY <1>3, <1>6, PageIs
  <2> QED BY <1>1, <1>5, <1>6, <2>1 DEF ReleaseCall
<1>7. CASE call[t].near # NoPage
  <2>1. PICK r : r = call[t].near
    OBVIOUS
  <2>2. PICK l2 : l2 = Released(l1, r)
    OBVIOUS
  <2>2a. PICK rs : rs = {r}
    OBVIOUS
  <2>3. l2 = [k \in Page |-> IF k \in rs THEN Released(l1, k)[k] ELSE l1[k]]
    <3>1. DOMAIN l1 = Page
      BY <1>2
    <3> QED BY ONLY <2>2, <2>2a, <3>1 DEF Released
  <2>4. N2 \in [Page -> Nat] /\ \A k \in Page : N1[k] = N2[k] + (IF k \in rs THEN 1 ELSE 0)
    BY <1>3, <2>1, <2>2a
  <2>5. LocksBy(l2, t, N2)
    <3>1. Drops(l1, N1, rs, l2, N2)
      BY ONLY <2>3, <2>4 DEF Drops
    <3> QED BY ONLY StateType, LockGood, t \in use.threads, <1>5, <3>1, LocksDropped
  <2> QED BY <1>1, <1>7, <2>1, <2>2, <2>5 DEF ReleaseCall
<1> QED BY <1>6, <1>7

-----------------------------------------------------------------------------
(* What a step leaves to the other calls: the parts they have the locks of.*)
OthersStill(t) ==
  \A u \in Thread : u # t /\ ~ AtRest(u) =>
    \A k : IsPart(hdr, live, call[u].heap, k) /\ Depth(u, k) > 0 => hdr'[k] = hdr[k]

(* Where there is one thread, the others are at rest.                      *)
LEMMA OnlyThread ==
  ASSUME MemInv, NEW t, use.threads \subseteq {t}
  PROVE  \A u \in Thread : u # t => AtRest(u)
BY DEF MemInv, CallGood

(* Where pages are freed in heaps that expand, there is one thread.        *)
LEMMA FreeAlone ==
  ASSUME MemInv, SafeUses, NEW t \in use.threads, Unlocks
  PROVE  use.threads \subseteq {t}
<1>1. use \in Uses
  BY DEF MemInv, StateType
<1>2. \E s \in Thread : use.threads \subseteq {s}
  BY <1>1 DEF SafeUses, Unlocks
<1> QED BY <1>2

(* The other calls do not see what is done under a lock they have not.     *)
LEMMA OthersAre ==
  ASSUME MemInv, LockGood, SafeUses, NEW t \in use.threads,
         \/ use.threads \subseteq {t}
         \/ \E p : PartsKept(hdr, live, hdr', p) /\ (p \in Page => CanLock(p, t))
  PROVE  OthersStill(t)
<1>1. CASE use.threads \subseteq {t}
  BY <1>1, OnlyThread DEF OthersStill
<1>2. CASE Unlocks
  BY <1>2, OnlyThread, FreeAlone DEF OthersStill
<1>3. ASSUME ~ Unlocks, NEW p, PartsKept(hdr, live, hdr', p), p \in Page => CanLock(p, t),
             NEW u \in Thread, u # t, ~ AtRest(u), NEW k, IsPart(hdr, live, call[u].heap, k), Depth(u, k) > 0
      PROVE  hdr'[k] = hdr[k]
  <2>1. StateType
    BY DEF MemInv
  <2>2. k \in Page
    BY <1>3, HeapIsPage
  <2>3. CASE k = p
    <3>1. CanLock(k, t)
      BY <1>3, <2>2, <2>3
    <3>2. Depth(u, k) = 0
      BY ONLY <1>3, <2>1, <2>2, <3>1, LockGood, t \in use.threads, OwnLock
    <3> QED BY ONLY <1>3, <3>2
  <2>4. CASE k # p
    BY <1>3, <2>4 DEF PartsKept
  <2> QED BY <2>3, <2>4
<1> QED BY <1>1, <1>2, <1>3 DEF OthersStill

(* Whether a part is loaded is seen in its header.                         *)
LEMMA LoadedSame ==
  ASSUME NEW k, hdr'[k] = hdr[k]
  PROVE  Loaded(k)' <=> Loaded(k)
BY DEF Loaded, PercentUsed, Avail

(* A thread at rest has no lock.                                           *)
LEMMA DepthRests ==
  ASSUME NEW t, AtRest(t), NEW k
  PROVE  Depth(t, k) = 0
<1>1. HoldsOf(t) = {} /\ NearOf(t) = {}
  BY DEF HoldsOf, NearOf, AtRest, Looking, Growing
<1> QED BY <1>1 DEF Depth

(* ... nor does it after the step that brings it there.                    *)
LEMMA DepthRestsNext ==
  ASSUME NEW t, AtRest(t)', NEW k
  PROVE  Depth(t, k)' = 0
<1>1. HoldsOf(t)' = {} /\ NearOf(t)' = {}
  BY DEF HoldsOf, NearOf, AtRest, Looking, Growing
<1> QED BY <1>1 DEF Depth

(* A call that stands has the locks it had.                                *)
LEMMA DepthSame ==
  ASSUME NEW u, pc'[u] = pc[u], call'[u] = call[u],
         pc[u] \in {"sum"} \cup Looking => hdr'[call[u].heap] = hdr[call[u].heap], NEW k
  PROVE  Depth(u, k)' = Depth(u, k)
<1>1. NearOf(u)' = NearOf(u)
  BY DEF NearOf
<1>2. HoldsOf(u)' = HoldsOf(u)
  <2>1. CASE pc[u] \in Looking
    BY <2>1 DEF HoldsOf, PartsAfterFirst, Looking, Growing
  <2>2. CASE pc[u] = "sum"
    BY <2>2 DEF HoldsOf, PartsAfterFirst, Looking, Growing
  <2>3. CASE pc[u] \notin {"sum"} \cup Looking
    BY <2>3 DEF HoldsOf
  <2> QED BY <2>1, <2>2, <2>3
<1> QED BY <1>1, <1>2 DEF Depth

(* A call that is past its first lock has the lock of the first part.      *)
LEMMA HoldsFirst ==
  ASSUME NEW u, pc[u] \in {"last", "pick", "sum"} \cup Looking
  PROVE  Depth(u, call[u].heap) > 0 /\ call[u].heap \in HoldsOf(u)
<1>1. call[u].heap \in HoldsOf(u)
  BY DEF HoldsOf, Looking, Growing
<1> QED BY <1>1 DEF Depth

(* The other calls have the locks they had, and know what they knew.       *)
LEMMA OtherLocks ==
  ASSUME MemInv, LockGood, NEW t, OthersStill(t), NEW u \in Thread, u # t, pc'[u] = pc[u], call'[u] = call[u]
  PROVE  /\ \A k : Depth(u, k)' = Depth(u, k)
         /\ LookGood(u) => LookGood(u)'
<1>1. PICK c : c = call[u].heap
  OBVIOUS
<1>2. CASE pc[u] \notin {"last", "pick", "sum"} \cup Looking
  <2>1. LookGood(u)'
    BY <1>2 DEF LookGood, Looking
  <2>2. \A k : Depth(u, k)' = Depth(u, k)
    BY <1>2, DepthSame
  <2> QED BY <2>1, <2>2
<1>3. CASE pc[u] \in {"last", "pick", "sum"} \cup Looking
  <2>1. ~ AtRest(u) /\ CallGood(u)
    BY <1>3 DEF AtRest, MemInv, Looking, Growing
  <2>2. c \in Heaps /\ IsPart(hdr, live, c, c)
    BY <1>1, <2>1, HeapIsPage DEF CallGood
  <2>3. hdr'[c] = hdr[c]
    BY <1>1, <1>3, <2>1, <2>2, HoldsFirst DEF OthersStill
  <2>4. \A k : Depth(u, k)' = Depth(u, k)
    BY <1>1, <2>3, DepthSame
  <2>5. ASSUME LookGood(u), pc[u] \in {"last", "pick"} \cup Looking PROVE LookGood(u)'
    <3>1. call'[u].last = LastPart(c)'
      BY <1>1, <2>3, <2>5 DEF LookGood, LastPart
    <3>2. ASSUME pc[u] \in Looking, NEW k \in HoldsOf(u), IsPart(hdr, live, c, k), Loaded(k) PROVE Loaded(k)'
      <4>1. Depth(u, k) > 0
        BY <3>2 DEF Depth
      <4>2. hdr'[k] = hdr[k]
        BY <1>1, <2>1, <3>2, <4>1 DEF OthersStill
      <4> QED BY <3>2, <4>2, LoadedSame
    <3>3. CASE pc[u] \in Looking
      <4>1. IsExpanding(c) /\ IsPart(hdr, live, c, call[u].last) /\ call[u].i >= 1 /\ call[u].i <= Len(hdr[c].expand)
            /\ call[u].i \in Nat
        BY <1>1, <2>1, <3>3, CallTyped DEF CallGood
      <4>2. HoldsOf(u) = {c, call[u].last} \cup PartsAfterFirst(c, call[u].i - 1)
        BY <1>1, <3>3 DEF HoldsOf, Looking, Growing
      <4>3. Loaded(call[u].last)'
        BY <2>5, <3>2, <3>3, <4>1, <4>2 DEF LookGood
      <4>4. ASSUME NEW j \in 1..call[u].i - 1 PROVE Loaded(hdr[c].expand[j])'
        <5>1. j \in 1..Len(hdr[c].expand)
          BY <2>2, <4>1, LastIsPart
        <5>2. IsPart(hdr, live, c, hdr[c].expand[j]) /\ hdr[c].expand[1] = c
          BY <2>2, <4>1, <5>1, LastIsPart
        <5>3. hdr[c].expand[j] \in HoldsOf(u)
          BY <4>1, <4>2, <5>2 DEF PartsAfterFirst
        <5>4. Loaded(hdr[c].expand[j])
          BY <1>1, <2>5, <3>3 DEF LookGood
        <5>5. PICK k : k = hdr[c].expand[j]
          OBVIOUS
        <5>6. Loaded(k)'
          BY <3>2, <3>3, <5>2, <5>3, <5>4, <5>5
        <5>7. hdr'[c].expand[j] = k
          BY <2>3, <5>5
        <5> QED BY <5>6, <5>7 DEF Loaded, PercentUsed, Avail
      <4>5. pc[u] \in Growing => call[u].i > Others(Len(hdr'[c].expand))
        BY <1>1, <2>3, <2>5 DEF LookGood
      <4> QED BY <1>1, <3>1, <3>3, <4>3, <4>4, <4>5 DEF LookGood
    <3>4. CASE pc[u] \notin Looking
      BY <1>1, <3>1, <3>4 DEF LookGood, Looking
    <3> QED BY <3>3, <3>4
  <2>6. CASE pc[u] = "sum"
    BY <2>6, <2>4 DEF LookGood, Looking, Growing
  <2> QED BY <1>3, <2>4, <2>5, <2>6
<1> QED BY <1>2, <1>3

(* A step of one call, to be shown for the locks of that call.             *)
LEMMA LocksStep ==
  ASSUME MemInv, CallLocksInv, NEW t \in use.threads, OthersStill(t), use' = use,
         \A u \in Thread : u # t => pc'[u] = pc[u] /\ call'[u] = call[u],
         NEW N, LocksBy(lock', t, N), \A k \in Page : N[k] = Depth(t, k)', LookGood(t)'
  PROVE  CallLocksInv'
<1>0. StateType /\ LockGood /\ t \in Thread /\ t # NoThread
  BY ThreadIs DEF MemInv, CallLocksInv
<1>1. \A u \in Thread : LookGood(u)'
  <2>1. ASSUME NEW u \in Thread, u # t PROVE LookGood(u)'
    BY <1>0, <2>1, OtherLocks DEF CallLocksInv
  <2> QED BY <2>1
<1>2. \A u \in Thread : u # t => \A k : Depth(u, k)' = Depth(u, k)
  BY <1>0, OtherLocks
<1>3. LockOk(lock')
  BY DEF LocksBy
<1>4. LockType' /\ \A p \in Page : lock'[p].owner # NoThread => lock'[p].owner \in use'.threads
  BY <1>3 DEF LockOk, LockType
<1>5. ASSUME ~ Unlocks, NEW k \in Page
      PROVE  /\ \A u \in Thread : Depth(u, k)' > 0 => lock'[k] = [owner |-> u, depth |-> Depth(u, k)']
             /\ lock'[k] # Unlocked => \E u \in Thread : Depth(u, k)' > 0
  <2>1. PICK d : d = [u \in Thread |-> Depth(u, k)]
    OBVIOUS
  <2>2. PICK e : e = [u \in Thread |-> Depth(u, k)']
    OBVIOUS
  <2>3. /\ d \in [Thread -> Nat] /\ \A u \in Thread : Depth(u, k) = d[u]
        /\ \A u \in Thread : Depth(u, k)' = e[u]
        /\ \A u \in Thread : u # t => e[u] = d[u]
    BY <1>2, <2>1, <2>2, DepthIs
  <2>4. N[k] = e[t] /\ N[k] \in Nat
    BY <1>0, <2>3 DEF LocksBy
  <2>5. /\ \A u \in Thread : d[u] > 0 => lock[k] = [owner |-> u, depth |-> d[u]]
        /\ lock[k] # Unlocked => \E u \in Thread : d[u] > 0
    BY <1>0, <1>5, <2>3 DEF LockGood
  <2>6. \/ lock'[k] = lock[k] /\ N[k] = Depth(t, k)
        \/ CanLock(k, t) /\ lock'[k] = Hold(t, N[k])
    BY <1>5 DEF LocksBy
  <2>7. CASE lock'[k] = lock[k] /\ N[k] = Depth(t, k)
    <3>1. e[t] = d[t]
      BY <1>0, <2>3, <2>4, <2>7
    <3>2. \A u \in Thread : e[u] = d[u]
      BY <2>3, <3>1
    <3> QED BY <2>3, <2>5, <2>7, <3>2
  <2>8. CASE CanLock(k, t) /\ lock'[k] = Hold(t, N[k])
    <3>1. \A u \in Thread : u # t => e[u] = 0
      <4>1. \A u \in Thread : u # t => Depth(u, k) = 0
        BY ONLY <1>0, <1>5, <2>8, t \in use.threads, OwnLock
      <4> QED BY <2>3, <4>1
    <3>2. \A u \in Thread : e[u] > 0 => u = t
      BY ONLY <3>1
    <3>3. lock'[k] = Hold(t, e[t]) /\ e[t] \in Nat
      BY <2>4, <2>8
    <3>4. e[t] > 0 => lock'[k] = [owner |-> t, depth |-> e[t]]
      BY ONLY <3>3 DEF Hold
    <3>5. lock'[k] # Unlocked => e[t] > 0
      BY ONLY <3>3 DEF Hold
    <3>6. \A u \in Thread : e[u] > 0 => lock'[k] = [owner |-> u, depth |-> e[u]]
      BY <3>2, <3>4
    <3> QED BY <1>0, <2>3, <3>5, <3>6
  <2> QED BY <2>6, <2>7, <2>8
<1>6. Unlocks' <=> Unlocks
  BY <1>0 DEF Unlocks
<1>7. LockGood'
  BY <1>4, <1>5, <1>6 DEF LockGood
<1> QED BY <1>1, <1>7 DEF CallLocksInv

(* A call of one step leaves the locks alone.                              *)
LEMMA LocksRest ==
  ASSUME MemInv, CallLocksInv, NEW t \in use.threads, AtRest(t), OthersStill(t),
         use' = use, pc' = pc, call' = call, lock' = lock
  PROVE  CallLocksInv'
<1>0. LockGood
  BY DEF CallLocksInv
<1>1. PICK N : N = [k \in Page |-> Depth(t, k)]
  OBVIOUS
<1>2. LocksBy(lock', t, N)
  BY <1>0, <1>1, LocksNow
<1>3. AtRest(t)'
  BY DEF AtRest
<1>4. \A k \in Page : N[k] = Depth(t, k)'
  BY <1>1, <1>3, DepthRests, DepthRestsNext
<1>5. LookGood(t)'
  BY <1>3 DEF LookGood, Looking, Growing, AtRest
<1> QED BY <1>2, <1>4, <1>5, LocksStep

-----------------------------------------------------------------------------
(* Calls of one step.                                                      *)
LEMMA NewBlockKept ==
  ASSUME MemInv, NEW n \in use.pages, NEW p, p = LowestBlock(n), p # NoPage,
         \A k \in Page : k # p => hdr'[k] = hdr[k]
  PROVE  PartsKept(hdr, live, hdr', NoPage)
<1>0. MemGood(hdr, blocks, live, owned, Freed) /\ blocks \in [Page -> 0..NumPages]
  BY MemTyped DEF MemInv
<1>1. n \in Nat /\ n >= 1
  BY UseFacts, PageIs DEF MemInv
<1>2. FreeAt(blocks, p, n)
  BY <1>0, <1>1, LowestGives
<1>3. p \in Page /\ p \in Nat
  BY <1>2, PageIs DEF FreeAt
<1>4. blocks[p] = 0
  BY ONLY <1>0, <1>1, <1>2, <1>3, FreeIsUnused
<1>5. ASSUME NEW c, NEW k, IsPart(hdr, live, c, k) PROVE hdr'[k] = hdr[k]
  <2>1. k \in Page /\ blocks[k] = hdr[c].size /\ hdr[c].size > 1 /\ hdr[c].size \in Nat
    BY <1>0, <1>5, PartFacts
  <2>2. k # p
    BY <1>4, <2>1
  <2> QED BY <2>1, <2>2
<1> QED BY <1>5 DEF PartsKept

(* What is done to simple heaps touches no part.                           *)
LEMMA SimpleKept ==
  ASSUME MemInv, NEW p, hdr[p].kind # "compound", \A k \in Page : k # p => hdr'[k] = hdr[k]
  PROVE  PartsKept(hdr, live, hdr', NoPage)
<1>0. MemGood(hdr, blocks, live, owned, Freed)
  BY DEF MemInv
<1>1. ASSUME NEW c, NEW k, IsPart(hdr, live, c, k) PROVE hdr'[k] = hdr[k]
  <2>1. k \in Page /\ hdr[k].kind = "compound"
    BY <1>0, <1>1, PartFacts
  <2> QED BY <2>1
<1> QED BY <1>1 DEF PartsKept

(* The calls on simple heaps leave the locks, and touch no part.           *)
LEMMA SimpleLocks ==
  ASSUME MemInv, NEW t, SOps(t)
  PROVE  /\ t \in use.threads /\ use' = use /\ lock' = lock
         /\ PartsKept(hdr, live, hdr', NoPage)
<1>0. hdr \in [Page -> HeaderType]
  BY MemTyped DEF MemInv
<1>1. ASSUME NEW kind, NEW n \in use.pages, Create(t, kind, n)
      PROVE  t \in use.threads /\ use' = use /\ lock' = lock /\ PartsKept(hdr, live, hdr', NoPage)
  <2>1. t \in use.threads /\ use' = use /\ lock' = lock
    BY <1>1 DEF Create, Call
  <2>2. PICK p : p = LowestBlock(n)
    OBVIOUS
  <2>3. CASE p = NoPage
    BY <1>1, <2>1, <2>2, <2>3 DEF Create, PartsKept
  <2>4. CASE p # NoPage
    <3>1. hdr' = [hdr EXCEPT ![p] = NewHeader(kind, p, n)]
      BY <1>1, <2>2, <2>4 DEF Create
    <3>2. \A k \in Page : k # p => hdr'[k] = hdr[k]
      BY <3>1, <1>0
    <3> QED BY <2>1, <2>2, <2>4, <3>2, NewBlockKept
  <2> QED BY <2>3, <2>4
<1>2. ASSUME NEW p, DestroySimple(t, p)
      PROVE  t \in use.threads /\ use' = use /\ lock' = lock /\ PartsKept(hdr, live, hdr', NoPage)
  <2>1. /\ t \in use.threads /\ use' = use /\ lock' = lock
        /\ hdr[p].kind # "compound" /\ hdr' = [hdr EXCEPT ![p] = NoHeader]
    BY <1>2 DEF DestroySimple, Call
  <2>2. \A k \in Page : k # p => hdr'[k] = hdr[k]
    BY <2>1, <1>0
  <2> QED BY <2>1, <2>2, SimpleKept
<1>3. ASSUME NEW p, NEW n, HeapAlloc(t, p, n) \/ StackAlloc(t, p, n) \/ \E x : HeapFree(t, p, x, n) \/ StackDealloc(t, p, x)
      PROVE  t \in use.threads /\ use' = use /\ lock' = lock /\ PartsKept(hdr, live, hdr', NoPage)
  <2>1. t \in use.threads /\ use' = use /\ lock' = lock
    BY <1>3 DEF HeapAlloc, StackAlloc, HeapFree, StackDealloc, Call, Push
  <2>2. hdr[p].kind # "compound"
    BY <1>3 DEF HeapAlloc, StackAlloc, HeapFree, StackDealloc
  <2>3. hdr' = hdr \/ \E v : hdr' = [hdr EXCEPT ![p] = v]
    <3>1. CASE HeapAlloc(t, p, n)
      <4>1. hdr' = hdr \/ hdr' = [hdr EXCEPT ![p].list = AllocNode(@, Gives(p, n), Round(n))]
        BY <3>1 DEF HeapAlloc, TakePiece
      <4> QED BY <4>1
    <3>2. CASE StackAlloc(t, p, n)
      <4>1. hdr' = hdr \/ hdr' = [hdr EXCEPT ![p].next = @ + Round(n)]
        BY <3>2 DEF StackAlloc, Push
      <4> QED BY <4>1
    <3>3. ASSUME NEW x, HeapFree(t, p, x, n) PROVE hdr' = hdr \/ \E v : hdr' = [hdr EXCEPT ![p] = v]
      <4>1. hdr' = hdr \/ hdr' = [hdr EXCEPT ![p].list = DeallocSpace(@, x.at, n)]
        BY <3>3 DEF HeapFree, PutPiece
      <4> QED BY <4>1
    <3>4. ASSUME NEW x, StackDealloc(t, p, x) PROVE hdr' = hdr \/ \E v : hdr' = [hdr EXCEPT ![p] = v]
      <4>1. hdr' = [hdr EXCEPT ![p].next = x.at]
        BY <3>4 DEF StackDealloc
      <4> QED BY <4>1
    <3> QED BY <1>3, <3>1, <3>2, <3>3, <3>4
  <2>4. \A k \in Page : k # p => hdr'[k] = hdr[k]
    BY <1>0, <2>3
  <2> QED BY <2>1, <2>2, <2>4, SimpleKept
<1>4. ASSUME NEW x, NEW n, NearAlloc(t, x, n) \/ NearDealloc(t, x, n) \/ StackNearAlloc(t, x, n)
      PROVE  t \in use.threads /\ use' = use /\ lock' = lock /\ PartsKept(hdr, live, hdr', NoPage)
  <2>1. t \in use.threads /\ use' = use /\ lock' = lock /\ "near" \in use.ops
    BY <1>4 DEF NearAlloc, NearDealloc, StackNearAlloc, Call, Push
  <2>2. Compounds(hdr, live) = {}
    BY <2>1, NoCompound
  <2> QED BY <2>1, <2>2 DEF PartsKept, IsPart
<1> QED BY <1>1, <1>2, <1>3, <1>4 DEF SOps

(* So do calls of a program that is alone, and those that create, destroy, *)
(* advise and give a page back.                                            *)
LEMMA OneStepLocks ==
  ASSUME MemInv, CallLocksInv, SafeUses, NEW t \in use.threads, AtRest(t), use' = use, pc' = pc, call' = call, lock' = lock,
         \/ use.threads \subseteq {t}
         \/ \E p : PartsKept(hdr, live, hdr', p) /\ (p \in Page => CanLock(p, t))
  PROVE  CallLocksInv'
<1>1. LockGood
  BY DEF CallLocksInv
<1>2. OthersStill(t)
  BY <1>1, OthersAre
<1> QED BY <1>2, LocksRest

(* ... so they keep what is known of locks.                                *)
LEMMA PieceCallsLocks ==
  ASSUME MemInv, CallLocksInv, SafeUses, NEW t, AtRest(t), SOps(t), pc' = pc, call' = call
  PROVE  CallLocksInv'
<1>1. NoPage \notin Page
  BY PageIs
<1>2. t \in use.threads /\ use' = use /\ lock' = lock /\ PartsKept(hdr, live, hdr', NoPage)
  BY SimpleLocks
<1> QED BY <1>1, <1>2, OneStepLocks

(* A new compound heap touches no part of another.                         *)
LEMMA CreateLocks ==
  ASSUME MemInv, CallLocksInv, SafeUses, NEW t, NEW expanding \in BOOLEAN, NEW n \in use.pages, CreateCompound(t, expanding, n)
  PROVE  CallLocksInv'
<1>0. hdr \in [Page -> HeaderType] /\ NoPage \notin Page
  BY MemTyped, PageIs DEF MemInv
<1>1. t \in use.threads /\ AtRest(t) /\ use' = use /\ pc' = pc /\ call' = call /\ lock' = lock
  BY DEF CreateCompound, Call
<1>2. PICK p : p = LowestBlock(n)
  OBVIOUS
<1>3. CASE p = NoPage
  <2>1. PartsKept(hdr, live, hdr', NoPage)
    BY <1>2, <1>3 DEF CreateCompound, PartsKept
  <2> QED BY <1>0, <1>1, <2>1, OneStepLocks
<1>4. CASE p # NoPage
  <2>1. \E v : hdr' = [hdr EXCEPT ![p] = v]
    BY <1>2, <1>4 DEF CreateCompound
  <2>2. \A k \in Page : k # p => hdr'[k] = hdr[k]
    BY <2>1, <1>0
  <2>3. PartsKept(hdr, live, hdr', NoPage)
    BY <1>2, <1>4, <2>2, NewBlockKept
  <2> QED BY <1>0, <1>1, <2>3, OneStepLocks
<1> QED BY <1>3, <1>4

(* A destroy clears headers of a heap in which no call is under way.       *)
LEMMA DestroyLocks ==
  ASSUME MemInv, CallLocksInv, NEW t, NEW p, DestroyCompound(t, p)
  PROVE  CallLocksInv'
<1>1. /\ t \in use.threads /\ AtRest(t) /\ use' = use /\ pc' = pc /\ call' = call /\ lock' = lock
      /\ p \in Heaps /\ ~ Busy(p)
  BY DEF DestroyCompound, Call
<1>2. PICK parts : parts = {Parts(hdr, p)[i] : i \in DOMAIN Parts(hdr, p)}
  OBVIOUS
<1>3. PICK S : S = {s \in {hdr[p].space} \ {NoPage} : IsExpanding(p) /\ hdr[s].kind = "space"}
  OBVIOUS
<1>4. hdr' = [q \in Page |-> IF q \in parts \cup S THEN NoHeader ELSE hdr[q]]
  BY <1>2, <1>3 DEF DestroyCompound
<1>5. ASSUME NEW u \in Thread, u # t, ~ AtRest(u), NEW k, IsPart(hdr, live, call[u].heap, k)
      PROVE  hdr'[k] = hdr[k]
  <2>1. call[u].heap # p
    BY <1>1 DEF Busy
  <2>2. k \in Page /\ hdr[k].base = call[u].heap /\ hdr[k].kind = "compound"
    BY <1>5, HeapIsPage, PartFacts DEF MemInv
  <2>3. \A r \in parts : hdr[r].base = p
    BY <1>1, <1>2, CompoundsAre, HeapIsPage DEF IsPart
  <2>4. k \notin parts \cup S
    BY <1>3, <2>1, <2>2, <2>3
  <2> QED BY <1>4, <2>2, <2>4
<1>6. OthersStill(t)
  BY <1>5 DEF OthersStill
<1> QED BY <1>1, <1>6, LocksRest

(* The calls that only look change no header.                              *)
LEMMA AdviseLocks ==
  ASSUME MemInv, CallLocksInv, SafeUses, NEW t, NEW p, Advise(t, p)
  PROVE  CallLocksInv'
<1>1. t \in use.threads /\ AtRest(t) /\ use' = use /\ pc' = pc /\ call' = call /\ lock' = lock /\ hdr' = hdr
  BY DEF Advise, Call
<1>2. PartsKept(hdr, live, hdr', NoPage) /\ NoPage \notin Page
  BY <1>1, PageIs DEF PartsKept
<1> QED BY <1>1, <1>2, OneStepLocks

(* A near free touches a part whose lock the thread can have.              *)
LEMMA NearDeallocLocks ==
  ASSUME MemInv, CallLocksInv, SafeUses, NEW t, NEW q \in Pages, NearDeallocPage(t, q)
  PROVE  CallLocksInv'
<1>0. MemGood(hdr, blocks, live, owned, Freed) /\ hdr \in [Page -> HeaderType]
  BY MemTyped DEF MemInv
<1>1. PICK p : p = BaseOf(FindHeader(Address(q)))
  OBVIOUS
<1>2. /\ t \in use.threads /\ AtRest(t) /\ use' = use /\ pc' = pc /\ call' = call /\ lock' = lock
      /\ CanLock(p, t) /\ FreeInternal(p, q)
  BY <1>1 DEF NearDeallocPage, Call
<1>3. \A k \in Page : k # p /\ k # q => hdr'[k] = hdr[k]
  BY <1>0, <1>2 DEF FreeInternal
<1>4. ASSUME NEW c, NEW k, IsPart(hdr, live, c, k), k # p PROVE hdr'[k] = hdr[k]
  <2>1. k \in Page /\ hdr[k].kind = "compound"
    BY <1>0, <1>4, PartFacts
  <2>2. k # q
    BY <2>1 DEF Pages
  <2> QED BY <1>3, <1>4, <2>1, <2>2
<1>5. PartsKept(hdr, live, hdr', p)
  BY <1>4 DEF PartsKept
<1> QED BY <1>2, <1>5, OneStepLocks

(* The calls without locks are those of the only thread.                   *)
LEMMA NoLockLocks ==
  ASSUME MemInv, CallLocksInv, SafeUses, NEW t, NoLock(t)
  PROVE  CallLocksInv'
<1>1. t \in use.threads /\ AtRest(t) /\ use' = use /\ pc' = pc /\ call' = call /\ lock' = lock /\ use.threads \subseteq {t}
  BY DEF NoLock, Call, Alone
<1> QED BY <1>1, OneStepLocks

-----------------------------------------------------------------------------
(* The locks of a call, by its place.                                      *)
LEMMA DepthAt ==
  ASSUME NEW t, NEW k \in Page
  PROVE  /\ pc[t] = "first" => Depth(t, k) = IF k = call[t].near THEN 1 ELSE 0
         /\ pc[t] = "last" => Depth(t, k) = (IF k \in {call[t].heap} THEN 1 ELSE 0) + (IF k = call[t].near THEN 1 ELSE 0)
         /\ pc[t] = "pick" =>
              Depth(t, k) = (IF k \in {call[t].heap, call[t].last} THEN 1 ELSE 0) + (IF k = call[t].near THEN 1 ELSE 0)
         /\ pc[t] \in Looking =>
              Depth(t, k) = (IF k \in {call[t].heap, call[t].last} \cup PartsAfterFirst(call[t].heap, call[t].i - 1) THEN 1 ELSE 0)
                              + (IF k = call[t].near THEN 1 ELSE 0)
         /\ pc[t] = "sum" =>
              Depth(t, k) = IF k \in {call[t].heap} \cup PartsAfterFirst(call[t].heap, call[t].i - 1) THEN 1 ELSE 0
         /\ pc[t] = "freescan" => Depth(t, k) = IF k \in {call[t].heap} THEN 1 ELSE 0
         /\ pc[t] \in {"idle", "near", "freefirst"} => Depth(t, k) = 0
<1>1. k # NoPage
  BY PageIs
<1>2. CASE pc[t] = "first"
  BY <1>1, <1>2 DEF Depth, HoldsOf, NearOf, Looking, Growing
<1>3. CASE pc[t] = "last"
  BY <1>1, <1>3 DEF Depth, HoldsOf, NearOf, Looking, Growing
<1>4. CASE pc[t] = "pick"
  BY <1>1, <1>4 DEF Depth, HoldsOf, NearOf, Looking, Growing
<1>5. CASE pc[t] \in Looking
  BY <1>1, <1>5 DEF Depth, HoldsOf, NearOf, Looking, Growing
<1>6. CASE pc[t] = "sum"
  BY <1>1, <1>6 DEF Depth, HoldsOf, NearOf, Looking, Growing
<1>7. CASE pc[t] \in {"idle", "near", "freefirst", "freescan"}
  BY <1>1, <1>7 DEF Depth, HoldsOf, NearOf, Looking, Growing
<1> QED BY <1>2, <1>3, <1>4, <1>5, <1>6, <1>7

(* The locks of a call after a step, by the place it gets to.              *)
LEMMA DepthNext ==
  ASSUME NEW t, NEW k \in Page
  PROVE  /\ pc'[t] = "first" => Depth(t, k)' = IF k = call'[t].near THEN 1 ELSE 0
         /\ pc'[t] = "last" => Depth(t, k)' = (IF k \in {call'[t].heap} THEN 1 ELSE 0) + (IF k = call'[t].near THEN 1 ELSE 0)
         /\ pc'[t] = "pick" =>
              Depth(t, k)' = (IF k \in {call'[t].heap, call'[t].last} THEN 1 ELSE 0) + (IF k = call'[t].near THEN 1 ELSE 0)
         /\ pc'[t] \in Looking =>
              Depth(t, k)' = (IF k \in {call'[t].heap, call'[t].last} \cup PartsAfterFirst(call[t].heap, call[t].i - 1)' THEN 1 ELSE 0)
                              + (IF k = call'[t].near THEN 1 ELSE 0)
         /\ pc'[t] = "sum" =>
              Depth(t, k)' = IF k \in {call'[t].heap} \cup PartsAfterFirst(call[t].heap, call[t].i - 1)' THEN 1 ELSE 0
         /\ pc'[t] = "freescan" => Depth(t, k)' = IF k \in {call'[t].heap} THEN 1 ELSE 0
         /\ pc'[t] \in {"idle", "near", "freefirst"} => Depth(t, k)' = 0
<1>1. k # NoPage
  BY PageIs
<1>2. CASE pc'[t] = "first"
  BY <1>1, <1>2 DEF Depth, HoldsOf, NearOf, Looking, Growing
<1>3. CASE pc'[t] = "last"
  BY <1>1, <1>3 DEF Depth, HoldsOf, NearOf, Looking, Growing
<1>4. CASE pc'[t] = "pick"
  BY <1>1, <1>4 DEF Depth, HoldsOf, NearOf, Looking, Growing
<1>5. CASE pc'[t] \in Looking
  BY <1>1, <1>5 DEF Depth, HoldsOf, NearOf, Looking, Growing
<1>6. CASE pc'[t] = "sum"
  BY <1>1, <1>6 DEF Depth, HoldsOf, NearOf, Looking, Growing
<1>7. CASE pc'[t] \in {"idle", "near", "freefirst", "freescan"}
  BY <1>1, <1>7 DEF Depth, HoldsOf, NearOf, Looking, Growing
<1> QED BY <1>2, <1>3, <1>4, <1>5, <1>6, <1>7

(* The other calls stand when a part is touched whose lock the thread has. *)
LEMMA StillAt ==
  ASSUME MemInv, LockGood, SafeUses, NEW t \in use.threads, NEW p \in Page, PartsKept(hdr, live, hdr', p),
         CanLock(p, t) \/ Depth(t, p) > 0
  PROVE  OthersStill(t)
<1>1. StateType
  BY DEF MemInv
<1>2. CASE Unlocks
  BY <1>2, OthersAre, FreeAlone
<1>3. CASE ~ Unlocks
  <2>1. CanLock(p, t)
    BY <1>1, <1>3, OwnLock
  <2> QED BY <2>1, OthersAre
<1> QED BY <1>2, <1>3

(* So they do when a page is given out of it.                              *)
LEMMA AllocStill ==
  ASSUME MemInv, LockGood, SafeUses, NEW t \in use.threads, NEW c, NEW p, IsPart(hdr, live, c, p),
         NEW kind \in {"heap", "queue"}, AllocInternal(hdr, p, kind), CanLock(p, t) \/ Depth(t, p) > 0
  PROVE  OthersStill(t)
<1>1. MemGood(hdr, blocks, live, owned, Freed) /\ hdr \in [Page -> HeaderType]
  BY MemTyped DEF MemInv
<1>2. Effect(hdr, blocks, live, owned, Freed, hdr', blocks, live', p)
  BY ONLY <1>1, PageEffect, IsPart(hdr, live, c, p), kind \in {"heap", "queue"}, AllocInternal(hdr, p, kind)
<1>3. PartsKept(hdr, live, hdr', p) /\ p \in Page
  BY <1>2, HeapIsPage DEF Effect
<1> QED BY <1>3, StillAt

(* And when no header changes.                                             *)
LEMMA SameStill ==
  ASSUME NEW t, hdr' = hdr
  PROVE  OthersStill(t)
BY DEF OthersStill

(* A call goes on, as far as the locks are concerned.                      *)
Passes(t, place, c) ==
  use' = use /\ pc' = [pc EXCEPT ![t] = place] /\ call' = [call EXCEPT ![t] = c]

(* A call gets to a place.                                                 *)
LEMMA GoesTo ==
  ASSUME StateType, NEW t \in Thread, NEW place, NEW c, Passes(t, place, c)
  PROVE  /\ use' = use /\ pc'[t] = place /\ call'[t] = c
         /\ \A u \in Thread : u # t => pc'[u] = pc[u] /\ call'[u] = call[u]
BY DEF StateType, Passes

(* A call goes on: its locks are those of its new place.                   *)
LEMMA GoesLocks ==
  ASSUME MemInv, CallLocksInv, NEW t \in use.threads, OthersStill(t), NEW place, NEW c, Passes(t, place, c),
         NEW N, LocksBy(lock', t, N), \A k \in Page : N[k] = Depth(t, k)', LookGood(t)'
  PROVE  CallLocksInv'
<1>1. StateType /\ t \in Thread
  BY ThreadIs DEF MemInv
<1>2. use' = use /\ \A u \in Thread : u # t => pc'[u] = pc[u] /\ call'[u] = call[u]
  BY ONLY <1>1, Passes(t, place, c), GoesTo
<1> QED BY <1>2, LocksStep

(* A call ends: its locks are released.                                    *)
LEMMA EndsLocks ==
  ASSUME MemInv, CallLocksInv, NEW t \in use.threads, OthersStill(t), use' = use,
         NEW lk, NEW N, LocksBy(lk, t, N), NEW ps, Done(t, lk, ps),
         \A k \in Page : N[k] = (IF k \in ps THEN 1 ELSE 0) + (IF k = call[t].near THEN 1 ELSE 0)
  PROVE  CallLocksInv'
<1>0. StateType /\ LockGood /\ t \in Thread
  BY ThreadIs DEF MemInv, CallLocksInv
<1>1. PICK N2 : N2 = [k \in Page |-> 0]
  OBVIOUS
<1>2. LocksBy(ReleaseCall(t, lk, ps), t, N2)
  BY <1>0, <1>1, LocksDone
<1>3. LocksBy(lock', t, N2) /\ Finish(t)
  BY <1>2 DEF Done
<1>4. Passes(t, "idle", NoCall)
  BY <1>3 DEF Finish, Goto, Passes
<1>5. pc'[t] = "idle"
  BY ONLY <1>0, <1>4, GoesTo
<1>6. \A k \in Page : N2[k] = Depth(t, k)'
  BY <1>1, <1>5, DepthNext
<1>7. LookGood(t)'
  BY <1>5 DEF LookGood, Looking, Growing
<1> QED BY <1>3, <1>4, <1>6, <1>7, GoesLocks

(* Calls begin without a lock.                                             *)
LEMMA BeginLocks ==
  ASSUME MemInv, CallLocksInv, NEW t \in use.threads, AtRest(t), hdr' = hdr, lock' = lock,
         NEW place \in {"first", "near", "freefirst"}, NEW c, Passes(t, place, c), place = "first" => c.near = NoPage
  PROVE  CallLocksInv'
<1>0. StateType /\ LockGood /\ t \in Thread
  BY ThreadIs DEF MemInv, CallLocksInv
<1>1. PICK N : N = [k \in Page |-> Depth(t, k)]
  OBVIOUS
<1>2. LocksBy(lock', t, N)
  BY <1>0, <1>1, LocksNow
<1>3. pc'[t] = place /\ call'[t] = c
  BY ONLY <1>0, Passes(t, place, c), GoesTo
<1>4. \A k \in Page : N[k] = 0
  BY <1>1, DepthRests
<1>5. \A k \in Page : Depth(t, k)' = 0
  BY <1>3, DepthNext, PageIs
<1>6. LookGood(t)'
  BY <1>3 DEF LookGood, Looking, Growing
<1> QED BY <1>2, <1>4, <1>5, <1>6, SameStill, GoesLocks

(* A call that begins has no lock yet: an allocate,                        *)
LEMMA AllocBegins ==
  ASSUME MemInv, CallLocksInv, NEW t, NEW p \in Heaps, NEW kind, Alloc(t, p, kind)
  PROVE  CallLocksInv'
<1>1. PICK c : c = [NoCall EXCEPT !.heap = p, !.kind = kind]
  OBVIOUS
<1>2. /\ t \in use.threads /\ AtRest(t) /\ hdr' = hdr /\ lock' = lock /\ Passes(t, "first", c)
  BY <1>1 DEF Alloc, Call, Goto, Passes
<1>3. c.near = NoPage
  BY <1>1 DEF NoCall
<1> QED BY ONLY <1>2, <1>3, BeginLocks, MemInv, CallLocksInv

(* a near allocate,                                                        *)
LEMMA NearAllocBegins ==
  ASSUME MemInv, CallLocksInv, NEW t, NEW q, NEW kind, NearAllocPage(t, q, kind)
  PROVE  CallLocksInv'
<1>1. PICK r : r = BaseOf(FindHeader(Address(q)))
  OBVIOUS
<1>2. PICK c : c = [NoCall EXCEPT !.heap = FirstOf(r), !.near = r, !.kind = kind]
  OBVIOUS
<1>3. /\ t \in use.threads /\ AtRest(t) /\ hdr' = hdr /\ lock' = lock /\ Passes(t, "near", c)
  BY <1>1, <1>2 DEF NearAllocPage, Call, Goto, Passes
<1> QED BY ONLY <1>3, BeginLocks, MemInv, CallLocksInv

(* a free.                                                                 *)
LEMMA FreeBegins ==
  ASSUME MemInv, CallLocksInv, NEW t, NEW q, FreePage(t, q)
  PROVE  CallLocksInv'
<1>1. PICK c : c = [NoCall EXCEPT !.heap = FirstOf(BaseOf(q)), !.page = q, !.i = 1]
  OBVIOUS
<1>2. /\ t \in use.threads /\ AtRest(t) /\ hdr' = hdr /\ lock' = lock /\ Passes(t, "freefirst", c)
  BY <1>1 DEF FreePage, Call, Goto, Passes
<1> QED BY ONLY <1>2, BeginLocks, MemInv, CallLocksInv

(* The steps of the calls.                                                 *)
LEMMA InCall ==
  ASSUME MemInv, CallLocksInv, NEW t \in Thread, ~ AtRest(t)
  PROVE  /\ StateType /\ LockGood /\ t \in use.threads /\ LookGood(t)
         /\ \E N \in [Page -> Nat] : N = [k \in Page |-> Depth(t, k)] /\ LocksBy(lock, t, N)
<1>1. StateType /\ LockGood /\ t \in use.threads /\ LookGood(t)
  BY DEF MemInv, CallLocksInv, CallGood
<1>2. PICK N : N = [k \in Page |-> Depth(t, k)]
  OBVIOUS
<1>3. N \in [Page -> Nat]
  BY <1>2, DepthIs
<1> QED BY <1>1, <1>2, <1>3, LocksNow

(* An allocate that gets the lock of the heap.                             *)
LEMMA LockFirstLocks ==
  ASSUME MemInv, CallLocksInv, SafeUses, NEW t \in Thread, LockFirst(t)
  PROVE  CallLocksInv'
<1>1. PICK p : p = call[t].heap
  OBVIOUS
<1>2. PICK lk : lk = Locked(lock, p, t)
  OBVIOUS
<1>3. /\ pc[t] = "first" /\ CanLock(p, t) /\ use' = use
      /\ \/ AllocInternal(hdr, p, call[t].kind) /\ Done(t, lk, {p})
         \/ /\ lock' = lk /\ hdr' = hdr
            /\ \/ LastPart(p) = p /\ Goto(t, "pick") /\ call' = [call EXCEPT ![t].last = p]
               \/ Goto(t, "last") /\ call' = [call EXCEPT ![t].last = LastPart(p)]
  BY <1>1, <1>2 DEF LockFirst
<1>4. ~ AtRest(t) /\ CallAt(t, "first", call[t])
  BY <1>3, CallIsAt DEF MemInv, AtRest
<1>5. p \in Heaps /\ p \in Page /\ IsPart(hdr, live, p, p)
  BY <1>1, <1>4, HeapIsPage DEF CallAt, Looking, Growing
<1>6. StateType /\ LockGood /\ t \in use.threads
  BY <1>4, InCall
<1>7. PICK N \in [Page -> Nat] : N = [k \in Page |-> Depth(t, k)] /\ LocksBy(lock, t, N)
  BY <1>4, InCall
<1>8. \A k \in Page : N[k] = IF k = call[t].near THEN 1 ELSE 0
  BY <1>3, <1>7, DepthAt
<1>9. PICK N1 : N1 = [N EXCEPT ![p] = @ + 1]
  OBVIOUS
<1>10. LocksBy(lk, t, N1)
  BY ONLY <1>2, <1>3, <1>5, <1>6, <1>7, <1>9, LocksTaken
<1>11. \A k \in Page : N1[k] = (IF k \in {p} THEN 1 ELSE 0) + (IF k = call[t].near THEN 1 ELSE 0)
  BY <1>5, <1>7, <1>8, <1>9
<1>12. CASE AllocInternal(hdr, p, call[t].kind) /\ Done(t, lk, {p})
  <2>1. call[t].kind \in {"heap", "queue"}
    BY CallTyped
  <2>2. OthersStill(t)
    BY ONLY <1>3, <1>5, <1>6, <1>12, <2>1, AllocStill, MemInv, SafeUses
  <2>3. Done(t, lk, {p})
    BY <1>12
  <2> QED BY ONLY <1>3, <1>6, <1>10, <1>11, <2>2, <2>3, EndsLocks, MemInv, CallLocksInv
<1>13. CASE lock' = lk /\ hdr' = hdr /\ LastPart(p) = p /\ Goto(t, "pick") /\ call' = [call EXCEPT ![t].last = p]
  <2>1. PICK c : c = [call[t] EXCEPT !.last = p]
    OBVIOUS
  <2>2. Passes(t, "pick", c) /\ c.heap = p /\ c.near = call[t].near /\ c.last = p
    BY <1>1, <1>3, <1>13, <2>1, CallTyped DEF Passes, Goto, CallType
  <2>3. pc'[t] = "pick" /\ call'[t] = c
    BY ONLY <1>6, <2>2, GoesTo, t \in Thread
  <2>4. \A k \in Page : N1[k] = Depth(t, k)'
    BY <1>11, <2>2, <2>3, DepthNext
  <2>5. LookGood(t)'
    BY <1>13, <2>2, <2>3 DEF LookGood, Looking, Growing, LastPart
  <2>6. LocksBy(lock', t, N1) /\ OthersStill(t)
    BY <1>10, <1>13, SameStill
  <2> QED BY ONLY <1>6, <2>2, <2>4, <2>5, <2>6, GoesLocks, MemInv, CallLocksInv
<1>14. CASE lock' = lk /\ hdr' = hdr /\ Goto(t, "last") /\ call' = [call EXCEPT ![t].last = LastPart(p)]
  <2>1. PICK c : c = [call[t] EXCEPT !.last = LastPart(p)]
    OBVIOUS
  <2>2. Passes(t, "last", c) /\ c.heap = p /\ c.near = call[t].near /\ c.last = LastPart(p)
    BY <1>1, <1>3, <1>14, <2>1, CallTyped DEF Passes, Goto, CallType
  <2>3. pc'[t] = "last" /\ call'[t] = c
    BY ONLY <1>6, <2>2, GoesTo, t \in Thread
  <2>4. \A k \in Page : N1[k] = Depth(t, k)'
    BY <1>11, <2>2, <2>3, DepthNext
  <2>5. LookGood(t)'
    BY <1>14, <2>2, <2>3 DEF LookGood, Looking, Growing, LastPart
  <2>6. LocksBy(lock', t, N1) /\ OthersStill(t)
    BY <1>10, <1>14, SameStill
  <2> QED BY ONLY <1>6, <2>2, <2>4, <2>5, <2>6, GoesLocks, MemInv, CallLocksInv
<1> QED BY <1>3, <1>12, <1>13, <1>14

(* ... and that of the last part.                                          *)
LEMMA LockLastLocks ==
  ASSUME MemInv, CallLocksInv, NEW t \in Thread, LockLast(t)
  PROVE  CallLocksInv'
<1>1. PICK p : p = call[t].last
  OBVIOUS
<1>3. pc[t] = "last" /\ CanLock(p, t) /\ use' = use /\ lock' = Locked(lock, p, t) /\ Goto(t, "pick") /\ hdr' = hdr /\ call' = call
  BY <1>1 DEF LockLast
<1>4. ~ AtRest(t) /\ CallAt(t, "last", call[t])
  BY <1>3, CallIsAt DEF MemInv, AtRest
<1>5. p \in Page /\ p # call[t].heap
  BY <1>1, <1>4, HeapIsPage DEF CallAt, Looking, Growing
<1>6. StateType /\ LockGood /\ t \in use.threads /\ LookGood(t)
  BY <1>4, InCall
<1>7. PICK N \in [Page -> Nat] : N = [k \in Page |-> Depth(t, k)] /\ LocksBy(lock, t, N)
  BY <1>4, InCall
<1>8. \A k \in Page : N[k] = (IF k \in {call[t].heap} THEN 1 ELSE 0) + (IF k = call[t].near THEN 1 ELSE 0)
  BY <1>3, <1>7, DepthAt
<1>9. PICK N1 : N1 = [N EXCEPT ![p] = @ + 1]
  OBVIOUS
<1>10. LocksBy(lock', t, N1)
  BY ONLY <1>3, <1>5, <1>6, <1>7, <1>9, LocksTaken
<1>11. \A k \in Page : N1[k] = (IF k \in {call[t].heap, call[t].last} THEN 1 ELSE 0) + (IF k = call[t].near THEN 1 ELSE 0)
  BY <1>1, <1>5, <1>7, <1>8, <1>9
<1>12. Passes(t, "pick", call[t])
  BY <1>3, CallTyped DEF Passes, Goto
<1>13. pc'[t] = "pick" /\ call'[t] = call[t]
  BY ONLY <1>6, <1>12, GoesTo, t \in Thread
<1>14. \A k \in Page : N1[k] = Depth(t, k)'
  BY <1>11, <1>13, DepthNext
<1>15. LookGood(t)'
  BY <1>3, <1>6, <1>13 DEF LookGood, Looking, Growing, LastPart
<1>16. OthersStill(t)
  BY <1>3, SameStill
<1> QED BY ONLY <1>6, <1>10, <1>12, <1>14, <1>15, <1>16, GoesLocks, MemInv, CallLocksInv

(* ... and finds room there, or looks on.                                  *)
LEMMA PickLocks ==
  ASSUME MemInv, CallLocksInv, SafeUses, NEW t \in Thread, Pick(t)
  PROVE  CallLocksInv'
<1>1. PICK p : p = call[t].heap
  OBVIOUS
<1>2. PICK last : last = call[t].last
  OBVIOUS
<1>3. /\ pc[t] = "pick" /\ use' = use
      /\ \/ AllocInternal(hdr, last, call[t].kind) /\ Done(t, lock, {p, last})
         \/ /\ Loaded(last) /\ hdr' = hdr /\ lock' = lock
            /\ Goto(t, "scan") /\ call' = [call EXCEPT ![t].i = 1]
  BY <1>1, <1>2 DEF Pick
<1>4. ~ AtRest(t) /\ CallAt(t, "pick", call[t])
  BY <1>3, CallIsAt DEF MemInv, AtRest
<1>5. p \in Heaps /\ IsPart(hdr, live, p, last) /\ last \in Page
  BY <1>1, <1>2, <1>4, HeapIsPage DEF CallAt, Looking, Growing
<1>6. StateType /\ LockGood /\ t \in use.threads /\ LookGood(t)
  BY <1>4, InCall
<1>7. PICK N \in [Page -> Nat] : N = [k \in Page |-> Depth(t, k)] /\ LocksBy(lock, t, N)
  BY <1>4, InCall
<1>8. \A k \in Page : N[k] = (IF k \in {p, last} THEN 1 ELSE 0) + (IF k = call[t].near THEN 1 ELSE 0)
  BY <1>1, <1>2, <1>3, <1>7, DepthAt
<1>9. CASE AllocInternal(hdr, last, call[t].kind) /\ Done(t, lock, {p, last})
  <2>1. call[t].kind \in {"heap", "queue"}
    BY CallTyped
  <2>2. Depth(t, last) > 0
    <3>1. N[last] = Depth(t, last) /\ N[last] > 0
      BY <1>5, <1>7, <1>8
    <3> QED BY <3>1
  <2>3. OthersStill(t)
    BY ONLY <1>5, <1>6, <1>9, <2>1, <2>2, AllocStill, MemInv, SafeUses
  <2>4. Done(t, lock, {p, last})
    BY <1>9
  <2> QED BY ONLY <1>3, <1>6, <1>7, <1>8, <2>3, <2>4, EndsLocks, MemInv, CallLocksInv
<1>10. CASE Loaded(last) /\ hdr' = hdr /\ lock' = lock /\ Goto(t, "scan") /\ call' = [call EXCEPT ![t].i = 1]
  <2>1. PICK c : c = [call[t] EXCEPT !.i = 1]
    OBVIOUS
  <2>2. Passes(t, "scan", c) /\ c.heap = p /\ c.near = call[t].near /\ c.last = last /\ c.i = 1
    BY <1>1, <1>2, <1>3, <1>10, <2>1, CallTyped DEF Passes, Goto, CallType
  <2>3. pc'[t] = "scan" /\ call'[t] = c
    BY ONLY <1>6, <2>2, GoesTo, t \in Thread
  <2>4. PartsAfterFirst(call[t].heap, call[t].i - 1)' = {}
    BY <2>2, <2>3 DEF PartsAfterFirst
  <2>5. \A k \in Page : N[k] = Depth(t, k)'
    BY <1>8, <2>2, <2>3, <2>4, DepthNext DEF Looking
  <2>6. LookGood(t)'
    <3>1. last = LastPart(p)
      BY <1>1, <1>2, <1>3, <1>6 DEF LookGood, Looking, Growing
    <3>2. c.last = LastPart(p)'
      BY <1>10, <2>2, <3>1 DEF LastPart
    <3>3. Loaded(last)'
      BY <1>10, LoadedSame
    <3>4. call'[t].last = LastPart(call[t].heap)'
      BY <2>2, <2>3, <3>2 DEF LastPart
    <3>5. Loaded(call[t].last)'
      BY <2>2, <2>3, <3>3 DEF Loaded, PercentUsed, Avail
    <3>6. \A j \in 1..call'[t].i-1 : FALSE
      BY <2>2, <2>3
    <3> QED BY <2>3, <3>4, <3>5, <3>6 DEF LookGood, Looking, Growing
  <2>7. LocksBy(lock', t, N) /\ OthersStill(t)
    BY <1>7, <1>10, SameStill
  <2> QED BY ONLY <1>6, <2>2, <2>5, <2>6, <2>7, GoesLocks, MemInv, CallLocksInv
<1> QED BY <1>3, <1>9, <1>10

(* A near allocate that gets the lock of its part.                         *)
LEMMA LockNearLocks ==
  ASSUME MemInv, CallLocksInv, SafeUses, NEW t \in Thread, LockNear(t)
  PROVE  CallLocksInv'
<1>1. PICK p : p = call[t].near
  OBVIOUS
<1>2. PICK lk : lk = Locked(lock, p, t)
  OBVIOUS
<1>3. /\ pc[t] = "near" /\ CanLock(p, t) /\ use' = use
      /\ \/ AllocInternal(hdr, p, call[t].kind) /\ lock' = Released(lk, p) /\ Finish(t)
         \/ lock' = lk /\ hdr' = hdr /\ Goto(t, "first") /\ call' = [call EXCEPT ![t].kind = "heap"]
  BY <1>1, <1>2 DEF LockNear
<1>4. ~ AtRest(t) /\ CallAt(t, "near", call[t])
  BY <1>3, CallIsAt DEF MemInv, AtRest
<1>5. IsPart(hdr, live, call[t].heap, p) /\ p \in Page
  BY <1>1, <1>4, HeapIsPage DEF CallAt, Looking, Growing
<1>6. StateType /\ LockGood /\ t \in use.threads
  BY <1>4, InCall
<1>7. PICK N \in [Page -> Nat] : N = [k \in Page |-> Depth(t, k)] /\ LocksBy(lock, t, N)
  BY <1>4, InCall
<1>8. \A k \in Page : N[k] = 0
  BY <1>3, <1>7, DepthAt
<1>9. PICK N1 : N1 = [N EXCEPT ![p] = @ + 1]
  OBVIOUS
<1>10. LocksBy(lk, t, N1)
  BY ONLY <1>2, <1>3, <1>5, <1>6, <1>7, <1>9, LocksTaken
<1>11. \A k \in Page : N1[k] = IF k = p THEN 1 ELSE 0
  BY <1>5, <1>7, <1>8, <1>9
<1>12. CASE AllocInternal(hdr, p, call[t].kind) /\ lock' = Released(lk, p) /\ Finish(t)
  <2>1. call[t].kind \in {"heap", "queue"}
    BY CallTyped
  <2>2. OthersStill(t)
    BY ONLY <1>3, <1>5, <1>6, <1>12, <2>1, AllocStill, MemInv, SafeUses
  <2>3. Drops(lk, N1, {p}, lock', N)
    <3>1. DOMAIN lk = Page
      BY <1>10 DEF LocksBy, LockOk
    <3>2. lock' = [k \in Page |-> IF k \in {p} THEN Released(lk, k)[k] ELSE lk[k]]
      BY <3>1, <1>5, <1>12 DEF Released
    <3>3. \A k \in Page : N1[k] = N[k] + (IF k \in {p} THEN 1 ELSE 0)
      BY <1>8, <1>11
    <3> QED BY <1>7, <3>2, <3>3 DEF Drops
  <2>4. LocksBy(lock', t, N)
    BY ONLY <1>6, <1>10, <2>3, LocksDropped
  <2>5. Passes(t, "idle", NoCall)
    BY <1>3, <1>12 DEF Finish, Goto, Passes
  <2>6. pc'[t] = "idle"
    BY ONLY <1>6, <2>5, GoesTo, t \in Thread
  <2>7. \A k \in Page : N[k] = Depth(t, k)'
    BY <1>8, <2>6, DepthNext
  <2>8. LookGood(t)'
    BY <2>6 DEF LookGood, Looking, Growing
  <2> QED BY ONLY <1>6, <2>2, <2>4, <2>5, <2>7, <2>8, GoesLocks, MemInv, CallLocksInv
<1>13. CASE lock' = lk /\ hdr' = hdr /\ Goto(t, "first") /\ call' = [call EXCEPT ![t].kind = "heap"]
  <2>1. PICK c : c = [call[t] EXCEPT !.kind = "heap"]
    OBVIOUS
  <2>2. Passes(t, "first", c) /\ c.near = p
    BY <1>1, <1>3, <1>13, <2>1, CallTyped DEF Passes, Goto, CallType
  <2>3. pc'[t] = "first" /\ call'[t] = c
    BY ONLY <1>6, <2>2, GoesTo, t \in Thread
  <2>4. \A k \in Page : N1[k] = Depth(t, k)'
    BY <1>11, <2>2, <2>3, DepthNext
  <2>5. LookGood(t)'
    BY <2>3 DEF LookGood, Looking, Growing
  <2>6. LocksBy(lock', t, N1) /\ OthersStill(t)
    BY <1>10, <1>13, SameStill
  <2> QED BY ONLY <1>6, <2>2, <2>4, <2>5, <2>6, GoesLocks, MemInv, CallLocksInv
<1> QED BY <1>3, <1>12, <1>13

(* The parts a call has gone through, one more.                            *)
LEMMA MoreParts ==
  ASSUME NEW p, NEW i \in Nat, NEW q, q = hdr[p].expand[i]
  PROVE  /\ i > 1 => PartsAfterFirst(p, i) = PartsAfterFirst(p, i - 1) \cup {q}
         /\ i = 1 => PartsAfterFirst(p, i) = {} /\ PartsAfterFirst(p, i - 1) = {}
<1>1. CASE i > 1
  <2>1. 2..i = (2..i-1) \cup {i}
    BY <1>1
  <2> QED BY <1>1, <2>1 DEF PartsAfterFirst
<1>2. CASE i = 1
  <2>1. 2..i = {} /\ 2..i-1 = {}
    BY <1>2
  <2> QED BY <1>2, <2>1 DEF PartsAfterFirst
<1> QED BY <1>1, <1>2

(* ... is a part it has not the lock of yet.                               *)
LEMMA NextPart ==
  ASSUME MemInv, NEW p \in Heaps, IsExpanding(p), NEW i \in 2..Len(hdr[p].expand)
  PROVE  /\ hdr[p].expand[i] # p /\ hdr[p].expand[i] \notin PartsAfterFirst(p, i - 1)
         /\ i < Len(hdr[p].expand) => hdr[p].expand[i] # LastPart(p)
<1>1. /\ Parts(hdr, p) = hdr[p].expand /\ Len(hdr[p].expand) \in Nat /\ hdr[p].expand[1] = p
  BY LastIsPart
<1>2. DOMAIN hdr[p].expand = 1..Len(hdr[p].expand)
  BY <1>1, PartsLength
<1>3. \A j, k \in DOMAIN hdr[p].expand : hdr[p].expand[j] = hdr[p].expand[k] => j = k
  <2>1. CompoundGood(hdr, blocks, live, Freed, p)
    BY CompoundsAre DEF MemInv, MemGood
  <2> QED BY <1>1, <2>1 DEF CompoundGood
<1>4. \A j \in 1..Len(hdr[p].expand) : j # i => hdr[p].expand[j] # hdr[p].expand[i]
  BY <1>1, <1>2, <1>3
<1> QED BY <1>1, <1>4 DEF PartsAfterFirst, LastPart

(* An allocate that gets the lock of the next part, or is to expand.       *)
LEMMA ScanLocks ==
  ASSUME MemInv, CallLocksInv, SafeUses, NEW t \in Thread, Scan(t)
  PROVE  CallLocksInv'
<1>1. PICK p : p = call[t].heap
  OBVIOUS
<1>2. PICK last : last = call[t].last
  OBVIOUS
<1>3. PICK i : i = call[t].i
  OBVIOUS
<1>4. PICK n : n = Len(hdr[p].expand)
  OBVIOUS
<1>5. PICK q : q = hdr[p].expand[i]
  OBVIOUS
<1>6. PICK lk : lk = IF i > 1 THEN Locked(lock, q, t) ELSE lock
  OBVIOUS
<1>7. /\ pc[t] = "scan" /\ use' = use
      /\ \/ /\ i <= n - 1 /\ (i > 1 => CanLock(q, t))
            /\ \/ AllocInternal(hdr, q, call[t].kind) /\ Done(t, lk, {p, last} \cup PartsAfterFirst(p, i))
               \/ Loaded(q) /\ lock' = lk /\ call' = [call EXCEPT ![t].i = i + 1] /\ hdr' = hdr /\ pc' = pc
         \/ i > n - 1 /\ lock' = lock /\ call' = call /\ hdr' = hdr /\ Goto(t, "grow")
  BY <1>1, <1>2, <1>3, <1>4, <1>5, <1>6 DEF Scan, Others
<1>8. ~ AtRest(t) /\ CallAt(t, "scan", call[t])
  BY <1>7, CallIsAt DEF MemInv, AtRest
<1>9. /\ p \in Heaps /\ p \in Page /\ IsExpanding(p) /\ IsPart(hdr, live, p, last) /\ last \in Page
      /\ i \in Nat /\ i >= 1 /\ i <= n /\ n \in Nat
  BY <1>1, <1>2, <1>3, <1>4, <1>8, HeapIsPage, CallTyped, LastIsPart DEF CallAt, Looking, Growing
<1>10. IsPart(hdr, live, p, q) /\ q \in Page /\ (i = 1 => q = p)
  BY <1>4, <1>5, <1>9, LastIsPart, HeapIsPage
<1>11. StateType /\ LockGood /\ t \in use.threads /\ LookGood(t)
  BY <1>8, InCall
<1>12. PICK N \in [Page -> Nat] : N = [k \in Page |-> Depth(t, k)] /\ LocksBy(lock, t, N)
  BY <1>8, InCall
<1>13. \A k \in Page : N[k] = (IF k \in {p, last} \cup PartsAfterFirst(p, i - 1) THEN 1 ELSE 0) + (IF k = call[t].near THEN 1 ELSE 0)
  BY <1>1, <1>2, <1>3, <1>7, <1>12, DepthAt DEF Looking
<1>14. PICK N1 : N1 = IF i > 1 THEN [N EXCEPT ![q] = @ + 1] ELSE N
  OBVIOUS
<1>15. last = LastPart(p) /\ Loaded(last) /\ \A j \in 1..i-1 : Loaded(hdr[p].expand[j])
  BY <1>1, <1>2, <1>3, <1>7, <1>11 DEF LookGood, Looking, Growing
<1>16. ASSUME i <= n - 1
       PROVE  \A k \in Page : N1[k] = (IF k \in {p, last} \cup PartsAfterFirst(p, i) THEN 1 ELSE 0) + (IF k = call[t].near THEN 1 ELSE 0)
  <2>1. CASE i = 1
    BY <1>5, <1>9, <1>13, <1>14, <2>1, MoreParts
  <2>2. CASE i > 1
    <3>1. i \in 2..Len(hdr[p].expand) /\ i < Len(hdr[p].expand)
      BY <1>4, <1>9, <1>16, <2>2
    <3>2. q # p /\ q # last /\ q \notin PartsAfterFirst(p, i - 1)
      BY <1>5, <1>9, <1>15, <3>1, NextPart
    <3>3. PartsAfterFirst(p, i) = PartsAfterFirst(p, i - 1) \cup {q}
      BY <1>5, <1>9, <2>2, MoreParts
    <3>4. N1[q] = N[q] + 1 /\ \A k \in Page : k # q => N1[k] = N[k]
      BY <1>10, <1>12, <1>14, <2>2
    <3> QED BY <1>13, <3>2, <3>3, <3>4
  <2> QED BY <1>9, <2>1, <2>2
<1>17. ASSUME i <= n - 1, i > 1 => CanLock(q, t) PROVE LocksBy(lk, t, N1)
  <2>1. CASE i > 1
    <3>1. N1 = [N EXCEPT ![q] = @ + 1] /\ lk = Locked(lock, q, t) /\ CanLock(q, t)
      BY <1>6, <1>14, <1>17, <2>1
    <3> QED BY ONLY <1>10, <1>11, <1>12, <3>1, LocksTaken
  <2>2. CASE ~ (i > 1)
    BY <1>6, <1>12, <1>14, <2>2
  <2> QED BY <2>1, <2>2
<1>18. CASE /\ i <= n - 1 /\ (i > 1 => CanLock(q, t))
            /\ AllocInternal(hdr, q, call[t].kind) /\ Done(t, lk, {p, last} \cup PartsAfterFirst(p, i))
  <2>1. call[t].kind \in {"heap", "queue"}
    BY CallTyped
  <2>2. CanLock(q, t) \/ Depth(t, q) > 0
    <3>1. CASE i = 1
      <4>1. N[q] = Depth(t, q) /\ N[q] > 0
        BY <1>10, <1>12, <1>13, <3>1
      <4> QED BY <4>1
    <3> QED BY <1>9, <1>18, <3>1
  <2>3. OthersStill(t)
    BY ONLY <1>10, <1>11, <1>18, <2>1, <2>2, AllocStill, MemInv, SafeUses
  <2>4. PICK ps : ps = {p, last} \cup PartsAfterFirst(p, i)
    OBVIOUS
  <2>5. Done(t, lk, ps) /\ LocksBy(lk, t, N1)
    BY <1>17, <1>18, <2>4
  <2>6. \A k \in Page : N1[k] = (IF k \in ps THEN 1 ELSE 0) + (IF k = call[t].near THEN 1 ELSE 0)
    BY <1>16, <1>18, <2>4
  <2> QED BY ONLY <1>7, <1>11, <2>3, <2>5, <2>6, EndsLocks, MemInv, CallLocksInv
<1>19. CASE /\ i <= n - 1 /\ (i > 1 => CanLock(q, t))
            /\ Loaded(q) /\ lock' = lk /\ call' = [call EXCEPT ![t].i = i + 1] /\ hdr' = hdr /\ pc' = pc
  <2>1. PICK c : c = [call[t] EXCEPT !.i = i + 1]
    OBVIOUS
  <2>2. Passes(t, "scan", c) /\ c.heap = p /\ c.near = call[t].near /\ c.last = last /\ c.i = i + 1
    BY <1>1, <1>2, <1>7, <1>19, <2>1, CallTyped DEF Passes, Goto, CallType
  <2>3. pc'[t] = "scan" /\ call'[t] = c
    BY ONLY <1>11, <2>2, GoesTo, t \in Thread
  <2>4. PartsAfterFirst(call[t].heap, call[t].i - 1)' = PartsAfterFirst(p, i)
    <3>0. call'[t].heap = p /\ call'[t].i = i + 1 /\ hdr' = hdr /\ i \in Nat
      BY ONLY <1>9, <1>19, <2>2, <2>3
    <3>1. call'[t].heap = p /\ call'[t].i - 1 = i /\ hdr' = hdr
      BY ONLY <3>0
    <3> QED BY ONLY <3>1 DEF PartsAfterFirst
  <2>5. ASSUME NEW k \in Page PROVE N1[k] = Depth(t, k)'
    <3>1. Depth(t, k)' = (IF k \in {p, last} \cup PartsAfterFirst(p, i) THEN 1 ELSE 0) + (IF k = call[t].near THEN 1 ELSE 0)
      BY <2>2, <2>3, <2>4, DepthNext DEF Looking
    <3> QED BY <1>16, <1>19, <3>1
  <2>6. LookGood(t)'
    <3>1. call'[t].last = LastPart(call[t].heap)'
      BY <1>15, <1>19, <2>2, <2>3 DEF LastPart
    <3>2. Loaded(call[t].last)'
      <4>1. Loaded(last)'
        BY <1>15, <1>19, LoadedSame
      <4> QED BY <2>2, <2>3, <4>1 DEF Loaded, PercentUsed, Avail
    <3>3. ASSUME NEW j \in 1..i PROVE Loaded(hdr[call[t].heap].expand[j])'
      <4>1. PICK k : k = hdr[p].expand[j]
        OBVIOUS
      <4>2. Loaded(k)
        BY <1>5, <1>9, <1>15, <1>19, <4>1
      <4>3. Loaded(k)'
        BY <1>19, <4>2, LoadedSame
      <4>4. hdr'[call'[t].heap].expand[j] = k
        BY <1>19, <2>2, <2>3, <4>1
      <4> QED BY <4>3, <4>4 DEF Loaded, PercentUsed, Avail
    <3>4. call'[t].i - 1 = i
      BY <1>9, <2>2, <2>3
    <3> QED BY <2>2, <2>3, <3>1, <3>2, <3>3, <3>4 DEF LookGood, Looking, Growing
  <2>7. LocksBy(lock', t, N1) /\ OthersStill(t)
    BY <1>17, <1>19, SameStill
  <2> QED BY ONLY <1>11, <2>2, <2>5, <2>6, <2>7, GoesLocks, MemInv, CallLocksInv
<1>20. CASE i > n - 1 /\ lock' = lock /\ call' = call /\ hdr' = hdr /\ Goto(t, "grow")
  <2>1. Passes(t, "grow", call[t])
    BY <1>7, <1>20, CallTyped DEF Passes, Goto
  <2>2. pc'[t] = "grow" /\ call'[t] = call[t]
    BY ONLY <1>11, <2>1, GoesTo, t \in Thread
  <2>3. PartsAfterFirst(call[t].heap, call[t].i - 1)' = PartsAfterFirst(p, i - 1)
    BY <1>1, <1>3, <1>20 DEF PartsAfterFirst
  <2>4. \A k \in Page : N[k] = Depth(t, k)'
    BY <1>1, <1>2, <1>13, <2>2, <2>3, DepthNext DEF Looking, Growing
  <2>5. LookGood(t)'
    <3>1. call'[t].last = LastPart(call[t].heap)'
      BY <1>1, <1>2, <1>15, <1>20 DEF LastPart
    <3>2. Loaded(call[t].last)'
      BY <1>2, <1>15, <1>20 DEF Loaded, PercentUsed, Avail
    <3>3. \A j \in 1..call'[t].i-1 : Loaded(hdr[call[t].heap].expand[j])'
      BY <1>1, <1>3, <1>15, <1>20 DEF Loaded, PercentUsed, Avail
    <3>4. call'[t].i > Others(Len(hdr'[call'[t].heap].expand))
      BY <1>1, <1>3, <1>4, <1>20 DEF Others
    <3> QED BY <3>1, <3>2, <3>3, <3>4 DEF LookGood
  <2>6. LocksBy(lock', t, N) /\ OthersStill(t)
    BY <1>12, <1>20, SameStill
  <2> QED BY ONLY <1>11, <1>12, <2>1, <2>4, <2>5, <2>6, GoesLocks, MemInv, CallLocksInv
<1> QED BY <1>7, <1>18, <1>19, <1>20

(* A call that expands its heap has the locks of all parts; they go back   *)
(* when it ends.                                                           *)
GrowingHas(t, p, N) ==
  /\ StateType /\ LockGood /\ t \in use.threads /\ LookGood(t)
  /\ p = call[t].heap /\ p \in Heaps /\ IsExpanding(p) /\ p \in Page /\ Depth(t, p) > 0 /\ call[t].kind \in {"heap", "queue"}
  /\ IsPart(hdr, live, p, call[t].last) /\ call[t].i = Len(hdr[p].expand) /\ call[t].i \in Nat
  /\ N \in [Page -> Nat] /\ N = [k \in Page |-> Depth(t, k)] /\ LocksBy(lock, t, N)
  /\ \A k \in Page : N[k] = (IF k \in {p, call[t].last} \cup PartsAfterFirst(p, call[t].i - 1) THEN 1 ELSE 0)
                              + (IF k = call[t].near THEN 1 ELSE 0)

LEMMA GrowingLocks ==
  ASSUME MemInv, CallLocksInv, NEW t \in Thread, pc[t] \in Growing
  PROVE  \E p, N : GrowingHas(t, p, N)
<1>1. PICK p : p = call[t].heap
  OBVIOUS
<1>2. ~ AtRest(t) /\ CallAt(t, pc[t], call[t]) /\ p \in Heaps /\ IsExpanding(p) /\ call[t].kind \in {"heap", "queue"}
  BY <1>1, GrowingCall DEF AtRest, Growing
<1>3. pc[t] \in Looking
  BY DEF Looking
<1>4. IsPart(hdr, live, p, call[t].last) /\ call[t].i <= Len(hdr[p].expand) /\ call[t].i \in Nat /\ p \in Page
  BY <1>1, <1>2, <1>3, CallTyped, HeapIsPage DEF CallAt
<1>5. StateType /\ LockGood /\ t \in use.threads /\ LookGood(t)
  BY <1>2, InCall
<1>6. PICK N \in [Page -> Nat] : N = [k \in Page |-> Depth(t, k)] /\ LocksBy(lock, t, N)
  BY <1>2, InCall
<1>7. \A k \in Page : N[k] = (IF k \in {p, call[t].last} \cup PartsAfterFirst(p, call[t].i - 1) THEN 1 ELSE 0)
                             + (IF k = call[t].near THEN 1 ELSE 0)
  BY <1>1, <1>3, <1>6, DepthAt
<1>8. call[t].i = Len(hdr[p].expand)
  <2>1. call[t].i > Others(Len(hdr[p].expand))
    BY <1>1, <1>5 DEF LookGood
  <2>2. Len(hdr[p].expand) \in Nat
    BY <1>2, LastIsPart
  <2> QED BY <1>4, <2>1, <2>2 DEF Others
<1>9. Depth(t, p) > 0
  BY <1>1, <1>3, HoldsFirst
<1> QED BY <1>1, <1>2, <1>4, <1>5, <1>6, <1>7, <1>8, <1>9 DEF GrowingHas

(* It ends: all its locks go back.                                         *)
LEMMA GrowingEnds ==
  ASSUME MemInv, CallLocksInv, NEW t \in Thread, pc[t] \in Growing, OthersStill(t), use' = use, ExpandDone(t)
  PROVE  CallLocksInv'
<1>1. PICK p, N : GrowingHas(t, p, N)
  BY GrowingLocks
<1>2. PICK ps : ps = {p, call[t].last} \cup PartsAfterFirst(p, call[t].i - 1)
  OBVIOUS
<1>3. /\ t \in use.threads /\ LocksBy(lock, t, N) /\ p = call[t].heap /\ call[t].i = Len(hdr[p].expand)
      /\ \A k \in Page : N[k] = (IF k \in ps THEN 1 ELSE 0) + (IF k = call[t].near THEN 1 ELSE 0)
  BY <1>1, <1>2 DEF GrowingHas
<1>4. Done(t, lock, ps)
  BY <1>2, <1>3 DEF ExpandDone, Others
<1> QED BY ONLY <1>3, <1>4, EndsLocks, MemInv, CallLocksInv, OthersStill(t), use' = use

(* Whether a part is loaded is seen in its size and its free list.         *)
LEMMA LoadedKept ==
  ASSUME NEW k, hdr'[k].list = hdr[k].list, hdr'[k].size = hdr[k].size
  PROVE  Loaded(k)' <=> Loaded(k)
BY DEF Loaded, PercentUsed, Avail

(* It takes a step on the way, and has its locks still.                    *)
LEMMA GrowingGoes ==
  ASSUME MemInv, CallLocksInv, NEW t \in Thread, pc[t] \in Growing, OthersStill(t), use' = use, lock' = lock,
         NEW place \in Growing, NEW q, Goto(t, place), call' = [call EXCEPT ![t].page = q],
         hdr'[call[t].heap].expand = hdr[call[t].heap].expand,
         \A k : IsPart(hdr, live, call[t].heap, k) => hdr'[k].list = hdr[k].list /\ hdr'[k].size = hdr[k].size
  PROVE  CallLocksInv'
<1>1. PICK p, N : GrowingHas(t, p, N)
  BY GrowingLocks
<1>2. /\ t \in use.threads /\ LocksBy(lock, t, N) /\ p = call[t].heap /\ p \in Heaps /\ IsExpanding(p)
      /\ StateType /\ LookGood(t) /\ IsPart(hdr, live, p, call[t].last) /\ call[t].i = Len(hdr[p].expand) /\ call[t].i \in Nat
      /\ \A k \in Page : N[k] = (IF k \in {p, call[t].last} \cup PartsAfterFirst(p, call[t].i - 1) THEN 1 ELSE 0)
                                  + (IF k = call[t].near THEN 1 ELSE 0)
  BY <1>1 DEF GrowingHas
<1>3. PICK c : c = [call[t] EXCEPT !.page = q]
  OBVIOUS
<1>4. Passes(t, place, c) /\ c.heap = p /\ c.near = call[t].near /\ c.last = call[t].last /\ c.i = call[t].i
  BY <1>2, <1>3, CallTyped DEF Passes, Goto, CallType
<1>5. pc'[t] = place /\ call'[t] = c
  BY ONLY <1>2, <1>4, GoesTo, t \in Thread
<1>6. /\ call'[t].heap = p /\ call'[t].near = call[t].near /\ call'[t].last = call[t].last /\ call'[t].i = call[t].i
      /\ hdr'[p].expand = hdr[p].expand /\ pc'[t] \in Looking
  BY <1>2, <1>4, <1>5 DEF Looking
<1>7. PartsAfterFirst(call[t].heap, call[t].i - 1)' = PartsAfterFirst(p, call[t].i - 1)
  BY ONLY <1>6 DEF PartsAfterFirst
<1>8. \A k \in Page : N[k] = Depth(t, k)'
  BY <1>2, <1>6, <1>7, DepthNext
<1>9. LookGood(t)'
  <2>1. /\ call[t].last = LastPart(p) /\ Loaded(call[t].last)
        /\ \A j \in 1..call[t].i-1 : Loaded(hdr[p].expand[j])
    BY <1>2 DEF LookGood, Looking
  <2>2. ASSUME NEW k, IsPart(hdr, live, p, k), Loaded(k) PROVE Loaded(k)'
    BY <1>2, <2>2, LoadedKept
  <2>3. call'[t].last = LastPart(call[t].heap)'
    BY <1>6, <2>1 DEF LastPart
  <2>4. Loaded(call[t].last)'
    <3>1. PICK k : k = call[t].last
      OBVIOUS
    <3>2. Loaded(k)'
      BY <3>1, <1>2, <2>1, <2>2
    <3>3. call'[t].last = k
      BY <3>1, <1>6
    <3> QED BY <3>2, <3>3 DEF Loaded, PercentUsed, Avail
  <2>5. ASSUME NEW j \in 1..call[t].i-1 PROVE Loaded(hdr[call[t].heap].expand[j])'
    <3>1. PICK k : k = hdr[p].expand[j]
      OBVIOUS
    <3>2. j \in 1..Len(hdr[p].expand)
      BY <1>2
    <3>3. IsPart(hdr, live, p, k)
      BY <1>2, <3>1, <3>2, LastIsPart
    <3>4. Loaded(k)'
      BY <2>1, <2>2, <3>1, <3>3
    <3>5. hdr'[call'[t].heap].expand[j] = k
      BY <1>6, <3>1
    <3> QED BY <3>4, <3>5 DEF Loaded, PercentUsed, Avail
  <2>6. call'[t].i > Others(Len(hdr'[call'[t].heap].expand))
    BY <1>2, <1>6 DEF Others
  <2> QED BY <1>6, <2>3, <2>4, <2>5, <2>6 DEF LookGood
<1>10. LocksBy(lock', t, N)
  BY <1>2
<1> QED BY ONLY <1>2, <1>4, <1>8, <1>9, <1>10, GoesLocks, MemInv, CallLocksInv, OthersStill(t)

(* It takes a block for a part, which ends it, or until the list has moved.*)
LEMMA TakeBlockLocks ==
  ASSUME MemInv, CallLocksInv, SafeUses, NEW t \in Thread, TakeBlock(t)
  PROVE  CallLocksInv'
<1>1. PICK p, N : GrowingHas(t, p, N)
  BY GrowingLocks DEF TakeBlock, Growing
<1>2. PICK n : n = hdr[p].size
  OBVIOUS
<1>3. PICK q : q = LowestBlock(n)
  OBVIOUS
<1>4. /\ p = call[t].heap /\ p \in Heaps /\ IsExpanding(p) /\ p \in Page /\ Depth(t, p) > 0 /\ LockGood
      /\ call[t].kind \in {"heap", "queue"} /\ t \in use.threads
  BY <1>1 DEF GrowingHas
<1>5. /\ pc[t] \in Growing /\ use' = use
      /\ \/ ExpandDone(t) /\ hdr' = hdr
         \/ /\ q # NoPage /\ AllocInternal(WithPart(hdr, p, q), q, call[t].kind)
            /\ blocks' = [blocks EXCEPT ![q] = n] /\ ExpandDone(t)
         \/ /\ call' = [call EXCEPT ![t].page = q] /\ hdr' = hdr /\ lock' = lock
            /\ Goto(t, "space") \/ Goto(t, "back")
  BY <1>2, <1>3, <1>4 DEF TakeBlock, Growing
<1>6. CASE ExpandDone(t) /\ hdr' = hdr
  BY <1>5, <1>6, SameStill, GrowingEnds
<1>7. CASE /\ q # NoPage /\ AllocInternal(WithPart(hdr, p, q), q, call[t].kind)
           /\ blocks' = [blocks EXCEPT ![q] = n] /\ ExpandDone(t)
  <2>1. PartsKept(hdr, live, hdr', p)
    BY <1>2, <1>3, <1>4, <1>7, PartEffect DEF Effect
  <2>2. OthersStill(t)
    BY ONLY <1>4, <2>1, StillAt, MemInv, SafeUses
  <2> QED BY <1>5, <1>7, <2>2, GrowingEnds
<1>8. CASE /\ call' = [call EXCEPT ![t].page = q] /\ hdr' = hdr /\ lock' = lock
           /\ Goto(t, "space") \/ Goto(t, "back")
  <2>1. PICK place \in Growing : Goto(t, place)
    BY <1>8 DEF Growing
  <2> QED BY <1>5, <1>8, <2>1, SameStill, GrowingGoes
<1> QED BY <1>5, <1>6, <1>7, <1>8

(* It takes another for the list.                                          *)
LEMMA MoveListLocks ==
  ASSUME MemInv, CallLocksInv, SafeUses, NEW t \in Thread, MoveList(t)
  PROVE  CallLocksInv'
<1>1. PICK p, N : GrowingHas(t, p, N)
  BY GrowingLocks DEF MoveList, Growing
<1>2. PICK n : n = hdr[p].size
  OBVIOUS
<1>3. PICK s : s = LowestBlock(n)
  OBVIOUS
<1>4. /\ p = call[t].heap /\ p \in Heaps /\ p \in Page /\ Depth(t, p) > 0 /\ LockGood /\ t \in use.threads
  BY <1>1 DEF GrowingHas
<1>5. /\ pc[t] \in Growing /\ use' = use /\ lock' = lock /\ call' = call /\ Goto(t, "back") /\ "back" \in Growing
      /\ hdr' = hdr \/ (s # NoPage /\ hdr' = WithSpace(hdr, p, s))
  BY <1>2, <1>3, <1>4 DEF MoveList, Growing
<1>6. call' = [call EXCEPT ![t].page = call[t].page]
  <2>1. call \in [Thread -> CallType] /\ call[t] \in CallType
    BY CallTyped
  <2>2. [call[t] EXCEPT !.page = call[t].page] = call[t]
    BY <2>1 DEF CallType
  <2> QED BY <2>1, <2>2, <1>5
<1>7. CASE hdr' = hdr
  BY <1>5, <1>6, <1>7, SameStill, GrowingGoes
<1>8. CASE s # NoPage /\ hdr' = WithSpace(hdr, p, s)
  <2>1. s \in Page /\ blocks[s] = 0 /\ s # p
    BY <1>2, <1>3, <1>4, <1>8, BlockForHeap
  <2>2. hdr' = [hdr EXCEPT ![s] = SimpleSpace(hdr[p].size), ![p].space = s, ![p].max = SpaceMax] /\ hdr \in [Page -> HeaderType]
    BY <1>8, MemTyped DEF WithSpace, MemInv
  <2>3. /\ hdr'[p].expand = hdr[p].expand /\ hdr'[p].list = hdr[p].list /\ hdr'[p].size = hdr[p].size
        /\ \A k \in Page : k # p /\ k # s => hdr'[k] = hdr[k]
    <3>1. hdr[p] \in HeaderType
      BY <1>4, <2>2
    <3>2. hdr'[p] = [hdr[p] EXCEPT !.space = s, !.max = SpaceMax]
      BY <1>4, <2>1, <2>2
    <3>3. hdr'[p].expand = hdr[p].expand /\ hdr'[p].list = hdr[p].list /\ hdr'[p].size = hdr[p].size
      BY ONLY <3>1, <3>2 DEF HeaderType
    <3>4. \A k \in Page : k # p /\ k # s => hdr'[k] = hdr[k]
      BY <1>4, <2>1, <2>2
    <3> QED BY <3>3, <3>4
  <2>4. \A c, k : IsPart(hdr, live, c, k) => k \in Page /\ k # s
    <3>1. \A c, k : IsPart(hdr, live, c, k) => k \in Page /\ blocks[k] > 0
      BY PartFacts DEF MemInv
    <3> QED BY <2>1, <3>1
  <2>5. PartsKept(hdr, live, hdr', p)
    BY <2>3, <2>4 DEF PartsKept
  <2>6. OthersStill(t)
    BY ONLY <1>4, <2>5, StillAt, MemInv, SafeUses
  <2>7. \A k : IsPart(hdr, live, p, k) => hdr'[k].list = hdr[k].list /\ hdr'[k].size = hdr[k].size
    BY <2>3, <2>4
  <2> QED BY <1>4, <1>5, <1>6, <2>3, <2>6, <2>7, GrowingGoes
<1> QED BY <1>5, <1>7, <1>8

(* It gives its block back, which is part of no heap.                      *)
LEMMA GiveBlockLocks ==
  ASSUME MemInv, BlocksInv, CallLocksInv, NEW t \in Thread, GiveBlock(t)
  PROVE  CallLocksInv'
<1>1. PICK q : q = call[t].page
  OBVIOUS
<1>2. /\ pc[t] = "back" /\ pc[t] \in Growing /\ use' = use /\ hdr' = [hdr EXCEPT ![q] = NoHeader]
      /\ ExpandDone(t) \/ (Goto(t, "grow") /\ call' = [call EXCEPT ![t].page = NoPage] /\ lock' = lock)
  BY <1>1 DEF GiveBlock, Growing
<1>3. Loose(q)
  BY <1>1, <1>2 DEF BlocksInv, HandGood, InHand
<1>4. \A c, k : IsPart(hdr, live, c, k) => hdr'[k] = hdr[k]
  <2>1. hdr \in [Page -> HeaderType] /\ \A c, k : IsPart(hdr, live, c, k) => k \in Page /\ hdr[k].kind = "compound"
    BY MemTyped, PartFacts DEF MemInv
  <2> QED BY <1>2, <1>3, <2>1 DEF Loose
<1>5. OthersStill(t)
  BY <1>4 DEF OthersStill
<1>6. CASE ExpandDone(t)
  BY <1>2, <1>5, <1>6, GrowingEnds
<1>7. CASE Goto(t, "grow") /\ call' = [call EXCEPT ![t].page = NoPage] /\ lock' = lock
  <2>1. hdr'[call[t].heap] = hdr[call[t].heap]
    <3>1. call[t].heap \in Heaps
      BY <1>2, GrowingCall
    <3> QED BY <3>1, <1>4, HeapIsPage
  <2>2. "grow" \in Growing
    BY DEF Growing
  <2> QED BY <1>2, <1>4, <1>5, <1>7, <2>1, <2>2, GrowingGoes
<1> QED BY <1>2, <1>6, <1>7

(* A report begins with the lock of the heap.                              *)
LEMMA FreeSpaceLocks ==
  ASSUME MemInv, CallLocksInv, NEW t, NEW p \in Heaps, FreeSpace(t, p)
  PROVE  CallLocksInv'
<1>1. PICK c : c = [NoCall EXCEPT !.heap = p, !.i = 2]
  OBVIOUS
<1>2. /\ t \in use.threads /\ AtRest(t) /\ CanLock(p, t) /\ lock' = Locked(lock, p, t) /\ hdr' = hdr
      /\ Passes(t, "sum", c)
  BY <1>1 DEF FreeSpace, Call, Goto, Passes
<1>3. StateType /\ LockGood /\ t \in Thread /\ p \in Page
  BY <1>2, ThreadIs, HeapIsPage DEF MemInv, CallLocksInv
<1>4. c.heap = p /\ c.i = 2
  BY <1>1 DEF NoCall
<1>5. pc'[t] = "sum" /\ call'[t] = c
  BY ONLY <1>2, <1>3, GoesTo
<1>6. PICK N : N = [k \in Page |-> Depth(t, k)]
  OBVIOUS
<1>7. LocksBy(lock, t, N)
  BY <1>3, <1>6, LocksNow
<1>8. N \in [Page -> Nat] /\ \A k \in Page : N[k] = 0
  BY <1>2, <1>6, DepthRests
<1>9. PICK N1 : N1 = [N EXCEPT ![p] = @ + 1]
  OBVIOUS
<1>10. LocksBy(lock', t, N1)
  BY ONLY <1>2, <1>3, <1>7, <1>9, LocksTaken
<1>11. PartsAfterFirst(call[t].heap, call[t].i - 1)' = {}
  BY <1>4, <1>5 DEF PartsAfterFirst
<1>12. \A k \in Page : N1[k] = Depth(t, k)'
  BY <1>3, <1>4, <1>5, <1>8, <1>9, <1>11, DepthNext
<1>13. LookGood(t)'
  BY <1>5 DEF LookGood, Looking, Growing
<1>14. OthersStill(t)
  BY <1>2, SameStill
<1> QED BY ONLY <1>2, <1>10, <1>12, <1>13, <1>14, GoesLocks, MemInv, CallLocksInv

(* It gets the locks of the parts one after the other.                     *)
LEMMA SumSpaceLocks ==
  ASSUME MemInv, CallLocksInv, NEW t \in Thread, SumSpace(t)
  PROVE  CallLocksInv'
<1>1. PICK p : p = call[t].heap
  OBVIOUS
<1>2. PICK i : i = call[t].i
  OBVIOUS
<1>3. PICK n : n = Len(Parts(hdr, p))
  OBVIOUS
<1>4. PICK q : q = hdr[p].expand[i]
  OBVIOUS
<1>5. /\ pc[t] = "sum" /\ use' = use /\ hdr' = hdr
      /\ \/ /\ i <= n /\ CanLock(q, t) /\ lock' = Locked(lock, q, t)
            /\ call' = [call EXCEPT ![t].i = i + 1] /\ pc' = pc
         \/ /\ i > n
            /\ lock' = ReleaseAll(lock, {p} \cup PartsAfterFirst(p, n)) /\ Finish(t)
  BY <1>1, <1>2, <1>3, <1>4 DEF SumSpace
<1>6. ~ AtRest(t) /\ CallAt(t, "sum", call[t])
  BY <1>5, CallIsAt DEF MemInv, AtRest
<1>7. p \in Heaps /\ p \in Page /\ i \in Nat /\ i >= 2 /\ i <= n + 1 /\ n \in Nat
  BY <1>1, <1>2, <1>3, <1>6, HeapIsPage, CallTyped, PartsLength DEF CallAt, Looking, Growing
<1>8. StateType /\ LockGood /\ t \in use.threads
  BY <1>6, InCall
<1>9. PICK N \in [Page -> Nat] : N = [k \in Page |-> Depth(t, k)] /\ LocksBy(lock, t, N)
  BY <1>6, InCall
<1>10. \A k \in Page : N[k] = IF k \in {p} \cup PartsAfterFirst(p, i - 1) THEN 1 ELSE 0
  BY <1>1, <1>2, <1>5, <1>9, DepthAt
<1>11. OthersStill(t)
  BY <1>5, SameStill
<1>12. CASE /\ i <= n /\ CanLock(q, t) /\ lock' = Locked(lock, q, t)
            /\ call' = [call EXCEPT ![t].i = i + 1] /\ pc' = pc
  <2>1. IsExpanding(p) /\ Parts(hdr, p) = hdr[p].expand /\ n = Len(hdr[p].expand)
    BY <1>3, <1>7, <1>12, PartsLength
  <2>2. i \in 2..Len(hdr[p].expand) /\ i \in 1..n
    BY <1>7, <1>12, <2>1
  <2>3. q # p /\ q \notin PartsAfterFirst(p, i - 1)
    BY <1>4, <1>7, <2>1, <2>2, NextPart
  <2>4. q \in Page
    BY <1>3, <1>4, <1>7, <2>1, <2>2, PartsLength, HeapIsPage
  <2>5. PartsAfterFirst(p, i) = PartsAfterFirst(p, i - 1) \cup {q}
    BY <1>4, <1>7, MoreParts
  <2>6. PICK N1 : N1 = [N EXCEPT ![q] = @ + 1]
    OBVIOUS
  <2>7. LocksBy(lock', t, N1)
    BY ONLY <1>8, <1>9, <1>12, <2>4, <2>6, LocksTaken
  <2>8. \A k \in Page : N1[k] = IF k \in {p} \cup PartsAfterFirst(p, i) THEN 1 ELSE 0
    BY <1>9, <1>10, <2>3, <2>4, <2>5, <2>6
  <2>9. PICK c : c = [call[t] EXCEPT !.i = i + 1]
    OBVIOUS
  <2>10. Passes(t, "sum", c) /\ c.heap = p /\ c.i = i + 1
    BY <1>1, <1>5, <1>12, <2>9, CallTyped DEF Passes, Goto, CallType
  <2>11. pc'[t] = "sum" /\ call'[t] = c
    BY ONLY <1>8, <2>10, GoesTo, t \in Thread
  <2>12. PartsAfterFirst(call[t].heap, call[t].i - 1)' = PartsAfterFirst(p, i)
    <3>0. call'[t].heap = p /\ call'[t].i = i + 1 /\ hdr' = hdr /\ i \in Nat
      BY ONLY <1>5, <1>7, <2>10, <2>11
    <3>1. call'[t].heap = p /\ call'[t].i - 1 = i /\ hdr' = hdr
      BY ONLY <3>0
    <3> QED BY ONLY <3>1 DEF PartsAfterFirst
  <2>13. ASSUME NEW k \in Page PROVE N1[k] = Depth(t, k)'
    <3>1. Depth(t, k)' = IF k \in {p} \cup PartsAfterFirst(p, i) THEN 1 ELSE 0
      BY <2>10, <2>11, <2>12, DepthNext
    <3> QED BY <2>8, <3>1
  <2>14. LookGood(t)'
    BY <2>11 DEF LookGood, Looking, Growing
  <2> QED BY ONLY <1>8, <1>11, <2>7, <2>10, <2>13, <2>14, GoesLocks, MemInv, CallLocksInv
<1>13. CASE i > n /\ lock' = ReleaseAll(lock, {p} \cup PartsAfterFirst(p, n)) /\ Finish(t)
  <2>1. i - 1 = n
    BY <1>7, <1>13
  <2>2. PICK ps : ps = {p} \cup PartsAfterFirst(p, n)
    OBVIOUS
  <2>3. PICK N2 : N2 = [k \in Page |-> 0]
    OBVIOUS
  <2>4. Drops(lock, N, ps, lock', N2)
    <3>1. lock' = [k \in Page |-> IF k \in ps THEN Released(lock, k)[k] ELSE lock[k]]
      BY <1>13, <2>2 DEF ReleaseAll
    <3>2. \A k \in Page : N[k] = N2[k] + (IF k \in ps THEN 1 ELSE 0)
      BY <1>10, <2>1, <2>2, <2>3
    <3> QED BY <2>3, <3>1, <3>2 DEF Drops
  <2>5. LocksBy(lock', t, N2)
    BY ONLY <1>8, <1>9, <2>4, LocksDropped
  <2>6. Passes(t, "idle", NoCall)
    BY <1>5, <1>13 DEF Finish, Goto, Passes
  <2>7. pc'[t] = "idle"
    BY ONLY <1>8, <2>6, GoesTo, t \in Thread
  <2>8. \A k \in Page : N2[k] = Depth(t, k)'
    BY <2>3, <2>7, DepthNext
  <2>9. LookGood(t)'
    BY <2>7 DEF LookGood, Looking, Growing
  <2> QED BY ONLY <1>8, <1>11, <2>5, <2>6, <2>8, <2>9, GoesLocks, MemInv, CallLocksInv
<1> QED BY <1>5, <1>12, <1>13

(* Frees unlock other locks than they took: only whose they are is left.   *)
LEMMA OkTaken ==
  ASSUME StateType, NEW t \in use.threads, NEW lk, LockOk(lk), NEW q \in Page
  PROVE  LockOk(Locked(lk, q, t))
<1>1. PICK l2 : l2 = Locked(lk, q, t)
  OBVIOUS
<1>2. lk \in [Page -> [owner : Thread \cup {NoThread}, depth : Nat]] /\ t \in Thread
  BY ThreadIs DEF LockOk
<1>3. /\ l2[q] = [owner |-> t, depth |-> lk[q].depth + 1] /\ \A k \in Page : k # q => l2[k] = lk[k]
      /\ lk[q].depth \in Nat
  BY <1>1, <1>2 DEF Locked
<1>4. l2 \in [Page -> [owner : Thread \cup {NoThread}, depth : Nat]]
  BY <1>1, <1>2, <1>3 DEF Locked
<1> QED BY <1>1, <1>2, <1>3, <1>4 DEF LockOk

(* A release leaves locks of threads of this behaviour.                    *)
LEMMA OkReleased ==
  ASSUME NEW lk, LockOk(lk), NEW q \in Page
  PROVE  LockOk(Released(lk, q))
<1>1. PICK l2 : l2 = Released(lk, q)
  OBVIOUS
<1>2. lk \in [Page -> [owner : Thread \cup {NoThread}, depth : Nat]]
  BY DEF LockOk
<1>3. l2 = [lk EXCEPT ![q] = Released(lk, q)[q]]
  BY <1>1, <1>2 DEF Released
<1>4. PICK v : v = Released(lk, q)[q]
  OBVIOUS
<1>5. v \in [owner : Thread \cup {NoThread}, depth : Nat] /\ v.owner \in {lk[q].owner, NoThread}
  <2>1. v = IF lk[q].depth <= 1 THEN Unlocked ELSE [owner |-> lk[q].owner, depth |-> lk[q].depth - 1]
    BY <1>2, <1>4, ReleasedIs
  <2>2. PICK n \in Nat : n = lk[q].depth
    BY <1>2
  <2>3. lk[q].owner \in Thread \cup {NoThread}
    BY <1>2
  <2>4. v = Unlocked \/ (n - 1 \in Nat /\ v = [owner |-> lk[q].owner, depth |-> n - 1])
    BY ONLY <2>1, <2>2
  <2> QED BY ONLY <2>3, <2>4 DEF Unlocked
<1>6. l2 \in [Page -> [owner : Thread \cup {NoThread}, depth : Nat]]
  BY <1>2, <1>3, <1>4, <1>5
<1>7. \A k \in Page : l2[k] = IF k = q THEN v ELSE lk[k]
  BY <1>2, <1>3, <1>4
<1> QED BY <1>1, <1>5, <1>6, <1>7 DEF LockOk

(* A free touches the part it gives the page back to.                      *)
LEMMA FreeScanStill ==
  ASSUME MemInv, LockGood, SafeUses, NEW t \in Thread, pc[t] = "freescan", t \in use.threads,
         NEW p \in Page, Depth(t, p) > 0 \/ Unlocks, FreeInternal(p, call[t].page)
  PROVE  OthersStill(t)
<1>1. CASE Unlocks
  BY <1>1, OthersAre, FreeAlone
<1>2. CASE ~ Unlocks
  <2>1. PICK q : q = call[t].page
    OBVIOUS
  <2>2. q \in Given(hdr, blocks, live, Freed)
    BY <2>1 DEF Given, Freed
  <2>3. blocks[q] = 0 /\ \A c, k : IsPart(hdr, live, c, k) => k \in Page /\ blocks[k] > 0
    BY <2>2, GivenFacts, PartFacts DEF MemInv
  <2>4. \A k \in Page : k # p /\ k # q => hdr'[k] = hdr[k]
    BY <2>1, MemTyped DEF FreeInternal, MemInv
  <2>5. PartsKept(hdr, live, hdr', p)
    BY <2>3, <2>4 DEF PartsKept
  <2> QED BY <1>2, <2>5, StillAt
<1> QED BY <1>1, <1>2

(* In a heap that does not expand a free takes and releases one lock.      *)
LEMMA FixedHeap ==
  ASSUME MemInv, ~ Unlocks, NEW t \in Thread, pc[t] = "freescan"
  PROVE  call[t].i = 1 /\ Len(Parts(hdr, call[t].heap)) = 1
<1>1. CallAt(t, "freescan", call[t])
  BY CallIsAt DEF MemInv, AtRest
<1>2. "expanding" \notin use.ops /\ call[t].heap \in Page /\ call[t].i \in DOMAIN Parts(hdr, call[t].heap)
  BY <1>1, HeapIsPage DEF CallAt, Unlocks
<1>3. Parts(hdr, call[t].heap) = <<call[t].heap>>
  BY <1>2 DEF MemInv, ExpandInv, Parts
<1> QED BY <1>2, <1>3

(* A free gets the lock of the heap. *)
LEMMA FreeLockFirstLocks ==
  ASSUME MemInv, CallLocksInv, NEW t \in Thread, FreeLockFirst(t)
  PROVE  CallLocksInv'
<1>1. PICK p : p = call[t].heap
  OBVIOUS
<1>2. /\ pc[t] = "freefirst" /\ CanLock(p, t) /\ use' = use /\ hdr' = hdr /\ call' = call
      /\ lock' = Locked(lock, p, t) /\ Goto(t, "freescan")
  BY <1>1 DEF FreeLockFirst
<1>3. ~ AtRest(t) /\ p \in Heaps /\ p \in Page
  <2>1. ~ AtRest(t) /\ CallAt(t, "freefirst", call[t])
    BY <1>2, CallIsAt DEF MemInv, AtRest
  <2> QED BY <1>1, <2>1, HeapIsPage DEF CallAt
<1>4. StateType /\ LockGood /\ t \in use.threads
  BY <1>3, InCall
<1>5. PICK N \in [Page -> Nat] : N = [k \in Page |-> Depth(t, k)] /\ LocksBy(lock, t, N)
  BY <1>3, InCall
<1>6. \A k \in Page : N[k] = 0
  BY <1>2, <1>5, DepthAt
<1>7. PICK N1 : N1 = [N EXCEPT ![p] = @ + 1]
  OBVIOUS
<1>8. LocksBy(lock', t, N1)
  BY ONLY <1>2, <1>3, <1>4, <1>5, <1>7, LocksTaken
<1>9. Passes(t, "freescan", call[t])
  BY <1>2, CallTyped DEF Passes, Goto
<1>10. pc'[t] = "freescan" /\ call'[t] = call[t]
  BY ONLY <1>4, <1>9, GoesTo, t \in Thread
<1>11. \A k \in Page : N1[k] = Depth(t, k)'
  BY <1>1, <1>3, <1>5, <1>6, <1>7, <1>10, DepthNext
<1>12. LookGood(t)'
  BY <1>10 DEF LookGood, Looking, Growing
<1>13. OthersStill(t)
  BY <1>2, SameStill
<1> QED BY ONLY <1>4, <1>8, <1>9, <1>11, <1>12, <1>13, GoesLocks, MemInv, CallLocksInv

(* It may release another lock than it took; then there is one thread.     *)
LEMMA FreeScanLocks ==
  ASSUME MemInv, CallLocksInv, SafeUses, NEW t \in Thread, FreeScan(t)
  PROVE  CallLocksInv'
<1>1. PICK p : p = call[t].heap
  OBVIOUS
<1>2. PICK i : i = call[t].i
  OBVIOUS
<1>3. PICK q : q = Parts(hdr, p)[i]
  OBVIOUS
<1>4. PICK lk : lk = IF i > 1 THEN Released(Locked(lock, q, t), p) ELSE lock
  OBVIOUS
<1>5. /\ pc[t] = "freescan" /\ use' = use
      /\ \/ lock' = Released(lk, p) /\ Passes(t, "idle", NoCall) /\ FreeInternal(q, call[t].page)
         \/ /\ lock' = lk /\ Passes(t, "freescan", [call[t] EXCEPT !.i = i + 1])
            /\ i < Len(Parts(hdr, p)) /\ hdr' = hdr
  <2>1. /\ pc[t] = "freescan" /\ use' = use
        /\ \/ lock' = Released(lk, p) /\ Finish(t) /\ FreeInternal(q, call[t].page)
           \/ /\ lock' = lk /\ call' = [call EXCEPT ![t].i = i + 1] /\ pc' = pc
              /\ i < Len(Parts(hdr, p)) /\ hdr' = hdr
    BY <1>1, <1>2, <1>3, <1>4 DEF FreeScan
  <2> QED BY <2>1, CallTyped DEF Passes, Goto, Finish
<1>6. ~ AtRest(t) /\ CallAt(t, "freescan", call[t])
  BY <1>5, CallIsAt DEF MemInv, AtRest
<1>7. p \in Heaps /\ p \in Page /\ i \in DOMAIN Parts(hdr, p) /\ q \in Page
  <2>1. p \in Heaps /\ i \in DOMAIN Parts(hdr, p)
    BY <1>1, <1>2, <1>6 DEF CallAt
  <2>2. q \in Page
    BY <1>3, <2>1, PartsLength, HeapIsPage
  <2> QED BY <2>1, <2>2, HeapIsPage
<1>8. StateType /\ LockGood /\ t \in use.threads
  BY <1>6, InCall
<1>9. PICK N0 \in [Page -> Nat] : N0 = [k \in Page |-> Depth(t, k)] /\ LocksBy(lock, t, N0)
  BY <1>6, InCall
<1>10. \A k \in Page : N0[k] = IF k \in {p} THEN 1 ELSE 0
  BY <1>1, <1>5, <1>9, DepthAt
<1>11. OthersStill(t)
  <2>1. CASE hdr' = hdr
    BY <2>1, SameStill
  <2>2. CASE FreeInternal(q, call[t].page)
    <3>1. Depth(t, q) > 0 \/ Unlocks
      <4>1. CASE ~ Unlocks
        <5>1. q = p
          BY <1>1, <1>2, <1>3, <1>5, <1>7, <4>1, FixedHeap, PartsLength
        <5> QED BY <5>1, <1>7, <1>9, <1>10
      <4> QED BY <4>1
    <3> QED BY <1>5, <1>7, <1>8, <2>2, <3>1, FreeScanStill
  <2> QED BY <1>5, <2>1, <2>2
<1>12. CASE Unlocks
  <2>1. LockOk(lk)
    <3>1. LockOk(lock)
      BY <1>8, LockOkNow
    <3>2. LockOk(Locked(lock, q, t))
      BY <1>7, <1>8, <3>1, OkTaken
    <3>3. LockOk(Released(Locked(lock, q, t), p))
      BY ONLY <1>7, <3>2, OkReleased
    <3> QED BY <1>4, <3>1, <3>3
  <2>2. LockOk(lock')
    BY <1>5, <1>7, <2>1, OkReleased
  <2>3. PICK place, c : /\ place = "idle" \/ (place = "freescan" /\ c.heap = p)
                        /\ Passes(t, place, c)
    <3>1. PICK c : c = [call[t] EXCEPT !.i = i + 1]
      OBVIOUS
    <3>2. c.heap = p
      BY <1>1, <3>1, CallTyped DEF CallType
    <3> QED BY <1>5, <3>1, <3>2
  <2>4. pc'[t] = place /\ call'[t] = c
    BY ONLY <1>8, <2>3, GoesTo, t \in Thread
  <2>5. PICK N : N = [k \in Page |-> IF place = "freescan" /\ k = p THEN 1 ELSE 0]
    OBVIOUS
  <2>6. LocksBy(lock', t, N)
    BY <1>12, <2>2, <2>5 DEF LocksBy
  <2>7. \A k \in Page : N[k] = Depth(t, k)'
    BY <2>3, <2>4, <2>5, DepthNext
  <2>8. LookGood(t)'
    BY <2>3, <2>4 DEF LookGood, Looking, Growing
  <2> QED BY ONLY <1>8, <1>11, <2>3, <2>6, <2>7, <2>8, GoesLocks, MemInv, CallLocksInv
<1>13. CASE ~ Unlocks
  <2>1. i = 1 /\ lock' = Released(lock, p) /\ Passes(t, "idle", NoCall)
    <3>1. i = 1 /\ Len(Parts(hdr, p)) = 1
      BY <1>1, <1>2, <1>5, <1>13, FixedHeap
    <3>2. lk = lock
      BY ONLY <1>4, <3>1
    <3>3. ~ (i < Len(Parts(hdr, p)))
      BY ONLY <3>1
    <3> QED BY ONLY <1>5, <3>1, <3>2, <3>3
  <2>2. PICK N : N = [k \in Page |-> 0]
    OBVIOUS
  <2>3. Drops(lock, N0, {p}, lock', N)
    <3>1. DOMAIN lock = Page
      BY <1>9 DEF LocksBy, LockOk
    <3>2. lock' = [k \in Page |-> IF k \in {p} THEN Released(lock, k)[k] ELSE lock[k]]
      BY <3>1, <1>7, <2>1 DEF Released
    <3>3. \A k \in Page : N0[k] = N[k] + (IF k \in {p} THEN 1 ELSE 0)
      BY <1>10, <2>2
    <3> QED BY <2>2, <3>2, <3>3 DEF Drops
  <2>4. LocksBy(lock', t, N)
    BY ONLY <1>8, <1>9, <2>3, LocksDropped
  <2>5. pc'[t] = "idle"
    BY ONLY <1>8, <2>1, GoesTo, t \in Thread
  <2>6. \A k \in Page : N[k] = Depth(t, k)'
    BY <2>2, <2>5, DepthNext
  <2>7. LookGood(t)'
    BY <2>5 DEF LookGood, Looking, Growing
  <2> QED BY ONLY <1>8, <1>11, <2>1, <2>4, <2>6, <2>7, GoesLocks, MemInv, CallLocksInv
<1> QED BY <1>12, <1>13

(* No lock is taken at the start.                                          *)
LEMMA LocksInit ==
  ASSUME CInit
  PROVE  CallLocksInv
<1>1. /\ \A p \in Page : lock[p] = Unlocked
      /\ lock = [p \in Page |-> Unlocked]
      /\ \A t \in Thread : pc[t] = "idle"
  BY DEF CInit, SInit
<1>2. \A t \in Thread : \A p : Depth(t, p) = 0
  BY <1>1, DepthRests DEF AtRest
<1>3. LockType
  BY <1>1 DEF LockType, Unlocked
<1>4. \A p \in Page : lock[p].owner = NoThread
  BY <1>1 DEF Unlocked
<1>5. LockGood
  <2>1. \A t \in Thread, p \in Page : ~ (Depth(t, p) > 0)
    BY <1>2
  <2> QED BY ONLY <1>1, <1>3, <1>4, <2>1 DEF LockGood
<1>6. \A t \in Thread : LookGood(t)
  BY <1>1 DEF LookGood, Looking, Growing
<1> QED BY <1>5, <1>6 DEF CallLocksInv

(* Nor does a stutter take one.                                            *)
LEMMA LocksSame ==
  ASSUME CallLocksInv, UNCHANGED cvars
  PROVE  CallLocksInv'
<1>1. hdr' = hdr /\ lock' = lock /\ use' = use /\ pc' = pc /\ call' = call
  BY DEF cvars, svars
<1>2. \A t : \A p : Depth(t, p)' = Depth(t, p)
  BY <1>1 DEF Depth, HoldsOf, NearOf, PartsAfterFirst
<1>3. LockGood'
  <2>1. LockType'
    BY <1>1 DEF CallLocksInv, LockGood, LockType
  <2>2. \A p \in Page : lock'[p].owner # NoThread => lock'[p].owner \in use'.threads
    BY <1>1 DEF CallLocksInv, LockGood
  <2>3. ASSUME ~ Unlocks
        PROVE  /\ \A t \in Thread, p \in Page : Depth(t, p)' > 0 => lock'[p] = [owner |-> t, depth |-> Depth(t, p)']
               /\ \A p \in Page : lock'[p] # Unlocked => \E t \in Thread : Depth(t, p)' > 0
    <3>1. \A t \in Thread, p \in Page : Depth(t, p) > 0 => lock[p] = [owner |-> t, depth |-> Depth(t, p)]
      BY <2>3 DEF CallLocksInv, LockGood
    <3>2. \A p \in Page : lock[p] # Unlocked => \E t \in Thread : Depth(t, p) > 0
      BY <2>3 DEF CallLocksInv, LockGood
    <3> QED BY ONLY <1>1, <1>2, <3>1, <3>2
  <2>4. Unlocks' <=> Unlocks
    BY <1>1 DEF Unlocks
  <2> QED BY <2>1, <2>2, <2>3, <2>4 DEF LockGood
<1>4. ASSUME NEW t \in Thread PROVE LookGood(t)'
  <2>1. LookGood(t)
    BY DEF CallLocksInv
  <2> QED BY <1>1, <2>1 DEF LookGood, Looking, Growing, LastPart, Loaded, PercentUsed, Avail
<1> QED BY <1>3, <1>4 DEF CallLocksInv

(* Every step keeps what is known of locks.                                *)
LEMMA LocksNext ==
  ASSUME MemInv, BlocksInv, CallLocksInv, SafeUses, [CNext]_cvars
  PROVE  CallLocksInv'
<1>1. CASE UNCHANGED cvars
  BY <1>1, LocksSame
<1>2. ASSUME NEW t \in Thread, AtRest(t), SOps(t), pc' = pc, call' = call PROVE CallLocksInv'
  BY <1>2, PieceCallsLocks
<1>3. ASSUME NEW t \in Thread, CallSteps(t) PROVE CallLocksInv'
  BY <1>3, LockFirstLocks, LockLastLocks, PickLocks, ScanLocks, TakeBlockLocks, MoveListLocks, GiveBlockLocks,
     LockNearLocks, FreeLockFirstLocks, FreeScanLocks, SumSpaceLocks DEF CallSteps
<1>4. ASSUME NEW t \in Thread, NoLock(t) PROVE CallLocksInv'
  BY <1>4, NoLockLocks
<1>5. ASSUME NEW t \in Thread, NEW expanding \in BOOLEAN, NEW n \in use.pages, CreateCompound(t, expanding, n) PROVE CallLocksInv'
  BY <1>5, CreateLocks
<1>6. ASSUME NEW t \in Thread, NEW p \in Heaps, FreeSpace(t, p) \/ Advise(t, p) \/ DestroyCompound(t, p) PROVE CallLocksInv'
  BY <1>6, FreeSpaceLocks, AdviseLocks, DestroyLocks
<1>7. ASSUME NEW t \in Thread, NEW p \in Heaps, NEW kind \in {"heap", "queue"}, Alloc(t, p, kind) PROVE CallLocksInv'
  BY <1>7, AllocBegins
<1>8. ASSUME NEW t \in Thread, NEW q \in Pages, NearDeallocPage(t, q) \/ FreePage(t, q) PROVE CallLocksInv'
  BY <1>8, NearDeallocLocks, FreeBegins
<1>9. ASSUME NEW t \in Thread, NEW q \in Pages \cup Heaps, NEW kind \in {"heap", "queue"}, NearAllocPage(t, q, kind) PROVE CallLocksInv'
  BY <1>9, NearAllocBegins
<1>10. CASE CNext
  <2>1. PICK t \in Thread :
          \/ AtRest(t) /\ SOps(t) /\ UNCHANGED <<pc, call>>
          \/ CallSteps(t)
          \/ NoLock(t)
          \/ \E expanding \in BOOLEAN, n \in use.pages : CreateCompound(t, expanding, n)
          \/ \E p \in Heaps :
               \/ FreeSpace(t, p) \/ Advise(t, p) \/ DestroyCompound(t, p)
               \/ \E kind \in {"heap", "queue"} : Alloc(t, p, kind)
          \/ \E q \in Pages : NearDeallocPage(t, q) \/ FreePage(t, q)
          \/ \E q \in Pages \cup Heaps, kind \in {"heap", "queue"} : NearAllocPage(t, q, kind)
    BY <1>10 DEF CNext
  <2> QED BY <2>1, <1>2, <1>3, <1>4, <1>5, <1>6, <1>7, <1>8, <1>9
<1> QED BY <1>1, <1>10

(* Memory, blocks, calls and locks are as they should be in every state.   *)
LEMMA AllHolds ==
  ASSUME SafeUses
  PROVE  CSpec => []AllInv
<1>1. CInit => AllInv
  BY MemInit, BlocksInit, LocksInit DEF AllInv
<1>2. AllInv /\ [CNext]_cvars => AllInv'
  BY MemNext, BlocksNext, LocksNext DEF AllInv
<1> QED BY <1>1, <1>2, PTL DEF CSpec

-----------------------------------------------------------------------------
(* HeapsInv, of what was shown.                                            *)

(* The pieces of a free list and what was given out, in the words of the   *)
(* property.                                                               *)
LEMMA HeapIsSound ==
  ASSUME MemInv, NEW p \in live, hdr[p].kind = "heap"
  PROVE  /\ IsFreeList(hdr[p].list)
         /\ Partition(PiecesOf(hdr[p].list) \cup PiecesIn(p), HeapStart(p), HeapEnd(p))
         /\ HeapEmpty(p) <=> PiecesIn(p) = {}
<1>1. MemGood(hdr, blocks, live, owned, Freed)
  BY DEF MemInv
<1>2. /\ p \in Page /\ p \in Nat /\ hdr[p].size \in Nat /\ hdr[p].size >= 1 /\ SimpleGood(hdr, owned, p)
  BY <1>1, LiveFacts
<1>3. GoodList(hdr[p].list) /\ Split(hdr[p].list, In(hdr, owned, p), Address(p) + HeapOffset, EndOf(hdr, p))
  BY <1>2 DEF SimpleGood
<1>4. PiecesIn(p) = In(hdr, owned, p) /\ HeapEnd(p) = EndOf(hdr, p) /\ HeapStart(p) = Address(p) + HeapOffset
  BY PiecesInIs DEF HeapStart
<1>5. PICK pieces : pieces = In(hdr, owned, p)
  OBVIOUS
<1>6. PICK from : from = Address(p) + HeapOffset
  OBVIOUS
<1>7. PICK to : to = EndOf(hdr, p)
  OBVIOUS
<1>8. PICK list : list = hdr[p].list
  OBVIOUS
<1>9. GoodList(list) /\ Split(list, pieces, from, to)
  BY <1>3, <1>5, <1>6, <1>7, <1>8
<1>10. IsFreeList(list) /\ Partition(PiecesOf(list) \cup pieces, from, to)
  BY ONLY <1>9, SplitPartition
<1>11. pieces \in SUBSET Pieces /\ \A x \in pieces : x.size > 0
  BY <1>1, <1>5, MemTyped DEF In
<1>12. from \in Nat /\ to \in Nat /\ from < to
  <2>1. to = Address(p + hdr[p].size) /\ Address(p) \in Nat /\ to \in Nat
    BY <1>2, <1>7, EndIs
  <2>2. Address(p) + PageSize <= Address(p + hdr[p].size)
    <3>1. PICK q \in Nat : q = p + hdr[p].size
      BY <1>2
    <3>2. p < q
      BY <1>2, <3>1
    <3> QED BY <1>2, <3>1, <3>2, Addresses
  <2> QED BY <1>6, <2>1, <2>2, PageFacts
<1>13. SpaceTotal(list) = to - from <=> pieces = {}
  BY ONLY <1>9, <1>11, <1>12, SplitEmpty
<1>14. HeapEmpty(p) <=> SpaceTotal(list) = to - from
  BY <1>4, <1>6, <1>7, <1>8 DEF HeapEmpty, HeapFreeSpace
<1> QED BY <1>4, <1>5, <1>6, <1>7, <1>8, <1>10, <1>13, <1>14

(* The pieces of a stack lie side by side up to its top.                   *)
LEMMA StackIsSound ==
  ASSUME MemInv, NEW p \in live, hdr[p].kind = "stack"
  PROVE  Partition(PiecesIn(p), HeapStart(p), hdr[p].next)
<1>1. SimpleGood(hdr, owned, p)
  BY LiveFacts DEF MemInv
<1>2. Split(<<>>, In(hdr, owned, p), Address(p) + PageSize, hdr[p].next)
  BY <1>1 DEF SimpleGood
<1>3. PiecesIn(p) = In(hdr, owned, p) /\ HeapStart(p) = Address(p) + PageSize
  BY PiecesInIs DEF HeapStart
<1>4. PICK pieces : pieces = In(hdr, owned, p)
  OBVIOUS
<1>5. PICK from : from = Address(p) + PageSize
  OBVIOUS
<1>6. PICK to : to = hdr[p].next
  OBVIOUS
<1>7. Split(<<>>, pieces, from, to)
  BY <1>2, <1>4, <1>5, <1>6
<1>8. UNION {Covers(x) : x \in pieces} = from .. to - 1
  <2>1. \A a : a \in Free(<<>>) \/ (\E x \in pieces : a \in Covers(x)) <=> a \in from .. to - 1
    BY <1>7, SplitMembers
  <2>2. \A a : a \notin Free(<<>>)
    BY NothingFree
  <2> QED BY ONLY <2>1, <2>2
<1>9. Partition(pieces, from, to)
  BY <1>7, <1>8 DEF Partition, Split
<1> QED BY <1>3, <1>4, <1>5, <1>6, <1>9

(* Every simple heap and stack is sound.                                   *)
LEMMA SimpleIsSound ==
  ASSUME MemInv
  PROVE  SimpleHeapsInv
<1>1. ASSUME NEW x \in owned PROVE \E p \in live : x \in PiecesIn(p)
  <2>1. PICK p \in live : Holder(hdr, owned, live, x, p)
    BY DEF MemInv, MemGood
  <2> QED BY <2>1, PiecesInIs DEF Holder
<1> QED BY <1>1, HeapIsSound, StackIsSound DEF SimpleHeapsInv

(* Blocks do not meet.                                                     *)
LEMMA BlocksAreApart ==
  ASSUME MemInv
  PROVE  BlocksApart
<1>1. BlocksGood(blocks) /\ \A p \in Page : blocks[p] \in Nat
  BY MemTyped DEF MemInv, MemGood
<1>2. \A p, q \in Page : p < q \/ q < p \/ p = q
  BY PageIs
<1> QED BY <1>1, <1>2 DEF BlocksApart, BlocksGood

(* The pages that a part gave out.                                         *)
LEMMA PagesInAre ==
  ASSUME MemInv, NEW r
  PROVE  PagesIn(r) = GivenIn(hdr, blocks, live, Freed, r)
<1>1. Pages \cup Freed = Given(hdr, blocks, live, Freed)
  BY DEF Pages, Given
<1> QED BY <1>1 DEF PagesIn, GivenIn, Contains, Inside

(* Every part of a compound heap is sound.                                 *)
LEMMA PartIsSound ==
  ASSUME MemInv, NEW p, NEW q, IsPart(hdr, live, p, q)
  PROVE  /\ hdr[q].kind = "compound" /\ hdr[q].base = p
         /\ hdr[q].size = hdr[p].size /\ blocks[q] = hdr[q].size
         /\ IsFreeList(hdr[q].list)
         /\ Partition(PiecesOf(hdr[q].list) \cup {Piece(Address(r), PageSize) : r \in PagesIn(q)},
                      HeapStart(q), HeapEnd(q))
         /\ \A r \in PagesIn(q) : hdr[r].base = q
<1>0. MemGood(hdr, blocks, live, owned, Freed)
  BY DEF MemInv
<1>1. /\ hdr[q].kind = "compound" /\ hdr[q].base = p
      /\ hdr[q].size = hdr[p].size /\ blocks[q] = hdr[q].size
      /\ PartGood(hdr, blocks, live, Freed, p, q)
  BY <1>0, PartFacts
<1>2. GoodList(hdr[q].list)
      /\ Split(hdr[q].list, PagePieces(GivenIn(hdr, blocks, live, Freed, q)), Address(q) + PageSize, EndOf(hdr, q))
  BY <1>1 DEF PartGood
<1>3. PagesIn(q) = GivenIn(hdr, blocks, live, Freed, q)
  BY PagesInAre
<1>4. PICK pieces : pieces = PagePieces(GivenIn(hdr, blocks, live, Freed, q))
  OBVIOUS
<1>5. PICK from : from = Address(q) + PageSize
  OBVIOUS
<1>6. PICK to : to = EndOf(hdr, q)
  OBVIOUS
<1>7. PICK list : list = hdr[q].list
  OBVIOUS
<1>8. GoodList(list) /\ Split(list, pieces, from, to)
  BY <1>2, <1>4, <1>5, <1>6, <1>7
<1>9. IsFreeList(list) /\ Partition(PiecesOf(list) \cup pieces, from, to)
  BY ONLY <1>8, SplitPartition
<1>10. pieces = {Piece(Address(r), PageSize) : r \in PagesIn(q)}
  BY <1>3, <1>4 DEF PagePieces, PagePiece
<1>11. HeapStart(q) = from /\ HeapEnd(q) = to
  BY <1>1, <1>5, <1>6, PiecesInIs DEF HeapStart
<1>12. ASSUME NEW r \in PagesIn(q) PROVE hdr[r].base = q
  <2>1. r \in Given(hdr, blocks, live, Freed) /\ Inside(hdr, q, r)
    BY <1>3, <1>12 DEF GivenIn
  <2>2. q <= r /\ r < q + hdr[q].size
    <3>1. q \in Nat /\ r \in Nat
      BY <1>0, <2>1, PartFacts, GivenFacts, PageIs
    <3> QED BY <2>1, <3>1 DEF Inside
  <2>3. q = hdr[r].base
    BY ONLY <1>0, <2>1, <2>2, IsPart(hdr, live, p, q), GivenBase
  <2> QED BY <2>3
<1> QED BY <1>1, <1>7, <1>9, <1>10, <1>11, <1>12

(* All of HeapsInv.                                                        *)
LEMMA HeapsAreSound ==
  ASSUME MemInv, BlocksInv, LockGood
  PROVE  HeapsInv
<1>0. MemGood(hdr, blocks, live, owned, Freed)
  BY DEF MemInv
<1>1. \A p \in live : hdr[p].kind # "none"
  BY <1>0, LiveFacts
<1>2. ASSUME NEW p \in Heaps PROVE PartsInv(p)
  <2>1. p \in Compounds(hdr, live) /\ CompoundGood(hdr, blocks, live, Freed, p)
    BY <1>0, CompoundsAre DEF MemGood
  <2>2. /\ Parts(hdr, p)[1] = p
        /\ \A i, j \in DOMAIN Parts(hdr, p) : Parts(hdr, p)[i] = Parts(hdr, p)[j] => i = j
    BY <2>1 DEF CompoundGood
  <2>3. \A i \in DOMAIN Parts(hdr, p) : IsPart(hdr, live, p, Parts(hdr, p)[i])
    BY <2>1 DEF IsPart
  <2> QED BY <2>2, <2>3, PartIsSound DEF PartsInv
<1>3. ASSUME NEW q \in Pages PROVE \E p \in Heaps : \E i \in DOMAIN Parts(hdr, p) : Contains(Parts(hdr, p)[i], q)
  <2>1. q \in Given(hdr, blocks, live, Freed)
    BY DEF Pages, Given
  <2>2. PICK r : r = hdr[q].base
    OBVIOUS
  <2>3. IsPart(hdr, live, hdr[r].base, r) /\ Inside(hdr, r, q)
    BY ONLY <1>0, <2>1, <2>2, GivenFacts
  <2>4. hdr[r].base \in Heaps
    BY <2>3 DEF IsPart, Compounds, Heaps
  <2> QED BY <2>3, <2>4 DEF IsPart, Contains, Inside
<1>4. LocksInCalls
  <2>1. ASSUME ~ Unlocks, NEW p \in Page, lock[p].owner # NoThread PROVE ~ AtRest(lock[p].owner)
    <3>1. lock[p] # Unlocked
      BY <2>1 DEF Unlocked
    <3>2. PICK t \in Thread : Depth(t, p) > 0
      BY <2>1, <3>1 DEF LockGood
    <3>3. lock[p] = [owner |-> t, depth |-> Depth(t, p)]
      BY <2>1, <3>2 DEF LockGood
    <3>4. lock[p].owner = t
      BY ONLY <3>3
    <3>5. ~ AtRest(t)
      BY <3>2, DepthRests
    <3> QED BY <3>4, <3>5
  <2> QED BY <2>1 DEF LocksInCalls, LocksGoBack, Unlocks
<1>5. ASSUME NEW t \in Thread, InHand(t) PROVE HandInv(t)
  <2>1. HandGood(t)
    BY DEF BlocksInv
  <2> QED BY <1>5, <2>1 DEF HandGood, Loose, HandInv
<1> QED BY <1>1, <1>2, <1>3, <1>4, <1>5, SimpleIsSound, BlocksAreApart DEF HeapsInv

(* The heaps stay sound whatever the programs allocate and free, and in    *)
(* whatever order their threads take the locks: no address is given out    *)
(* twice, and none is lost.                                                *)
THEOREM HeapsStaySound ==
  ASSUME SafeUses
  PROVE  CSpec => []HeapsInv
<1>1. AllInv => HeapsInv
  BY HeapsAreSound DEF AllInv, CallLocksInv
<1>2. CSpec => []AllInv
  BY AllHolds
<1> QED BY <1>1, <1>2, PTL

-----------------------------------------------------------------------------
(* Somebody runs.                                                          *)

(* A call waits for parts of its heap.                                     *)
LEMMA WaitsForParts ==
  ASSUME MemInv, NEW t \in Thread, ~ AtRest(t), NEW k \in WaitsFor(t)
  PROVE  IsPart(hdr, live, call[t].heap, k) /\ k \in Page
<1>1. CallAt(t, pc[t], call[t])
  BY CallIsAt DEF MemInv
<1>2. PICK p : p = call[t].heap
  OBVIOUS
<1>3. PICK i : i = call[t].i
  OBVIOUS
<1>4. p \in Heaps /\ IsPart(hdr, live, p, p) /\ i \in Nat
  BY <1>1, <1>2, <1>3, HeapIsPage, CallTyped DEF CallAt
<1>5. CASE pc[t] \in {"first", "freefirst"}
  BY <1>2, <1>4, <1>5, HeapIsPage DEF WaitsFor
<1>6. CASE pc[t] = "last"
  BY <1>1, <1>6, HeapIsPage DEF WaitsFor, CallAt
<1>7. CASE pc[t] = "near"
  BY <1>1, <1>7, HeapIsPage DEF WaitsFor, CallAt
<1>8. ASSUME IsExpanding(p), i \in 1..Len(hdr[p].expand), k = hdr[p].expand[i] PROVE IsPart(hdr, live, p, k)
  BY <1>4, <1>8, LastIsPart
<1>9. CASE pc[t] = "scan"
  <2>1. IsExpanding(p) /\ i >= 1 /\ i <= Len(hdr[p].expand)
    BY <1>1, <1>2, <1>3, <1>9 DEF CallAt, Looking
  <2>2. k = hdr[p].expand[i]
    BY <1>2, <1>3, <1>9 DEF WaitsFor
  <2>3. Len(hdr[p].expand) \in Nat
    BY <1>4, <2>1, LastIsPart
  <2> QED BY <1>2, <1>4, <1>8, <2>1, <2>2, <2>3, HeapIsPage
<1>10. ASSUME i > 1, i \in DOMAIN Parts(hdr, p), k = hdr[p].expand[i] PROVE IsPart(hdr, live, p, k)
  <2>1. IsExpanding(p)
    BY <1>4, <1>10 DEF IsExpanding, Parts
  <2>2. Parts(hdr, p) = hdr[p].expand
    BY <2>1 DEF IsExpanding, Parts
  <2>3. DOMAIN hdr[p].expand = 1..Len(hdr[p].expand)
    <3>1. hdr[p].expand \in Seq(Page)
      BY <1>4, HeapIsPage, HeaderIs, MemTyped DEF MemInv
    <3> QED BY <3>1
  <2> QED BY <1>8, <1>10, <2>1, <2>2, <2>3
<1>11. CASE pc[t] = "freescan"
  <2>1. i \in DOMAIN Parts(hdr, p) /\ i > 1 /\ k = hdr[p].expand[i]
    BY <1>1, <1>2, <1>3, <1>4, <1>11 DEF CallAt, WaitsFor
  <2> QED BY <1>2, <1>10, <2>1, HeapIsPage
<1>12. CASE pc[t] = "sum"
  <2>1. i >= 2 /\ i <= Len(Parts(hdr, p)) /\ k = hdr[p].expand[i]
    BY <1>1, <1>2, <1>3, <1>12 DEF CallAt, WaitsFor
  <2>2. Parts(hdr, p) \in Seq(Page)
    <3>1. hdr[p].expand \in Seq(Page) /\ p \in Page
      BY <1>4, HeapIsPage, HeaderIs, MemTyped DEF MemInv
    <3> QED BY <3>1 DEF Parts
  <2>3. i \in DOMAIN Parts(hdr, p)
    BY <1>4, <2>1, <2>2
  <2> QED BY <1>2, <1>4, <1>10, <2>1, <2>3, HeapIsPage
<1> QED BY <1>5, <1>6, <1>7, <1>9, <1>11, <1>12 DEF WaitsFor

(* Who has a lock of a heap has the lock of its first part, but for a near *)
(* allocate that waits for that one, and has the part it began with.       *)
LEMMA HolderHasHeap ==
  ASSUME MemInv, ~ Unlocks, NEW t \in Thread, NEW k \in Page, Depth(t, k) > 0
  PROVE  /\ ~ AtRest(t) /\ IsPart(hdr, live, call[t].heap, k)
         /\ Depth(t, call[t].heap) > 0 \/ (pc[t] = "first" /\ k = call[t].near)
<1>1. ~ AtRest(t)
  BY DepthRests
<1>2. CallAt(t, pc[t], call[t])
  BY <1>1, CallIsAt DEF MemInv
<1>3. PICK p : p = call[t].heap
  OBVIOUS
<1>4. PICK i : i = call[t].i
  OBVIOUS
<1>5. p \in Heaps /\ IsPart(hdr, live, p, p) /\ p \in Page /\ i \in Nat
  BY <1>2, <1>3, <1>4, HeapIsPage, CallTyped DEF CallAt
<1>6. ASSUME k = call[t].near PROVE IsPart(hdr, live, p, k)
  BY <1>2, <1>3, <1>6, PageIs DEF CallAt
<1>7. CASE pc[t] = "first"
  <2>1. Depth(t, k) = IF k = call[t].near THEN 1 ELSE 0
    BY <1>7, DepthAt
  <2>2. k = call[t].near
    BY <2>1
  <2> QED BY <1>1, <1>3, <1>6, <1>7, <2>2
<1>8. ASSUME IsExpanding(p), NEW j \in Nat, j >= 1, j <= Len(hdr[p].expand), k = hdr[p].expand[j] PROVE IsPart(hdr, live, p, k)
  BY <1>5, <1>8, LastIsPart
<1>9. CASE pc[t] \in {"last", "pick"} \cup Looking
  <2>1. IsExpanding(p) /\ IsPart(hdr, live, p, call[t].last)
    BY <1>2, <1>3, <1>9 DEF CallAt
  <2>2. k \in HoldsOf(t) \/ k = call[t].near
    BY <1>9 DEF Depth, NearOf
  <2>3. Depth(t, call[t].heap) > 0
    BY <1>9, HoldsFirst
  <2>4. ASSUME k \in HoldsOf(t) PROVE k \in {p, call[t].last} \/ (pc[t] \in Looking /\ k \in PartsAfterFirst(p, i - 1))
    BY <1>3, <1>4, <1>9, <2>4 DEF HoldsOf, Looking, Growing
  <2>5. ASSUME pc[t] \in Looking, k \in PartsAfterFirst(p, i - 1) PROVE IsPart(hdr, live, p, k)
    <3>1. i <= Len(hdr[p].expand) /\ Len(hdr[p].expand) \in Nat
      BY <1>2, <1>3, <1>4, <1>5, <2>1, <2>5, LastIsPart DEF CallAt
    <3>2. PICK j \in 2..i-1 : k = hdr[p].expand[j]
      BY <2>5 DEF PartsAfterFirst
    <3>3. j \in Nat /\ j >= 1 /\ j <= Len(hdr[p].expand)
      BY <1>5, <3>1, <3>2
    <3> QED BY <1>8, <2>1, <3>2, <3>3
  <2>6. IsPart(hdr, live, p, k)
    BY <1>5, <1>6, <2>1, <2>2, <2>4, <2>5
  <2> QED BY <1>1, <1>3, <2>3, <2>6
<1>10. CASE pc[t] = "sum"
  <2>1. i >= 2 /\ i <= Len(Parts(hdr, p)) + 1
    BY <1>2, <1>3, <1>4, <1>10 DEF CallAt
  <2>2. k \in HoldsOf(t)
    BY <1>10 DEF Depth, NearOf, Looking, Growing
  <2>3. k = p \/ k \in PartsAfterFirst(p, i - 1)
    BY <1>3, <1>4, <1>10, <2>2 DEF HoldsOf, Looking, Growing
  <2>4. ASSUME k \in PartsAfterFirst(p, i - 1) PROVE IsPart(hdr, live, p, k)
    <3>1. PICK j \in 2..i-1 : k = hdr[p].expand[j]
      BY <2>4 DEF PartsAfterFirst
    <3>2. Len(Parts(hdr, p)) \in Nat
      BY <1>5, PartsLength
    <3>3. j \in Nat /\ j >= 2 /\ j <= Len(Parts(hdr, p))
      BY <1>5, <2>1, <3>1, <3>2
    <3>4. IsExpanding(p) /\ Parts(hdr, p) = hdr[p].expand
      BY <1>5, <3>2, <3>3, PartsLength
    <3> QED BY <1>8, <3>1, <3>3, <3>4
  <2>5. Depth(t, call[t].heap) > 0
    BY <1>10, HoldsFirst
  <2> QED BY <1>1, <1>3, <1>5, <2>3, <2>4, <2>5
<1>11. CASE pc[t] = "freescan"
  <2>1. Depth(t, k) = IF k \in {p} THEN 1 ELSE 0
    BY <1>3, <1>11, DepthAt
  <2>2. k = p
    BY <2>1
  <2> QED BY <1>1, <1>3, <1>5, <2>2
<1>12. CASE pc[t] \in {"idle", "near", "freefirst"}
  <2>1. Depth(t, k) = 0
    BY <1>12, DepthAt
  <2> QED BY <2>1
<1>13. pc[t] \in Place
  BY CallTyped
<1> QED BY <1>7, <1>9, <1>10, <1>11, <1>12, <1>13 DEF Place

(* A call waits for another of its heap, which is under way.               *)
LEMMA WaitsForCall ==
  ASSUME MemInv, LockGood, ~ Unlocks, NEW t \in Thread, ~ AtRest(t), NEW k \in WaitsFor(t), ~ CanLock(k, t)
  PROVE  /\ k \in Page /\ call[t].heap \in Page
         /\ \E u \in Thread :
              /\ u # t /\ ~ AtRest(u) /\ call[u].heap = call[t].heap
              /\ lock[k].owner = u
              /\ Depth(u, call[u].heap) > 0 \/ (pc[u] = "first" /\ k = call[u].near)
<1>1. IsPart(hdr, live, call[t].heap, k) /\ k \in Page
  BY WaitsForParts
<1>2. lock[k].owner # t /\ lock[k] # Unlocked
  BY DEF CanLock, Unlocked
<1>3. PICK u \in Thread : Depth(u, k) > 0
  BY <1>1, <1>2 DEF LockGood
<1>4. lock[k] = [owner |-> u, depth |-> Depth(u, k)]
  BY <1>1, <1>3 DEF LockGood
<1>5. lock[k].owner = u
  BY ONLY <1>4
<1>6. /\ ~ AtRest(u) /\ IsPart(hdr, live, call[u].heap, k)
      /\ Depth(u, call[u].heap) > 0 \/ (pc[u] = "first" /\ k = call[u].near)
  BY <1>1, <1>3, HolderHasHeap
<1>7. hdr[k].base = call[t].heap /\ hdr[k].base = call[u].heap /\ call[t].heap \in Page
  BY <1>1, <1>6, HeapIsPage
<1> QED BY <1>1, <1>2, <1>3, <1>5, <1>6, <1>7

(* A call that has the first part goes on, or waits for a near allocate    *)
(* that waits for it.                                                      *)
LEMMA HolderRuns ==
  ASSUME MemInv, LockGood, ~ Unlocks, NEW t \in Thread, ~ AtRest(t), Depth(t, call[t].heap) > 0
  PROVE  CanGo(t) \/ \E u \in Thread : u # t /\ Crossed(u, t)
<1>1. SUFFICES ASSUME NEW k \in WaitsFor(t), ~ CanLock(k, t)
               PROVE  \E u \in Thread : u # t /\ Crossed(u, t)
  BY DEF CanGo
<1>2. call[t].heap \in Page
  BY <1>1, WaitsForCall
<1>3. PICK u \in Thread :
        /\ u # t /\ ~ AtRest(u) /\ call[u].heap = call[t].heap
        /\ lock[k].owner = u
        /\ Depth(u, call[u].heap) > 0 \/ (pc[u] = "first" /\ k = call[u].near)
  BY <1>1, WaitsForCall
<1>4. lock[call[t].heap] = [owner |-> t, depth |-> Depth(t, call[t].heap)]
  BY <1>2 DEF LockGood
<1>5. lock[call[t].heap].owner = t
  BY ONLY <1>4
<1>6. ASSUME Depth(u, call[u].heap) > 0 PROVE FALSE
  <2>1. lock[call[u].heap] = [owner |-> u, depth |-> Depth(u, call[u].heap)]
    BY <1>2, <1>3, <1>6 DEF LockGood
  <2>2. lock[call[u].heap].owner = u
    BY ONLY <2>1
  <2> QED BY <1>3, <1>5, <2>2
<1> QED BY <1>1, <1>3, <1>5, <1>6 DEF Crossed

(* All of SomebodyRuns.                                                    *)
LEMMA CallsRun ==
  ASSUME MemInv, LockGood, SafeUses
  PROVE  SomebodyRuns
<1>1. ASSUME NEW t \in Thread, ~ AtRest(t)
      PROVE  \/ \E u \in Thread : ~ AtRest(u) /\ CanGo(u)
             \/ \E u, v \in Thread : u # v /\ Crossed(u, v)
  <2>1. t \in use.threads
    BY <1>1, CallIsAt DEF MemInv, CallAt
  <2>2. CASE use.threads \subseteq {t}
    <3>1. ASSUME NEW p \in WaitsFor(t) PROVE CanLock(p, t)
      <4>1. p \in Page
        BY <1>1, <3>1, WaitsForParts
      <4> QED BY <2>2, <4>1 DEF LockGood, CanLock
    <3> QED BY <1>1, <3>1 DEF CanGo
  <2>3. CASE ~ Unlocks
    <3>1. ASSUME NEW w \in Thread, ~ AtRest(w), Depth(w, call[w].heap) > 0
          PROVE  \/ \E u \in Thread : ~ AtRest(u) /\ CanGo(u)
                 \/ \E u, v \in Thread : u # v /\ Crossed(u, v)
      BY <2>3, <3>1, HolderRuns
    <3>2. SUFFICES ASSUME ~ CanGo(t)
                   PROVE  \/ \E u \in Thread : ~ AtRest(u) /\ CanGo(u)
                          \/ \E u, v \in Thread : u # v /\ Crossed(u, v)
      BY <1>1
    <3>3. PICK k \in WaitsFor(t) : ~ CanLock(k, t)
      BY <3>2 DEF CanGo
    <3>4. PICK u \in Thread : ~ AtRest(u) /\ (Depth(u, call[u].heap) > 0 \/ pc[u] = "first")
      BY <1>1, <2>3, <3>3, WaitsForCall
    <3>5. CASE Depth(u, call[u].heap) > 0
      BY <3>1, <3>4, <3>5
    <3>6. ASSUME pc[u] = "first", ~ CanGo(u)
          PROVE  \/ \E v \in Thread : ~ AtRest(v) /\ CanGo(v)
                 \/ \E v, w \in Thread : v # w /\ Crossed(v, w)
      <4>1. WaitsFor(u) = {call[u].heap}
        BY <3>6 DEF WaitsFor
      <4>2. ~ CanLock(call[u].heap, u) /\ call[u].heap \in WaitsFor(u)
        BY <3>6, <4>1 DEF CanGo
      <4>3. PICK v \in Thread :
              /\ v # u /\ ~ AtRest(v) /\ call[v].heap = call[u].heap
              /\ Depth(v, call[v].heap) > 0 \/ (pc[v] = "first" /\ call[u].heap = call[v].near)
        BY <2>3, <3>4, <4>2, WaitsForCall
      <4>4. ASSUME pc[v] = "first", call[u].heap = call[v].near PROVE Depth(v, call[v].heap) > 0
        <5>1. call[v].heap \in Page /\ call[v].heap = call[v].near
          BY <2>3, <3>4, <4>2, <4>3, <4>4, WaitsForCall
        <5> QED BY <4>4, <5>1, DepthAt
      <4> QED BY <3>1, <4>3, <4>4
    <3> QED BY <3>4, <3>5, <3>6
  <2> QED BY <2>1, <2>2, <2>3, FreeAlone
<1> QED BY <1>1 DEF SomebodyRuns

(* Calls never all wait for locks of each other, but for the two of a near *)
(* allocate that has its part and another that goes through the parts from *)
(* the first.                                                              *)
THEOREM CallsNeverDeadlock ==
  ASSUME SafeUses
  PROVE  CSpec => []SomebodyRuns
<1>1. AllInv => SomebodyRuns
  BY CallsRun DEF AllInv, CallLocksInv
<1>2. CSpec => []AllInv
  BY AllHolds
<1> QED BY <1>1, <1>2, PTL

-----------------------------------------------------------------------------
(* Allocates that fail.                                                    *)

(* Only its own steps take a call anywhere.                                *)
LEMMA OwnSteps ==
  ASSUME MemInv, CNext, NEW t \in Thread, ~ AtRest(t), pc'[t] # pc[t]
  PROVE  CallSteps(t)
<1>1. pc \in [Thread -> Place]
  BY CallTyped
<1>2. ASSUME NEW u, NEW place, Goto(u, place) PROVE u = t
  BY <1>1, <1>2 DEF Goto
<1>3. ASSUME NEW u \in Thread, AtRest(u), NEW place, Goto(u, place) PROVE FALSE
  BY <1>2, <1>3
<1>4. ASSUME NEW u \in Thread, CallSteps(u) PROVE u = t
  <2>1. (\E place : Goto(u, place)) \/ pc' = pc
    BY <1>4 DEF CallSteps, LockFirst, LockLast, Pick, Scan, TakeBlock, MoveList, GiveBlock, ExpandDone,
                LockNear, FreeLockFirst, FreeScan, SumSpace, Done, Finish
  <2> QED BY <1>2, <2>1
<1>5. PICK u \in Thread :
          \/ AtRest(u) /\ SOps(u) /\ UNCHANGED <<pc, call>>
          \/ CallSteps(u)
          \/ NoLock(u)
          \/ \E expanding \in BOOLEAN, n \in use.pages : CreateCompound(u, expanding, n)
          \/ \E p \in Heaps :
               \/ FreeSpace(u, p) \/ Advise(u, p) \/ DestroyCompound(u, p)
               \/ \E kind \in {"heap", "queue"} : Alloc(u, p, kind)
          \/ \E q \in Pages : NearDeallocPage(u, q) \/ FreePage(u, q)
          \/ \E q \in Pages \cup Heaps, kind \in {"heap", "queue"} : NearAllocPage(u, q, kind)
  BY DEF CNext
<1>6. ASSUME NoLock(u) PROVE pc' = pc
  BY <1>6 DEF NoLock
<1>7. ASSUME NEW expanding, NEW n, CreateCompound(u, expanding, n) PROVE pc' = pc
  BY <1>7 DEF CreateCompound
<1>8. ASSUME NEW p, Advise(u, p) \/ DestroyCompound(u, p) PROVE pc' = pc
  BY <1>8 DEF Advise, DestroyCompound
<1>9. ASSUME NEW q, NearDeallocPage(u, q) PROVE pc' = pc
  BY <1>9 DEF NearDeallocPage
<1>10. ASSUME NEW p, FreeSpace(u, p) PROVE FALSE
  BY <1>3, <1>10 DEF FreeSpace
<1>11. ASSUME NEW p, NEW kind, Alloc(u, p, kind) PROVE FALSE
  BY <1>3, <1>11 DEF Alloc
<1>12. ASSUME NEW q, FreePage(u, q) PROVE FALSE
  BY <1>3, <1>12 DEF FreePage
<1>13. ASSUME NEW q, NEW kind, NearAllocPage(u, q, kind) PROVE FALSE
  BY <1>3, <1>13 DEF NearAllocPage
<1>14. CallSteps(u)
  BY <1>5, <1>6, <1>7, <1>8, <1>9, <1>10, <1>11, <1>12, <1>13
<1> QED BY <1>4, <1>14

(* A part that gives no page has none; it is loaded.                       *)
LEMMA NothingGiven ==
  ASSUME MemInv, NEW c, NEW p, IsPart(hdr, live, c, p), NEW kind \in {"heap", "queue"},
         AllocInternal(hdr, p, kind), live' = live
  PROVE  ~ Avail(hdr, p) /\ Loaded(p)
<1>1. MemGood(hdr, blocks, live, owned, Freed) /\ hdr \in [Page -> HeaderType]
  BY MemTyped DEF MemInv
<1>2. FirstFit(hdr[p].list, PageSize) = 0
  BY <1>1, PageMade
<1>3. hdr[p].list = <<>>
  BY <1>1, <1>2, PageFits
<1>4. ~ Avail(hdr, p)
  BY <1>3 DEF Avail
<1> QED BY <1>4, CompoundAssumption DEF Loaded, PercentUsed

(* A heap for which the region has no block. *)
LEMMA NoBlockLeft ==
  ASSUME MemInv, NEW p \in Heaps, LowestBlock(hdr[p].size) = NoPage
  PROVE  NoBlockFor(p)
<1>1. blocks \in [Page -> 0..NumPages] /\ MemGood(hdr, blocks, live, owned, Freed)
  BY MemTyped DEF MemInv
<1>2. IsPart(hdr, live, p, p)
  BY HeapIsPage
<1>3. hdr[p].size \in Nat /\ hdr[p].size >= 1
  <2>1. hdr[p].size \in Nat /\ hdr[p].size > 1
    BY <1>1, <1>2, PartFacts
  <2> QED BY <2>1
<1> QED BY <1>1, <1>3, LowestGives DEF NoBlockFor

(* What a failure means.                                                   *)
FullFor(t, p) ==
  IF IsExpanding(p)
    THEN /\ NoBlockFor(p) \/ (pc[t] = "back" /\ ListIsFull(p))
         /\ \A i \in DOMAIN hdr[p].expand : Loaded(hdr[p].expand[i])
    ELSE ~ Avail(hdr, p)

(* An allocate that fails at the lock of its heap: a fixed one is full.    *)
LEMMA FirstFails ==
  ASSUME MemInv, NEW t \in Thread, LockFirst(t), pc'[t] = "idle", live' = live
  PROVE  FullFor(t, call[t].heap)
<1>1. PICK p : p = call[t].heap
  OBVIOUS
<1>2. pc[t] = "first" /\ pc \in [Thread -> Place]
  BY CallTyped DEF LockFirst
<1>3. ~ AtRest(t) /\ CallAt(t, "first", call[t])
  BY <1>2, CallIsAt DEF MemInv, AtRest
<1>4. IsPart(hdr, live, p, p) /\ call[t].kind \in {"heap", "queue"}
  BY <1>1, <1>3, HeapIsPage, CallTyped DEF CallAt
<1>5. ~ IsExpanding(p) /\ AllocInternal(hdr, p, call[t].kind)
  BY <1>1, <1>2 DEF LockFirst, Goto
<1>6. ~ Avail(hdr, p)
  BY <1>4, <1>5, NothingGiven
<1> QED BY <1>1, <1>5, <1>6 DEF FullFor

(* It does not fail at the last part.                                      *)
LEMMA PickFails ==
  ASSUME MemInv, NEW t \in Thread, Pick(t), pc'[t] = "idle", live' = live
  PROVE  FALSE
<1>1. PICK last : last = call[t].last
  OBVIOUS
<1>2. pc[t] = "pick" /\ pc \in [Thread -> Place]
  BY CallTyped DEF Pick
<1>3. ~ AtRest(t) /\ CallAt(t, "pick", call[t])
  BY <1>2, CallIsAt DEF MemInv, AtRest
<1>4. IsPart(hdr, live, call[t].heap, last) /\ call[t].kind \in {"heap", "queue"}
  BY <1>1, <1>3, CallTyped DEF CallAt
<1>5. ~ Loaded(last) /\ AllocInternal(hdr, last, call[t].kind)
  BY <1>1, <1>2 DEF Pick, Goto
<1> QED BY <1>4, <1>5, NothingGiven

(* A call that expands its heap has seen every part loaded.                *)
LEMMA AllLoaded ==
  ASSUME MemInv, NEW t \in Thread, LookGood(t), pc[t] \in Growing
  PROVE  \A j \in DOMAIN hdr[call[t].heap].expand : Loaded(hdr[call[t].heap].expand[j])
<1>1. PICK p : p = call[t].heap
  OBVIOUS
<1>2. PICK i : i = call[t].i
  OBVIOUS
<1>3. PICK n : n = Len(hdr[p].expand)
  OBVIOUS
<1>4. CallAt(t, pc[t], call[t]) /\ p \in Heaps /\ IsExpanding(p) /\ pc[t] \in Looking
  BY <1>1, GrowingCall DEF Looking
<1>5. n \in Nat /\ n >= 1 /\ i \in Nat /\ i <= n
  BY <1>1, <1>2, <1>3, <1>4, LastIsPart, CallTyped DEF CallAt
<1>6. /\ i > n - 1 /\ Loaded(LastPart(p))
      /\ \A j \in 1..i-1 : Loaded(hdr[p].expand[j])
  <2>1. call[t].last = LastPart(call[t].heap) /\ Loaded(call[t].last)
    BY <1>4 DEF LookGood
  <2>2. call[t].i > Others(Len(hdr[call[t].heap].expand))
    BY DEF LookGood
  <2>3. \A j \in 1..call[t].i-1 : Loaded(hdr[call[t].heap].expand[j])
    BY <1>4 DEF LookGood
  <2>4. Loaded(LastPart(call[t].heap))
    <3>1. PICK last : last = call[t].last
      OBVIOUS
    <3>2. Loaded(last) /\ last = LastPart(call[t].heap)
      BY <2>1, <3>1
    <3> QED BY <3>2
  <2> QED BY <1>1, <1>2, <1>3, <2>2, <2>3, <2>4 DEF Others
<1>7. i = n
  BY <1>5, <1>6
<1>8. Loaded(hdr[p].expand[n])
  BY <1>3, <1>6 DEF LastPart
<1>9. \A j \in 1..n : j = n \/ j \in 1..i-1
  BY <1>5, <1>7
<1>10. DOMAIN hdr[p].expand = 1..n
  <2>1. hdr[p].expand \in Seq(Page)
    BY <1>4, HeapIsPage, HeaderIs, MemTyped DEF MemInv
  <2> QED BY <1>3, <2>1
<1>11. ASSUME NEW j \in 1..n PROVE Loaded(hdr[p].expand[j])
  <2>1. CASE j = n
    BY <1>8, <2>1
  <2>2. CASE j \in 1..i-1
    BY <1>6, <2>2
  <2> QED BY <1>9, <2>1, <2>2
<1> QED BY <1>1, <1>10, <1>11

(* It fails when the region gives no block for a part: with one, the part  *)
(* gives a page.                                                           *)
LEMMA TakeBlockFails ==
  ASSUME MemInv, NEW t \in Thread, LookGood(t), TakeBlock(t), pc'[t] = "idle", live' = live
  PROVE  FullFor(t, call[t].heap)
<1>1. PICK p : p = call[t].heap
  OBVIOUS
<1>2. PICK n : n = hdr[p].size
  OBVIOUS
<1>3. PICK q : q = LowestBlock(n)
  OBVIOUS
<1>4. pc[t] = "grow" /\ pc[t] \in Growing /\ pc \in [Thread -> Place]
  BY CallTyped DEF TakeBlock, Growing
<1>5. p \in Heaps /\ IsExpanding(p) /\ call[t].kind \in {"heap", "queue"}
  BY <1>1, <1>4, GrowingCall
<1>6. \/ q = NoPage
      \/ /\ q # NoPage /\ AllocInternal(WithPart(hdr, p, q), q, call[t].kind)
         /\ blocks' = [blocks EXCEPT ![q] = n]
      \/ Goto(t, "space") \/ Goto(t, "back")
  BY <1>1, <1>2, <1>3 DEF TakeBlock
<1>7. ~ (Goto(t, "space") \/ Goto(t, "back"))
  BY <1>4 DEF Goto
<1>8. CASE /\ q # NoPage /\ AllocInternal(WithPart(hdr, p, q), q, call[t].kind)
           /\ blocks' = [blocks EXCEPT ![q] = n]
  BY <1>2, <1>3, <1>5, <1>8, PartEffect
<1>9. CASE q = NoPage
  <2>1. NoBlockFor(p)
    BY <1>2, <1>3, <1>5, <1>9, NoBlockLeft
  <2> QED BY <1>1, <1>4, <1>5, <2>1, AllLoaded DEF FullFor
<1> QED BY <1>6, <1>7, <1>8, <1>9

(* ... or when the block has gone back and the list did not move.          *)
LEMMA GiveBlockFails ==
  ASSUME MemInv, NEW t \in Thread, LookGood(t), GiveBlock(t), pc'[t] = "idle"
  PROVE  FullFor(t, call[t].heap)
<1>1. pc[t] = "back" /\ pc[t] \in Growing /\ pc \in [Thread -> Place]
  BY CallTyped DEF GiveBlock, Growing
<1>2. ListIsFull(call[t].heap)
  BY <1>1 DEF GiveBlock, Goto
<1>3. IsExpanding(call[t].heap)
  BY <1>1, GrowingCall
<1> QED BY <1>1, <1>2, <1>3, AllLoaded DEF FullFor

(* No other step fails.                                                    *)
LEMMA CallFails ==
  ASSUME AllInv, [CNext]_cvars, NEW t \in Thread, Fails(t)
  PROVE  FullFor(t, call[t].heap)
<1>1. MemInv /\ LookGood(t)
  BY DEF AllInv, CallLocksInv
<1>2. pc[t] \in {"first", "pick", "grow", "back"} /\ pc'[t] = "idle" /\ live' = live
  BY DEF Fails
<1>3. CNext
  BY <1>2 DEF cvars, svars
<1>4. CallSteps(t)
  BY <1>1, <1>2, <1>3, OwnSteps DEF AtRest
<1>5. LockFirst(t) \/ Pick(t) \/ TakeBlock(t) \/ GiveBlock(t)
  BY <1>2, <1>4 DEF CallSteps, LockLast, Scan, MoveList, LockNear, FreeLockFirst, FreeScan, SumSpace
<1> QED BY <1>1, <1>2, <1>5, FirstFails, PickFails, TakeBlockFails, GiveBlockFails

(* The list of the parts gets no space when the region has none.           *)
LEMMA MoveFails ==
  ASSUME AllInv, [CNext]_cvars, NEW t \in Thread, MovesNoList(t)
  PROVE  NoBlockFor(call[t].heap)
<1>1. MemInv
  BY DEF AllInv
<1>2. pc[t] = "space" /\ pc'[t] = "back" /\ hdr'[call[t].heap].space = NoPage
  BY DEF MovesNoList
<1>3. CNext
  BY <1>2 DEF cvars, svars
<1>4. CallSteps(t)
  BY <1>1, <1>2, <1>3, OwnSteps DEF AtRest
<1>5. MoveList(t)
  BY <1>2, <1>4
     DEF CallSteps, LockFirst, LockLast, Pick, Scan, TakeBlock, GiveBlock, LockNear, FreeLockFirst, FreeScan, SumSpace
<1>6. PICK p : p = call[t].heap
  OBVIOUS
<1>7. PICK s : s = LowestBlock(hdr[p].size)
  OBVIOUS
<1>8. p \in Heaps /\ p \in Page
  BY <1>1, <1>2, <1>6, GrowingCall, HeapIsPage DEF Growing
<1>9. CASE s # NoPage
  <2>1. hdr' = [hdr EXCEPT ![s] = SimpleSpace(hdr[p].size), ![p].space = s, ![p].max = SpaceMax]
    BY <1>5, <1>6, <1>7, <1>9 DEF MoveList, WithSpace
  <2>2. s # p
    BY <1>1, <1>7, <1>8, <1>9, BlockForHeap
  <2>3. hdr \in [Page -> HeaderType] /\ hdr[p] \in HeaderType
    BY <1>1, <1>8, MemTyped DEF MemInv
  <2>4. PICK v : v = hdr[p]
    OBVIOUS
  <2>5. hdr'[p] = [v EXCEPT !.space = s, !.max = SpaceMax]
    BY ONLY <1>8, <2>1, <2>2, <2>3, <2>4
  <2>6. hdr'[p].space = s
    BY ONLY <2>3, <2>4, <2>5 DEF HeaderType
  <2> QED BY <1>2, <1>6, <1>9, <2>6
<1> QED BY <1>1, <1>6, <1>7, <1>8, <1>9, NoBlockLeft

(* An allocate of a page fails only when every part of the heap is loaded, *)
(* and the region has no block for one more or the list of the parts no    *)
(* room; and the list gets none only when the region has no block for it.  *)
THEOREM AllocFailsOnlyWhenFull ==
  ASSUME SafeUses
  PROVE  CSpec => FailsOnlyWhenFull
<1>1. AllInv /\ [CNext]_cvars =>
        [\A t \in Thread :
           LET p == call[t].heap
           IN  /\ Fails(t) =>
                    IF IsExpanding(p)
                      THEN /\ NoBlockFor(p) \/ (pc[t] = "back" /\ ListIsFull(p))
                           /\ \A i \in DOMAIN hdr[p].expand : Loaded(hdr[p].expand[i])
                      ELSE ~ Avail(hdr, p)
               /\ MovesNoList(t) => NoBlockFor(p)]_cvars
  BY CallFails, MoveFails DEF FullFor
<1>2. CSpec => []AllInv
  BY AllHolds
<1> QED BY <1>1, <1>2, PTL DEF CSpec, FailsOnlyWhenFull
=============================================================================

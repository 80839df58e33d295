---------------------------- MODULE MemoryProofs ----------------------------
(* Proofs about the memory that programs take out of blocks.

   Free lists: what an allocate and a free do with the pieces of one.
   Contexts: no context is lost or shared by the steps of the project calls,
   and every context is a book of associations.  Heaps: what their memory looks
   like between the steps of calls (MemInv), what giving out and taking back
   pieces, pages and blocks makes of it, and what the calls on pieces and those
   that make and destroy heaps leave of it; CompoundHeapProofs goes on from
   there.

   Contexts and heaps are in one module for the lemmas on free lists, which
   come first. *)
EXTENDS SPHContext, CompoundHeap, SequenceTheorems, FiniteSetTheorems, WellFoundedInduction, TLAPS

-----------------------------------------------------------------------------
(* The natural numbers are well founded, as a fact about sets: an induction *)
(* is a proof that the least counterexample does not exist.                 *)
LEMMA NaturalsWellFounded == IsWellFoundedOn({r \in Nat \X Nat : r[1] < r[2]}, Nat)
BY NatLessThanWellFounded DEF OpToRel

(* A set of natural numbers that is not empty has a least one. *)
LEMMA LeastNatural ==
  ASSUME NEW S \in SUBSET Nat, S # {}
  PROVE  \E n \in S : \A m \in S : n <= m
<1> DEFINE R == {r \in Nat \X Nat : r[1] < r[2]}
<1>1. \E x \in S : \A y \in S : ~ (<<y, x>> \in R)
  <2>1. IsWellFoundedOn(R, Nat)
    BY NaturalsWellFounded
  <2> HIDE DEF R
  <2> QED BY <2>1, WFMin
<1>2. PICK x \in S : \A y \in S : ~ (<<y, x>> \in R)
  BY <1>1
<1>3. \A y \in S : ~ (y < x)
  BY <1>2
<1> QED BY <1>3

-----------------------------------------------------------------------------
(* A function on 0..N that starts at c and goes from each value to the     *)
(* next by g: what a recursive definition on 0..N chooses exists.          *)
IsIterated(f, c, g, N) ==
  /\ f[0] = c
  /\ \A k \in 1..N : f[k] = g[k][f[k-1]]

LEMMA Iterated ==
  ASSUME NEW S, NEW c \in S, NEW g \in [Nat -> [S -> S]], NEW N \in Nat
  PROVE  \E f \in [0..N -> S] : IsIterated(f, c, g, N)
<1> DEFINE Has(n) == \E f \in [0..n -> S] : IsIterated(f, c, g, n)
           Lacks == {n \in Nat : ~ Has(n)}
<1>1. Has(0)
  <2>1. [k \in 0..0 |-> c] \in [0..0 -> S] /\ IsIterated([k \in 0..0 |-> c], c, g, 0)
    BY DEF IsIterated
  <2> QED BY <2>1
<1>2. ASSUME NEW n \in Nat, Has(n) PROVE Has(n + 1)
  <2>1. PICK f \in [0..n -> S] : IsIterated(f, c, g, n)
    BY <1>2
  <2> DEFINE h == [k \in 0..n+1 |-> IF k = n + 1 THEN g[n+1][f[n]] ELSE f[k]]
  <2>2. f[n] \in S /\ g[n+1] \in [S -> S]
    OBVIOUS
  <2>3. h \in [0..n+1 -> S]
    BY <2>2
  <2>4. IsIterated(h, c, g, n + 1)
    <3>1. h[0] = c
      BY <2>1 DEF IsIterated
    <3>2. ASSUME NEW k \in 1..n+1 PROVE h[k] = g[k][h[k-1]]
      <4>1. CASE k = n + 1
        BY <4>1
      <4>2. CASE k # n + 1
        <5>1. k \in 1..n /\ k - 1 # n + 1 /\ k - 1 \in 0..n+1 /\ k \in 0..n+1
          BY <4>2
        <5> QED BY <5>1, <2>1 DEF IsIterated
      <4> QED BY <4>1, <4>2
    <3> QED BY <3>1, <3>2 DEF IsIterated
  <2> QED BY <2>3, <2>4
<1> HIDE DEF Has
<1>3. Lacks = {}
  <2> SUFFICES ASSUME Lacks # {} PROVE FALSE
    OBVIOUS
  <2>1. PICK n \in Lacks : \A m \in Lacks : n <= m
    BY LeastNatural
  <2>2. n # 0 /\ n \in Nat /\ ~ Has(n)
    BY <1>1
  <2>3. n - 1 \in Nat /\ n - 1 \notin Lacks /\ n - 1 + 1 = n
    BY <2>1, <2>2
  <2> QED BY <2>2, <2>3, <1>2
<1> QED BY <1>3 DEF Has

-----------------------------------------------------------------------------
(* Multiples of a number: the quotient, and the gap between two of them.   *)
LEMMA MultipleOf ==
  ASSUME NEW a \in Nat, NEW n \in Nat, n > 0, a % n = 0
  PROVE  \E k \in Nat : a = n * k
<1>1. a = (n * (a \div n)) + (a % n) /\ a \div n \in Nat
  OBVIOUS
<1> QED BY <1>1

LEMMA MultipleGap ==
  ASSUME NEW a \in Nat, NEW b \in Nat, NEW n \in Nat, n > 0, a % n = 0, b % n = 0, a < b
  PROVE  a + n <= b
<1>1. ASSUME NEW k \in Nat, NEW j \in Nat, n * k < n * j
      PROVE  n * k + n <= n * j
  <2>1. k < j
    BY <1>1
  <2>2. j - k - 1 \in Nat
    BY <2>1
  <2>3. PICK d \in Nat : j = k + 1 + d
    BY <2>2
  <2>4. n * j = n * k + n + n * d
    BY <2>3
  <2>5. n * k \in Nat /\ n * j \in Nat /\ n * d \in Nat
    OBVIOUS
  <2> QED BY <2>4, <2>5
<1>2. PICK k \in Nat : a = n * k
  BY MultipleOf
<1>3. PICK j \in Nat : b = n * j
  BY MultipleOf
<1> QED BY <1>1, <1>2, <1>3

-----------------------------------------------------------------------------
(* Whole nodes. *)

LEMMA NodeMultiple ==
  ASSUME NEW a \in Int
  PROVE  /\ (a * NodeAlign) % NodeAlign = 0
         /\ a = ((a \div NodeAlign) * NodeAlign) + (a % NodeAlign)
         /\ a % NodeAlign \in 0..NodeAlign-1 /\ a \div NodeAlign \in Int
BY NodeAlignAssumption

LEMMA MultiplesAdd ==
  ASSUME NEW a \in Int, NEW b \in Int, a % NodeAlign = 0, b % NodeAlign = 0
  PROVE  (a + b) % NodeAlign = 0 /\ (a - b) % NodeAlign = 0
<1> DEFINE k == a \div NodeAlign
           l == b \div NodeAlign
<1>1. k \in Int /\ l \in Int /\ a = (k * NodeAlign) + 0 /\ b = (l * NodeAlign) + 0
  BY NodeMultiple, NodeAlignAssumption
<1>2. ((k + l) * NodeAlign) % NodeAlign = 0 /\ ((k - l) * NodeAlign) % NodeAlign = 0
  <2>1. k + l \in Int /\ k - l \in Int
    BY <1>1
  <2> HIDE DEF k, l
  <2> QED BY <2>1, NodeMultiple
<1> HIDE DEF k, l
<1>3. a + b = (k + l) * NodeAlign /\ a - b = (k - l) * NodeAlign
  BY <1>1, NodeAlignAssumption
<1> QED BY <1>2, <1>3

LEMMA GoodSum ==
  ASSUME NEW a \in Nat, NEW b \in Nat, a > 0, a % NodeAlign = 0, b % NodeAlign = 0
  PROVE  a + b \in Nat /\ a + b > 0 /\ (a + b) % NodeAlign = 0
BY MultiplesAdd

(* Round gives the least multiple that is long enough. *)
LEMMA RoundGives ==
  ASSUME NEW n \in Nat
  PROVE  /\ Round(n) \in Nat /\ Round(n) >= n /\ Round(n) < n + NodeAlign
         /\ Round(n) % NodeAlign = 0
         /\ (n + NodeAlign - 1) \div NodeAlign \in Int
         /\ Round(n) = ((n + NodeAlign - 1) \div NodeAlign) * NodeAlign
<1> DEFINE a == n + NodeAlign - 1
           k == a \div NodeAlign
<1>1. a \in Int /\ k \in Int /\ Round(n) = k * NodeAlign
  BY NodeAlignAssumption, NodeMultiple DEF Round
<1>2. a = (k * NodeAlign) + (a % NodeAlign) /\ a % NodeAlign \in 0..NodeAlign-1
  BY <1>1, NodeMultiple
<1>3. (k * NodeAlign) % NodeAlign = 0
  <2> HIDE DEF k
  <2> QED BY <1>1, NodeMultiple
<1>4. k * NodeAlign \in Int
  BY <1>1, NodeAlignAssumption
<1>5. Round(n) \in Int /\ a = Round(n) + (a % NodeAlign)
  BY <1>1, <1>2, <1>4
<1>6. Round(n) >= n /\ Round(n) < n + NodeAlign
  <2>1. PICK r \in 0..NodeAlign-1 : n + NodeAlign - 1 = Round(n) + r
    BY <1>2, <1>5
  <2> QED BY <2>1, <1>5, NodeAlignAssumption
<1> QED BY <1>1, <1>3, <1>5, <1>6

LEMMA RoundMonotone ==
  ASSUME NEW m \in Nat, NEW n \in Nat, m <= n
  PROVE  Round(m) <= Round(n)
<1>1. PICK k \in Int, l \in Int : Round(m) = k * NodeAlign /\ Round(n) = l * NodeAlign
  BY RoundGives
<1>2. Round(m) < Round(n) + NodeAlign
  BY RoundGives, NodeAlignAssumption
<1>3. k * NodeAlign < (l + 1) * NodeAlign
  BY <1>1, <1>2, NodeAlignAssumption
<1>4. k < l + 1
  BY <1>3, NodeAlignAssumption
<1>5. k * NodeAlign <= l * NodeAlign
  BY <1>4, NodeAlignAssumption
<1> QED BY <1>1, <1>5

-----------------------------------------------------------------------------
(* Free lists.  IsFreeList looks at neighbours; an order of any two is what *)
(* goes on by itself.                                                      *)

Pieces == [at : Nat, size : Nat]

GoodPiece(p) == p \in Pieces /\ p.size > 0 /\ p.size % NodeAlign = 0

GoodList(list) ==
    /\ list \in Seq(Pieces)
    /\ \A i \in 1..Len(list) : GoodPiece(list[i])
    /\ \A i, j \in 1..Len(list) : i < j => End(list[i]) < list[j].at

LEMMA GoodIsFree ==
  ASSUME NEW list, GoodList(list)
  PROVE  IsFreeList(list)
<1>1. DOMAIN list = 1..Len(list) /\ Len(list) \in Nat
  BY DEF GoodList
<1>2. \A i \in 1..Len(list)-1 : End(list[i]) < list[i+1].at
  BY <1>1 DEF GoodList
<1> QED BY <1>1, <1>2 DEF GoodList, GoodPiece, IsFreeList

LEMMA FreeMembers ==
  ASSUME NEW list, list \in Seq(Pieces)
  PROVE  \A a : a \in Free(list) <=> \E i \in 1..Len(list) : a \in Covers(list[i])
BY DEF Free

LEMMA PieceFacts ==
  ASSUME NEW p, GoodPiece(p)
  PROVE  /\ p \in Pieces /\ p.at \in Nat /\ p.size \in Nat /\ p.size > 0
         /\ End(p) \in Nat /\ End(p) = p.at + p.size /\ End(p) > p.at
<1>1. p.at \in Nat /\ p.size \in Nat /\ p.size > 0 /\ p \in Pieces
  BY DEF GoodPiece, Pieces
<1> QED BY <1>1 DEF End

(* A list with its pieces after k up to m replaced by another piece, that lies between them. *)
Splice(list, k, x, m) == SubSeq(list, 1, k) \o <<x>> \o SubSeq(list, m + 1, Len(list))

IsSplice(new, list, k, x, m) ==
    /\ new \in Seq(Pieces) /\ Len(new) = Len(list) + k + 1 - m /\ Len(new) \in Nat
    /\ \A i \in 1..k : new[i] = list[i]
    /\ new[k+1] = x
    /\ \A i \in k+2..Len(new) : new[i] = list[i - k - 1 + m]

LEMMA SpliceElements ==
  ASSUME NEW list \in Seq(Pieces), NEW k \in 0..Len(list), NEW m \in k..Len(list), NEW x \in Pieces,
         NEW new, new = Splice(list, k, x, m)
  PROVE  IsSplice(new, list, k, x, m)
<1> DEFINE a == SubSeq(list, 1, k)
           b == a \o <<x>>
           c == SubSeq(list, m + 1, Len(list))
<1>0. Len(list) \in Nat /\ k \in Nat /\ m \in Nat /\ k <= m /\ m <= Len(list)
  OBVIOUS
<1>1. a \in Seq(Pieces) /\ Len(a) = k /\ \A i \in 1..k : a[i] = list[i]
  BY SubSeqProperties
<1>2. c \in Seq(Pieces) /\ Len(c) = Len(list) - m /\ \A i \in 1..Len(list)-m : c[i] = list[m + i]
  BY SubSeqProperties
<1>3. new = b \o c
  BY DEF Splice
<1> HIDE DEF a, c
<1>4. b \in Seq(Pieces) /\ Len(b) = k + 1 /\ (\A i \in 1..k : b[i] = list[i]) /\ b[k+1] = x
  BY <1>1, ConcatProperties
<1> HIDE DEF b
<1>5. /\ new \in Seq(Pieces) /\ Len(new) = Len(b) + Len(c)
      /\ \A i \in 1..Len(b) + Len(c) : new[i] = IF i <= Len(b) THEN b[i] ELSE c[i - Len(b)]
  <2>1. b \in Seq(Pieces) /\ c \in Seq(Pieces)
    BY <1>2, <1>4
  <2>2. /\ b \o c \in Seq(Pieces)
        /\ Len(b \o c) = Len(b) + Len(c)
        /\ \A i \in 1 .. Len(b) + Len(c) : (b \o c)[i] = IF i <= Len(b) THEN b[i] ELSE c[i - Len(b)]
    BY <2>1, ConcatProperties
  <2> QED BY <2>2, <1>3
<1>6. Len(new) = Len(list) + k + 1 - m /\ Len(new) \in Nat
  <2>1. Len(new) = (k + 1) + (Len(list) - m)
    BY <1>2, <1>4, <1>5
  <2> QED BY <2>1, <1>0
<1>7. \A i \in 1..k+1 : new[i] = b[i]
  <2> TAKE i \in 1..k+1
  <2>1. i \in 1..Len(b) + Len(c) /\ i <= Len(b)
    BY <1>0, <1>2, <1>4
  <2> QED BY <2>1, <1>5
<1>8. ASSUME NEW i \in k+2..Len(new) PROVE new[i] = list[i - k - 1 + m]
  <2>1. i - (k + 1) \in 1..Len(list)-m /\ m + (i - (k + 1)) = i - k - 1 + m
    BY <1>0, <1>6
  <2>2. new[i] = c[i - (k + 1)]
    BY <1>0, <1>2, <1>4, <1>5
  <2> QED BY <2>1, <2>2, <1>2
<1>9. (\A i \in 1..k : new[i] = list[i]) /\ new[k+1] = x
  BY <1>0, <1>4, <1>7
<1> QED BY <1>5, <1>6, <1>8, <1>9 DEF IsSplice

LEMMA SpliceGood ==
  ASSUME NEW list, GoodList(list), NEW k \in 0..Len(list), NEW m \in k..Len(list),
         NEW x, GoodPiece(x),
         k > 0 => End(list[k]) < x.at,
         m < Len(list) => End(x) < list[m+1].at,
         NEW new, new = Splice(list, k, x, m)
  PROVE  /\ GoodList(new)
         /\ \A a : a \in Free(new) <=> \/ a \in Covers(x)
                                       \/ \E i \in 1..k \cup m+1..Len(list) : a \in Covers(list[i])
<1> DEFINE old(i) == IF i <= k THEN i ELSE i - k - 1 + m
<1>0. /\ list \in Seq(Pieces) /\ x \in Pieces /\ Len(list) \in Nat
      /\ k \in Nat /\ m \in Nat /\ k <= m /\ m <= Len(list)
  BY DEF GoodList, GoodPiece
<1>2. /\ new \in Seq(Pieces) /\ Len(new) = Len(list) + k + 1 - m /\ Len(new) \in Nat
      /\ \A i \in 1..k : new[i] = list[i]
      /\ new[k+1] = x
      /\ \A i \in k+2..Len(new) : new[i] = list[i - k - 1 + m]
  <2>1. IsSplice(new, list, k, x, m)
    BY <1>0, SpliceElements
  <2> QED BY <2>1 DEF IsSplice
<1>3. \A i \in 1..Len(new) : i # k + 1 => old(i) \in 1..Len(list) /\ new[i] = list[old(i)] /\ (old(i) <= k \/ old(i) > m)
  <2> TAKE i \in 1..Len(new)
  <2>1. CASE i <= k
    BY <2>1, <1>0, <1>2
  <2>2. CASE i > k + 1
    <3>1. i \in k+2..Len(new) /\ old(i) = i - k - 1 + m
      BY <2>2, <1>0, <1>2
    <3>2. new[i] = list[old(i)]
      BY <3>1, <1>2
    <3>3. old(i) \in 1..Len(list) /\ old(i) > m
      BY <3>1, <1>0, <1>2
    <3> QED BY <3>2, <3>3
  <2> QED BY <2>1, <2>2, <1>0
<1>4. \A i \in 1..Len(new) : GoodPiece(new[i])
  BY <1>2, <1>3 DEF GoodList
<1>5. ASSUME NEW i \in 1..Len(new), NEW j \in 1..Len(new), i < j
      PROVE  End(new[i]) < new[j].at
  <2>1. CASE i # k + 1 /\ j # k + 1
    <3>1. old(i) < old(j)
      BY <2>1, <1>5, <1>0, <1>2
    <3> QED BY <3>1, <2>1, <1>3 DEF GoodList
  <2>2. CASE j = k + 1
    <3>1. i \in 1..k /\ new[i] = list[i] /\ new[j] = x
      BY <2>2, <1>5, <1>2, <1>0
    <3>2. CASE i = k
      BY <3>1, <3>2, <2>2
    <3>3. CASE i < k
      <4>1. End(list[i]) < list[k].at /\ GoodPiece(list[k]) /\ GoodPiece(list[i])
        BY <3>1, <3>3, <1>0 DEF GoodList
      <4>2. End(list[k]) < x.at
        BY <3>1, <1>0
      <4>3. /\ list[k].at \in Nat /\ End(list[k]) > list[k].at /\ End(list[k]) \in Nat
            /\ End(list[i]) \in Nat /\ x.at \in Nat
        BY <4>1, PieceFacts
      <4> QED BY <3>1, <4>1, <4>2, <4>3
    <3> QED BY <3>1, <3>2, <3>3
  <2>3. CASE i = k + 1
    <3>0. j # k + 1 /\ j > k
      BY <2>3, <1>5, <1>0, <1>2
    <3>1. old(j) \in m+1..Len(list) /\ new[j] = list[old(j)] /\ new[i] = x
      <4>1. old(j) \in 1..Len(list) /\ new[j] = list[old(j)] /\ old(j) = j - k - 1 + m
        BY <3>0, <1>3, <1>0
      <4>2. old(j) > m
        BY <4>1, <3>0, <1>0
      <4> HIDE DEF old
      <4> QED BY <4>1, <4>2, <2>3, <1>0, <1>2
    <3>2. PICK o \in m+1..Len(list) : new[j] = list[o]
      BY <3>1
    <3>3. CASE o = m + 1
      BY <3>1, <3>2, <3>3, <1>0
    <3>4. CASE o > m + 1
      <4>1. End(list[m+1]) < list[o].at /\ GoodPiece(list[m+1]) /\ GoodPiece(list[o])
        BY <3>2, <3>4, <1>0 DEF GoodList
      <4>2. End(x) < list[m+1].at
        BY <3>2, <1>0
      <4>3. list[m+1].at \in Nat /\ End(list[m+1]) >= list[m+1].at /\ End(list[m+1]) \in Nat
        BY <4>1, PieceFacts
      <4>4. End(x) \in Nat /\ list[o].at \in Nat
        BY <4>1, PieceFacts
      <4>5. End(x) < list[o].at
        <5>1. \A a, b, c, d \in Nat : a < b /\ b <= c /\ c < d => a < d
          OBVIOUS
        <5> QED BY <5>1, <4>1, <4>2, <4>3, <4>4
      <4>6. new[i] = x /\ new[j] = list[o]
        BY <3>1, <3>2
      <4> QED BY <4>5, <4>6
    <3> QED BY <3>2, <3>3, <3>4, <1>0
  <2> QED BY <2>1, <2>2, <2>3
<1>6. GoodList(new)
  BY <1>2, <1>4, <1>5 DEF GoodList
<1>7. ASSUME NEW a, a \in Free(new)
      PROVE  a \in Covers(x) \/ \E i \in 1..k \cup m+1..Len(list) : a \in Covers(list[i])
  <2>1. PICK i \in 1..Len(new) : a \in Covers(new[i])
    BY <1>2, <1>7, FreeMembers
  <2>2. CASE i = k + 1
    BY <2>1, <2>2, <1>2
  <2>3. CASE i # k + 1
    <3>1. old(i) \in 1..k \cup m+1..Len(list) /\ new[i] = list[old(i)]
      BY <2>3, <1>3, <1>0
    <3> QED BY <3>1, <2>1
  <2> QED BY <2>2, <2>3
<1>8. ASSUME NEW a, a \in Covers(x) \/ \E i \in 1..k \cup m+1..Len(list) : a \in Covers(list[i])
      PROVE  a \in Free(new)
  <2>1. \E j \in 1..Len(new) : a \in Covers(new[j])
    <3>1. CASE a \in Covers(x)
      <4>1. k + 1 \in 1..Len(new)
        BY <1>0, <1>2
      <4> QED BY <3>1, <4>1, <1>2
    <3>2. ASSUME NEW i \in 1..k, a \in Covers(list[i]) PROVE \E j \in 1..Len(new) : a \in Covers(new[j])
      <4>1. i \in 1..Len(new)
        BY <1>0, <1>2
      <4> QED BY <3>2, <4>1, <1>2
    <3>3. ASSUME NEW i \in m+1..Len(list), a \in Covers(list[i]) PROVE \E j \in 1..Len(new) : a \in Covers(new[j])
      <4> DEFINE j == i - m + k + 1
      <4>1. j \in k+2..Len(new) /\ j \in 1..Len(new) /\ j - k - 1 + m = i
        BY <1>0, <1>2
      <4>2. new[j] = list[i]
        BY <4>1, <1>2
      <4> QED BY <3>3, <4>1, <4>2
    <3> QED BY <1>8, <3>1, <3>2, <3>3
  <2> QED BY <2>1, <1>2, FreeMembers
<1> QED BY <1>6, <1>7, <1>8

LEMMA CoversMembers ==
  ASSUME NEW p, p.at \in Int, p.size \in Int
  PROVE  \A a : a \in Covers(p) <=> a \in Int /\ p.at <= a /\ a < p.at + p.size
BY DEF Covers, End

LEMMA PieceCovers ==
  ASSUME NEW at \in Int, NEW n \in Int
  PROVE  /\ Piece(at, n).at = at /\ Piece(at, n).size = n
         /\ \A a : a \in Covers(Piece(at, n)) <=> a \in Int /\ at <= a /\ a < at + n
BY CoversMembers DEF Piece

LEMMA GoodPieceCovers ==
  ASSUME NEW p, GoodPiece(p)
  PROVE  \A a : a \in Covers(p) <=> a \in Int /\ p.at <= a /\ a < End(p)
<1>1. p.at \in Int /\ p.size \in Int /\ End(p) = p.at + p.size
  BY PieceFacts
<1> QED BY <1>1, CoversMembers

LEMMA ListFacts ==
  ASSUME NEW list, GoodList(list)
  PROVE  /\ list \in Seq(Pieces) /\ Len(list) \in Nat /\ DOMAIN list = 1..Len(list)
         /\ \A i \in 1..Len(list) : GoodPiece(list[i])
BY DEF GoodList

(* No address is in two pieces. *)
LEMMA PiecesApart ==
  ASSUME NEW list, GoodList(list), NEW i \in 1..Len(list), NEW j \in 1..Len(list), i # j,
         NEW a, a \in Covers(list[i])
  PROVE  a \notin Covers(list[j])
<1>1. GoodPiece(list[i]) /\ GoodPiece(list[j])
  BY ListFacts
<1>2. a \in Int /\ list[i].at <= a /\ a < End(list[i]) /\ list[i].at \in Nat /\ End(list[i]) \in Nat
  BY <1>1, GoodPieceCovers, PieceFacts
<1>3. SUFFICES ASSUME a \in Covers(list[j]) PROVE FALSE
  OBVIOUS
<1>4. list[j].at <= a /\ a < End(list[j]) /\ list[j].at \in Nat /\ End(list[j]) \in Nat
  BY <1>1, <1>3, GoodPieceCovers, PieceFacts
<1>5. End(list[i]) < list[j].at \/ End(list[j]) < list[i].at
  <2>1. i < j \/ j < i
    BY ListFacts
  <2> QED BY <2>1 DEF GoodList
<1>6. \A b, c, d, e \in Nat : b <= a /\ a < c /\ d <= a /\ a < e => ~ (c < d \/ e < b)
  BY <1>2
<1> QED BY <1>2, <1>4, <1>5, <1>6

(* A new piece is p.at up, what is in front of it is below. *)
LEMMA WithoutGood ==
  ASSUME NEW list, GoodList(list), NEW i \in 1..Len(list), NEW new, new = Without(list, i)
  PROVE  /\ GoodList(new)
         /\ \A a : a \in Free(new) <=> a \in Free(list) /\ a \notin Covers(list[i])
<1> DEFINE b == SubSeq(list, 1, i - 1)
           c == SubSeq(list, i + 1, Len(list))
           old(j) == IF j < i THEN j ELSE j + 1
<1>0. list \in Seq(Pieces) /\ Len(list) \in Nat /\ i \in Nat /\ i >= 1 /\ i <= Len(list)
  BY ListFacts
<1>1. b \in Seq(Pieces) /\ Len(b) = i - 1 /\ \A j \in 1..i-1 : b[j] = list[j]
  BY <1>0, SubSeqProperties
<1>2. c \in Seq(Pieces) /\ Len(c) = Len(list) - i /\ \A j \in 1..Len(list)-i : c[j] = list[i + j]
  BY <1>0, SubSeqProperties
<1>3. new = b \o c
  BY DEF Without
<1> HIDE DEF b, c
<1>4. /\ new \in Seq(Pieces) /\ Len(new) = Len(b) + Len(c)
      /\ \A j \in 1..Len(b) + Len(c) : new[j] = IF j <= Len(b) THEN b[j] ELSE c[j - Len(b)]
  <2>2. /\ b \o c \in Seq(Pieces)
        /\ Len(b \o c) = Len(b) + Len(c)
        /\ \A j \in 1 .. Len(b) + Len(c) : (b \o c)[j] = IF j <= Len(b) THEN b[j] ELSE c[j - Len(b)]
    BY <1>1, <1>2, ConcatProperties
  <2> QED BY <2>2, <1>3
<1>5. Len(new) = Len(list) - 1 /\ Len(new) \in Nat
  BY <1>0, <1>1, <1>2, <1>4
<1>6. \A j \in 1..Len(new) : old(j) \in 1..Len(list) /\ new[j] = list[old(j)]
  <2> TAKE j \in 1..Len(new)
  <2>1. new[j] = IF j <= i - 1 THEN b[j] ELSE c[j - (i - 1)]
    BY <1>1, <1>4, <1>5
  <2>2. CASE j <= i - 1
    BY <2>1, <2>2, <1>0, <1>1, <1>5
  <2>3. CASE j > i - 1
    <3>1. j - (i - 1) \in 1..Len(list)-i /\ i + (j - (i - 1)) = j + 1
      BY <2>3, <1>0, <1>5
    <3>2. new[j] = list[j + 1]
      BY <2>1, <2>3, <3>1, <1>0, <1>2
    <3> QED BY <2>3, <3>2, <1>0, <1>5
  <2> QED BY <2>2, <2>3, <1>0
<1>7. \A j \in 1..Len(list) : j # i => \E l \in 1..Len(new) : new[l] = list[j]
  <2> TAKE j \in 1..Len(list)
  <2> HAVE j # i
  <2>1. CASE j < i
    <3>1. j \in 1..Len(new) /\ old(j) = j
      BY <2>1, <1>0, <1>5
    <3> QED BY <3>1, <1>6
  <2>2. CASE j > i
    <3>1. j - 1 \in 1..Len(new) /\ old(j - 1) = j
      BY <2>2, <1>0, <1>5
    <3> QED BY <3>1, <1>6
  <2> QED BY <2>1, <2>2, <1>0
<1>8. \A j \in 1..Len(new) : old(j) # i
  BY <1>0, <1>5
<1>9. \A j, l \in 1..Len(new) : j < l => old(j) < old(l)
  BY <1>0, <1>5
<1> HIDE DEF old
<1>10. GoodList(new)
  BY <1>4, <1>6, <1>9 DEF GoodList
<1>11. ASSUME NEW a, a \in Free(new) PROVE a \in Free(list) /\ a \notin Covers(list[i])
  <2>1. PICK j \in 1..Len(new) : a \in Covers(new[j])
    BY <1>4, <1>11, FreeMembers
  <2>2. a \in Covers(list[old(j)]) /\ old(j) \in 1..Len(list) /\ old(j) # i
    BY <2>1, <1>6, <1>8
  <2> QED BY <2>2, <1>0, FreeMembers, PiecesApart
<1>12. ASSUME NEW a, a \in Free(list), a \notin Covers(list[i]) PROVE a \in Free(new)
  <2>1. PICK j \in 1..Len(list) : a \in Covers(list[j])
    BY <1>0, <1>12, FreeMembers
  <2>2. j # i
    BY <2>1, <1>12
  <2>3. PICK l \in 1..Len(new) : new[l] = list[j]
    BY <2>2, <1>7
  <2> QED BY <2>1, <2>3, <1>4, FreeMembers
<1> QED BY <1>10, <1>11, <1>12

(* What an alloc takes is free, and nothing else stops being free. *)
LEMMA AllocGood ==
  ASSUME NEW list, GoodList(list), NEW n \in Nat, n > 0, n % NodeAlign = 0,
         NEW i \in 1..Len(list), LongEnough(list[i], n),
         NEW new, new = AllocNode(list, i, n)
  PROVE  /\ GoodList(new)
         /\ \A a : a \in Free(new) <=> a \in Free(list) /\ a \notin Covers(Piece(list[i].at, n))
         /\ Covers(Piece(list[i].at, n)) \subseteq Free(list)
<1> DEFINE p == list[i]
           taken == Covers(Piece(p.at, n))
<1>0. list \in Seq(Pieces) /\ Len(list) \in Nat /\ GoodPiece(p)
  BY ListFacts
<1>1. p.at \in Nat /\ p.size \in Nat /\ End(p) = p.at + p.size /\ p.size >= n /\ p \in Pieces
  BY <1>0, PieceFacts DEF LongEnough
<1>2. \A a : a \in taken <=> a \in Int /\ p.at <= a /\ a < p.at + n
  BY <1>1, PieceCovers
<1>3. \A a : a \in Covers(p) <=> a \in Int /\ p.at <= a /\ a < p.at + p.size
  BY <1>1, CoversMembers
<1>4. taken \subseteq Covers(p)
  BY <1>1, <1>2, <1>3
<1>5. Covers(p) \subseteq Free(list)
  BY <1>0, FreeMembers
<1>6. CASE p.size = n
  <2>1. new = Without(list, i)
    BY <1>6 DEF AllocNode
  <2>2. \A a : a \in taken <=> a \in Covers(p)
    BY <1>2, <1>3, <1>6
  <2>3. GoodList(new) /\ \A a : a \in Free(new) <=> a \in Free(list) /\ a \notin Covers(p)
    BY <2>1, WithoutGood
  <2> QED BY <2>2, <2>3, <1>4, <1>5
<1>7. CASE p.size # n
  <2> DEFINE r == Piece(p.at + n, p.size - n)
  <2>1. new = [list EXCEPT ![i] = r]
    BY <1>7 DEF AllocNode
  <2>2. p.size - n \in Nat /\ p.size - n > 0 /\ p.at + n \in Nat
    BY <1>1, <1>7
  <2>3. (p.size - n) % NodeAlign = 0
    <3>1. p.size \in Int /\ n \in Int /\ p.size % NodeAlign = 0
      BY <1>0, <1>1 DEF GoodPiece
    <3> HIDE DEF p
    <3> QED BY <3>1, MultiplesAdd
  <2>4. GoodPiece(r) /\ r.at = p.at + n /\ r.size = p.size - n
    BY <2>2, <2>3 DEF GoodPiece, Piece, Pieces
  <2>5. End(r) = End(p) /\ r.at > p.at
    BY <2>4, <1>1 DEF End
  <2>6. \A a : a \in Covers(r) <=> a \in Covers(p) /\ a \notin taken
    <3>1. \A a : a \in Covers(r) <=> a \in Int /\ p.at + n <= a /\ a < (p.at + n) + (p.size - n)
      BY <2>4, <2>2, CoversMembers
    <3> QED BY <3>1, <1>1, <1>2, <1>3
  <2> HIDE DEF r
  <2>7. /\ new \in Seq(Pieces) /\ Len(new) = Len(list)
        /\ \A j \in 1..Len(list) : new[j] = IF j = i THEN r ELSE list[j]
    BY <2>1, <2>4, <1>0, PieceFacts
  <2>8. GoodList(new)
    <3>1. \A j \in 1..Len(new) : GoodPiece(new[j])
      BY <2>4, <2>7, ListFacts
    <3>2. ASSUME NEW j \in 1..Len(new), NEW l \in 1..Len(new), j < l PROVE End(new[j]) < new[l].at
      <4>1. End(list[j]) < list[l].at /\ GoodPiece(list[j]) /\ GoodPiece(list[l])
        BY <3>2, <2>7 DEF GoodList
      <4>2. End(new[j]) = End(list[j]) /\ End(list[j]) \in Nat
        BY <4>1, <2>5, <2>7, PieceFacts
      <4>3. new[l].at >= list[l].at /\ list[l].at \in Nat /\ new[l].at \in Nat
        BY <4>1, <2>2, <2>4, <2>5, <2>7, PieceFacts
      <4>4. \A b, c, d \in Nat : b < c /\ d >= c => b < d
        OBVIOUS
      <4> QED BY <4>1, <4>2, <4>3, <4>4
    <3> QED BY <3>1, <3>2, <2>7 DEF GoodList
  <2>9. ASSUME NEW a, a \in Free(new) PROVE a \in Free(list) /\ a \notin taken
    <3>1. PICK j \in 1..Len(list) : a \in Covers(new[j])
      BY <2>7, <2>9, FreeMembers
    <3>2. CASE j = i
      BY <3>1, <3>2, <2>6, <2>7, <1>5
    <3>3. CASE j # i
      <4>1. a \in Covers(list[j])
        BY <3>1, <3>3, <2>7
      <4> QED BY <4>1, <3>3, <1>0, <1>4, FreeMembers, PiecesApart
    <3> QED BY <3>2, <3>3
  <2>10. ASSUME NEW a, a \in Free(list), a \notin taken PROVE a \in Free(new)
    <3>1. PICK j \in 1..Len(list) : a \in Covers(list[j])
      BY <1>0, <2>10, FreeMembers
    <3>2. a \in Covers(new[j])
      BY <3>1, <2>6, <2>7, <2>10
    <3> QED BY <3>1, <3>2, <2>7, FreeMembers
  <2> QED BY <2>8, <2>9, <2>10, <1>4, <1>5
<1> QED BY <1>6, <1>7

LEMMA FirstFitGives ==
  ASSUME NEW list, GoodList(list), NEW n, NEW i, i = FirstFit(list, n)
  PROVE  /\ i # 0 => i \in 1..Len(list) /\ LongEnough(list[i], n)
         /\ i = 0 => \A j \in 1..Len(list) : ~ LongEnough(list[j], n)
<1> DEFINE Fits == {j \in 1..Len(list) : LongEnough(list[j], n)}
           First(j) == LongEnough(list[j], n) /\ \A l \in 1..j-1 : ~ LongEnough(list[l], n)
<1>0. Len(list) \in Nat /\ DOMAIN list = 1..Len(list)
  BY ListFacts
<1>1. CASE Fits = {}
  <2>1. ~ \E j \in DOMAIN list : LongEnough(list[j], n)
    BY <1>0, <1>1
  <2>2. i = 0
    BY <2>1 DEF FirstFit
  <2> QED BY <2>1, <2>2, <1>0
<1>2. CASE Fits # {}
  <2>1. PICK f \in Fits : \A m \in Fits : f <= m
    <3>1. Fits \subseteq Nat
      BY <1>0
    <3> HIDE DEF Fits
    <3> QED BY <3>1, <1>2, LeastNatural
  <2>2. f \in 1..Len(list) /\ LongEnough(list[f], n)
    OBVIOUS
  <2>3. \A l \in 1..f-1 : ~ LongEnough(list[l], n)
    <3>1. \A l \in 1..f-1 : l \in 1..Len(list) /\ ~ (f <= l)
      BY <2>2, <1>0
    <3> QED BY <3>1, <2>1
  <2>4. \E j \in DOMAIN list : First(j)
    BY <2>2, <2>3, <1>0
  <2>5. i = CHOOSE j \in DOMAIN list : First(j)
    BY <2>2, <1>0 DEF FirstFit
  <2> HIDE DEF First
  <2>6. i \in DOMAIN list /\ First(i)
    BY <2>4, <2>5
  <2> QED BY <2>6, <1>0 DEF First
<1> QED BY <1>1, <1>2

IsStop(list, at, i) ==
    /\ i \in 0..Len(list)
    /\ \A j \in 1..i : list[j].at < at
    /\ i < Len(list) => at <= list[i+1].at

LEMMA StopsAtGives ==
  ASSUME NEW list, GoodList(list), NEW at \in Nat
  PROVE  IsStop(list, at, StopsAt(list, at))
<1> DEFINE Behind == {j \in 0..Len(list) : j < Len(list) => at <= list[j+1].at}
           Stop(j) == (\A l \in 1..j : list[l].at < at) /\ (j < Len(list) => at <= list[j+1].at)
<1>0. Len(list) \in Nat /\ \A j \in 1..Len(list) : list[j].at \in Nat
  BY ListFacts, PieceFacts
<1>1. PICK f \in Behind : \A m \in Behind : f <= m
  <2>1. Len(list) \in Behind /\ Behind \subseteq Nat
    BY <1>0
  <2> HIDE DEF Behind
  <2> QED BY <2>1, LeastNatural
<1>2. f \in 0..Len(list) /\ (f < Len(list) => at <= list[f+1].at)
  OBVIOUS
<1>3. \A l \in 1..f : list[l].at < at
  <2> TAKE l \in 1..f
  <2>1. l - 1 \in 0..Len(list) /\ l - 1 < Len(list) /\ (l - 1) + 1 = l /\ ~ (f <= l - 1) /\ l \in 1..Len(list)
    BY <1>0, <1>2
  <2>2. l - 1 \notin Behind
    BY <2>1, <1>1
  <2>3. ~ (at <= list[l].at)
    BY <2>1, <2>2
  <2> QED BY <2>1, <2>3, <1>0
<1>4. \E j \in 0..Len(list) : Stop(j)
  BY <1>2, <1>3
<1>5. PICK i : i = StopsAt(list, at)
  OBVIOUS
<1>6. i = CHOOSE j \in 0..Len(list) : Stop(j)
  BY <1>5 DEF StopsAt
<1> HIDE DEF Stop
<1>7. i \in 0..Len(list) /\ Stop(i)
  BY <1>4, <1>6
<1> QED BY <1>5, <1>7 DEF Stop, IsStop

(* What a dealloc gives back is free, and nothing else becomes free. *)
LEMMA DeallocGood ==
  ASSUME NEW list, GoodList(list), NEW at \in Nat, NEW size \in Nat, size > 0,
         \A a \in Covers(Piece(at, Round(size))) : a \notin Free(list),
         NEW new, new = DeallocSpace(list, at, size)
  PROVE  /\ GoodList(new)
         /\ \A a : a \in Free(new) <=> a \in Free(list) \/ a \in Covers(Piece(at, Round(size)))
<1>1. PICK n : n = Round(size)
  OBVIOUS
<1>2. n \in Nat /\ n > 0 /\ n % NodeAlign = 0
  BY <1>1, RoundGives
<1>3. PICK s : s = StopsAt(list, at)
  OBVIOUS
<1>4. /\ s \in 0..Len(list) /\ s \in Nat
      /\ \A j \in 1..s : list[j].at < at
      /\ s < Len(list) => at <= list[s+1].at
  <2>1. IsStop(list, at, s)
    BY <1>3, StopsAtGives
  <2> QED BY <2>1, ListFacts DEF IsStop
<1>0. /\ list \in Seq(Pieces) /\ Len(list) \in Nat
      /\ \A j \in 1..Len(list) : /\ GoodPiece(list[j]) /\ list[j].at \in Nat /\ list[j].size \in Nat
                                 /\ list[j].size > 0
                                 /\ End(list[j]) = list[j].at + list[j].size
                                 /\ End(list[j]) \in Nat /\ End(list[j]) > list[j].at
  BY ListFacts, PieceFacts
<1>5. \A a : a \in Covers(Piece(at, n)) <=> a \in Int /\ at <= a /\ a < at + n
  BY <1>2, PieceCovers
<1>6. \A j \in 1..Len(list) : \A a : a \in Covers(list[j]) <=> a \in Int /\ list[j].at <= a /\ a < End(list[j])
  BY <1>0, GoodPieceCovers
\* The list is below the new piece, then above it.
<1>7. \A j \in 1..s : End(list[j]) <= at
  <2> TAKE j \in 1..s
  <2>1. j \in 1..Len(list) /\ list[j].at < at
    BY <1>0, <1>4
  <2>2. at \in Covers(Piece(at, n))
    BY <1>2, <1>5
  <2>3. at \notin Covers(list[j])
    BY <2>1, <2>2, <1>0, <1>1, FreeMembers
  <2>4. ~ (at \in Int /\ list[j].at <= at /\ at < End(list[j]))
    BY <2>1, <2>3, <1>6
  <2>5. list[j].at \in Nat /\ End(list[j]) \in Nat
    BY <2>1, <1>0
  <2> QED BY <2>1, <2>4, <2>5
<1>8. s < Len(list) => at + n <= list[s+1].at
  <2> HAVE s < Len(list)
  <2>1. s + 1 \in 1..Len(list) /\ at <= list[s+1].at
    BY <1>0, <1>4
  <2>2. list[s+1].at \in Covers(list[s+1])
    BY <2>1, <1>0, <1>6
  <2>3. list[s+1].at \notin Covers(Piece(at, n))
    BY <2>1, <2>2, <1>0, <1>1, FreeMembers
  <2> QED BY <2>1, <2>3, <1>0, <1>2, <1>5
<1> DEFINE joined == s > 0 /\ End(list[s]) = at
<1>9. PICK k, y :
           /\ k \in 0..Len(list)
           /\ k = IF joined THEN s - 1 ELSE s
           /\ y = IF joined THEN Piece(list[s].at, list[s].size + n) ELSE Piece(at, n)
  <2>1. s - 1 \in 0..Len(list) \/ ~ joined
    BY <1>0, <1>4
  <2>2. s \in 0..Len(list)
    BY <1>4
  <2> HIDE DEF joined
  <2> QED BY <2>1, <2>2
<1>10. new = PutIn(list, s, y, SubSeq(list, 1, k))
  BY <1>1, <1>3, <1>9 DEF DeallocSpace
\* The new piece, with the one before it.
<1>11. /\ GoodPiece(y) /\ y.at \in Nat /\ End(y) = at + n /\ k \in Nat /\ k <= s
       /\ k > 0 => End(list[k]) < y.at
       /\ \A a : a \in Covers(y) <=> a \in Covers(Piece(at, n)) \/ \E j \in k+1..s : a \in Covers(list[j])
  <2>1. CASE joined
    <3>1. s \in 1..Len(list) /\ k = s - 1 /\ y = Piece(list[s].at, list[s].size + n)
      BY <2>1, <1>4, <1>9
    <3>2. list[s].size + n \in Nat /\ list[s].size + n > 0 /\ (list[s].size + n) % NodeAlign = 0
      <4>1. list[s].size \in Nat /\ list[s].size > 0 /\ list[s].size % NodeAlign = 0
        BY <3>1, <1>0 DEF GoodPiece
      <4> QED BY <4>1, <1>2, GoodSum
    <3>3. y.at = list[s].at /\ y.size = list[s].size + n
      BY <3>1 DEF Piece
    <3>4. GoodPiece(y) /\ y.at \in Nat
      BY <3>1, <3>2, <3>3, <1>0 DEF GoodPiece, Pieces, Piece
    <3>5. End(y) = at + n
      <4>1. /\ list[s].at \in Nat /\ list[s].size \in Nat /\ at = list[s].at + list[s].size
            /\ End(y) = list[s].at + (list[s].size + n)
        BY <3>1, <3>3, <2>1, <1>0 DEF End
      <4>2. \A b, c \in Nat : b + (c + n) = (b + c) + n
        BY <1>2
      <4> QED BY <4>1, <4>2
    <3>6. k > 0 => End(list[k]) < y.at
      <4> HAVE k > 0
      <4>1. k \in 1..Len(list) /\ k < s
        BY <3>1, <1>9
      <4> QED BY <4>1, <3>1, <3>3 DEF GoodList
    <3>7. \A a : a \in Covers(y) <=> a \in Covers(Piece(at, n)) \/ a \in Covers(list[s])
      <4>1. \A a : a \in Covers(y) <=> a \in Int /\ list[s].at <= a /\ a < at + n
        BY <3>3, <3>4, <3>5, GoodPieceCovers
      <4>2. End(list[s]) = at /\ list[s].at \in Nat /\ list[s].at < at
        BY <2>1, <3>1, <1>0
      <4>3. \A a : a \in Covers(list[s]) <=> a \in Int /\ list[s].at <= a /\ a < at
        BY <4>2, <3>1, <1>6
      <4>4. \A b \in Nat : b < at => \A a \in Int : (b <= a /\ a < at + n) <=> (at <= a /\ a < at + n) \/ (b <= a /\ a < at)
        BY <1>2
      <4> QED BY <4>1, <4>2, <4>3, <4>4, <1>5
    <3>8. \A j : j \in k+1..s <=> j = s
      BY <3>1
    <3> QED BY <3>1, <3>4, <3>5, <3>6, <3>7, <3>8
  <2>2. CASE ~ joined
    <3>1. k = s /\ y = Piece(at, n)
      BY <2>2, <1>9
    <3>2. GoodPiece(y) /\ y.at = at /\ y.size = n
      BY <3>1, <1>2 DEF GoodPiece, Piece, Pieces
    <3>3. End(y) = at + n
      BY <3>2 DEF End
    <3>4. k > 0 => End(list[k]) < y.at
      <4> HAVE k > 0
      <4>1. k \in 1..s /\ k \in 1..Len(list) /\ End(list[k]) # at
        BY <3>1, <2>2, <1>4
      <4> QED BY <4>1, <3>2, <1>0, <1>7
    <3>5. \A j : j \notin k+1..s
      BY <3>1, <1>4
    <3> QED BY <3>1, <3>2, <3>3, <3>4, <3>5, <1>4
  <2> QED BY <2>1, <2>2
<1> HIDE DEF joined
<1>12. PICK m, x :
           /\ m \in 0..Len(list)
           /\ m = IF JoinsNext(list, s, y) THEN s + 1 ELSE s
           /\ x = IF JoinsNext(list, s, y) THEN Piece(y.at, y.size + list[s+1].size) ELSE y
  <2>1. s + 1 \in 0..Len(list) \/ ~ JoinsNext(list, s, y)
    BY <1>0, <1>4 DEF JoinsNext
  <2> QED BY <2>1, <1>4
<1>13. new = Splice(list, k, x, m)
  <2>1. CASE JoinsNext(list, s, y)
    <3>1. m + 1 = s + 2
      BY <2>1, <1>4, <1>12
    <3> QED BY <2>1, <3>1, <1>10, <1>12 DEF PutIn, Splice
  <2>2. CASE ~ JoinsNext(list, s, y)
    BY <2>2, <1>10, <1>12 DEF PutIn, Splice
  <2> QED BY <2>1, <2>2
<1>14. y.size \in Nat /\ End(y) = y.at + y.size
  BY <1>11, PieceFacts
\* And with the one behind it.
<1>15. /\ GoodPiece(x) /\ x.at = y.at /\ m \in Nat /\ s <= m
       /\ m < Len(list) => End(x) < list[m+1].at
       /\ \A a : a \in Covers(x) <=> a \in Covers(y) \/ \E j \in s+1..m : a \in Covers(list[j])
  <2>1. CASE JoinsNext(list, s, y)
    <3>1. s + 1 \in 1..Len(list) /\ m = s + 1 /\ x = Piece(y.at, y.size + list[s+1].size) /\ End(y) = list[s+1].at
      BY <2>1, <1>0, <1>4, <1>12 DEF JoinsNext
    <3>2. /\ y.size + list[s+1].size \in Nat /\ y.size + list[s+1].size > 0
          /\ (y.size + list[s+1].size) % NodeAlign = 0
      <4>1. list[s+1].size \in Nat /\ list[s+1].size > 0 /\ list[s+1].size % NodeAlign = 0
        BY <3>1, <1>0 DEF GoodPiece
      <4>2. y.size > 0 /\ y.size % NodeAlign = 0
        BY <1>11 DEF GoodPiece
      <4> QED BY <4>1, <4>2, <1>14, GoodSum
    <3>3. x.at = y.at /\ x.size = y.size + list[s+1].size
      BY <3>1 DEF Piece
    <3>4. GoodPiece(x)
      BY <3>1, <3>2, <3>3, <1>11 DEF GoodPiece, Pieces, Piece
    <3>5. End(x) = End(list[s+1])
      BY <3>1, <3>3, <1>0, <1>11, <1>14 DEF End
    <3>6. m < Len(list) => End(x) < list[m+1].at
      <4> HAVE m < Len(list)
      <4>1. m \in 1..Len(list) /\ m + 1 \in 1..Len(list) /\ m < m + 1
        BY <3>1, <1>0
      <4> QED BY <4>1, <3>1, <3>5 DEF GoodList
    <3>7. \A a : a \in Covers(x) <=> a \in Covers(y) \/ a \in Covers(list[s+1])
      <4>1. \A a : a \in Covers(x) <=> a \in Int /\ y.at <= a /\ a < End(list[s+1])
        BY <3>3, <3>4, <3>5, GoodPieceCovers
      <4>2. \A a : a \in Covers(y) <=> a \in Int /\ y.at <= a /\ a < list[s+1].at
        BY <3>1, <1>11, GoodPieceCovers
      <4>3. y.at \in Nat /\ list[s+1].at \in Nat /\ y.at <= list[s+1].at /\ list[s+1].at < End(list[s+1]) /\ End(list[s+1]) \in Nat
        <5>1. GoodPiece(list[s+1]) /\ GoodPiece(y) /\ End(y) = list[s+1].at
          BY <3>1, <1>0, <1>11
        <5>2. y.at < End(y) /\ y.at \in Nat /\ End(y) \in Nat
          BY <5>1, PieceFacts
        <5>3. list[s+1].at < End(list[s+1]) /\ End(list[s+1]) \in Nat
          BY <5>1, PieceFacts
        <5> QED BY <5>1, <5>2, <5>3
      <4>4. \A a : a \in Covers(list[s+1]) <=> a \in Int /\ list[s+1].at <= a /\ a < End(list[s+1])
        BY <3>1, <1>6
      <4>5. \A b, c, d \in Nat : b <= c /\ c < d =>
                \A a \in Int : (b <= a /\ a < d) <=> (b <= a /\ a < c) \/ (c <= a /\ a < d)
        OBVIOUS
      <4> QED BY <4>1, <4>2, <4>3, <4>4, <4>5
    <3>8. \A j : j \in s+1..m <=> j = s+1
      BY <3>1, <1>4
    <3> QED BY <3>1, <3>3, <3>4, <3>6, <3>7, <3>8, <1>4
  <2>2. CASE ~ JoinsNext(list, s, y)
    <3>1. m = s /\ x = y
      BY <2>2, <1>12
    <3>2. m < Len(list) => End(x) < list[m+1].at
      <4> HAVE m < Len(list)
      <4>1. s + 1 \in 1..Len(list) /\ End(y) # list[s+1].at /\ at + n <= list[s+1].at /\ list[s+1].at \in Nat
        BY <3>1, <2>2, <1>0, <1>4, <1>8 DEF JoinsNext
      <4> QED BY <4>1, <3>1, <1>2, <1>11
    <3>3. \A j : j \notin s+1..m
      BY <3>1, <1>4
    <3> QED BY <3>1, <3>2, <3>3, <1>4, <1>11
  <2> QED BY <2>1, <2>2
<1>16. k \in 0..Len(list) /\ m \in k..Len(list) /\ (k > 0 => End(list[k]) < x.at)
  <2>1. k \in 0..Len(list) /\ m \in 0..Len(list)
    BY <1>9, <1>12
  <2>2. k > 0 => End(list[k]) < x.at
    BY <1>11, <1>15
  <2>3. k \in Nat /\ s \in Nat /\ m \in Nat /\ k <= s /\ s <= m
    BY <1>4, <1>11, <1>15
  <2> QED BY <2>1, <2>2, <2>3
<1>17. /\ GoodList(new)
       /\ \A a : a \in Free(new) <=> a \in Covers(x) \/ \E i \in 1..k \cup m+1..Len(list) : a \in Covers(list[i])
  <2>1. GoodPiece(x) /\ (m < Len(list) => End(x) < list[m+1].at)
    BY <1>15
  <2> QED BY <2>1, <1>13, <1>16, SpliceGood
<1>18. \A j : j \in 1..Len(list) <=> j \in 1..k \cup m+1..Len(list) \/ j \in k+1..s \/ j \in s+1..m
  BY <1>0, <1>4, <1>11, <1>15, <1>16
<1>19. \A a : a \in Free(list) <=> \E j \in 1..Len(list) : a \in Covers(list[j])
  BY <1>0, FreeMembers
<1>20. \A a : a \in Covers(x) <=> \/ a \in Covers(Piece(at, n))
                                  \/ \E j \in k+1..s : a \in Covers(list[j])
                                  \/ \E j \in s+1..m : a \in Covers(list[j])
  BY <1>11, <1>15
<1> QED BY <1>1, <1>17, <1>18, <1>19, <1>20

-----------------------------------------------------------------------------
(* One context. *)

Trees(From, To) == UNION {[S -> To] : S \in SUBSET From}

LEMMA TreesMembers ==
  ASSUME NEW From, NEW To
  PROVE  \A f : f \in Trees(From, To) <=> /\ f = [k \in DOMAIN f |-> f[k]] /\ DOMAIN f \subseteq From
                                          /\ \A k \in DOMAIN f : f[k] \in To
<1>1. ASSUME NEW f, f \in Trees(From, To)
      PROVE  /\ f = [k \in DOMAIN f |-> f[k]] /\ DOMAIN f \subseteq From
             /\ \A k \in DOMAIN f : f[k] \in To
  <2>1. PICK S \in SUBSET From : f \in [S -> To]
    BY <1>1 DEF Trees
  <2> QED BY <2>1
<1>2. ASSUME NEW f, f = [k \in DOMAIN f |-> f[k]], DOMAIN f \subseteq From, \A k \in DOMAIN f : f[k] \in To
      PROVE  f \in Trees(From, To)
  <2>1. f \in [DOMAIN f -> To]
    BY <1>2
  <2> QED BY <2>1, <1>2 DEF Trees
<1> QED BY <1>1, <1>2

LEMMA ContextIs == Context = [size : Nat, list : Seq(Pieces), name : Trees(Names, Values), objID : Trees(Values, Copies)]
BY DEF Context, Trees, Pieces

(* A context as it is between calls; the heap is as large as the list and the copies need. *)
GoodContext(c) ==
    /\ c \in Context
    /\ GoodList(c.list) /\ Free(c.list) \subseteq 0..c.size-1
    /\ TreesAgree(c) /\ CopiesApart(c)

LEMMA ContextFacts ==
  ASSUME NEW c \in Context
  PROVE  /\ c.size \in Nat /\ c.list \in Seq(Pieces)
         /\ c.name = [n \in DOMAIN c.name |-> c.name[n]] /\ DOMAIN c.name \subseteq Names
         /\ \A n \in DOMAIN c.name : c.name[n] \in Values
         /\ c.objID = [v \in DOMAIN c.objID |-> c.objID[v]] /\ DOMAIN c.objID \subseteq Values
         /\ \A v \in DOMAIN c.objID : /\ c.objID[v] \in Copies /\ c.objID[v] # NULL
                                      /\ c.objID[v].at \in Nat /\ c.objID[v].name \in Names
<1>1. c.size \in Nat /\ c.list \in Seq(Pieces) /\ c.name \in Trees(Names, Values) /\ c.objID \in Trees(Values, Copies)
  BY ContextIs
<1>2. \A r \in Copies : r # NULL /\ r.at \in Nat /\ r.name \in Names
  BY ContextAssumption DEF Copies
<1>3. /\ c.objID = [v \in DOMAIN c.objID |-> c.objID[v]] /\ DOMAIN c.objID \subseteq Values
      /\ \A v \in DOMAIN c.objID : c.objID[v] \in Copies
  BY <1>1, TreesMembers
<1>4. /\ c.name = [n \in DOMAIN c.name |-> c.name[n]] /\ DOMAIN c.name \subseteq Names
      /\ \A n \in DOMAIN c.name : c.name[n] \in Values
  BY <1>1, TreesMembers
<1> QED BY <1>1, <1>2, <1>3, <1>4

(* What a name and its value have to do with each other. *)
LEMMA Associated ==
  ASSUME NEW c, GoodContext(c)
  PROVE  /\ \A v : v \in DOMAIN c.objID <=> \E n \in DOMAIN c.name : c.name[n] = v
         /\ \A n \in DOMAIN c.name : c.name[n] \in DOMAIN c.objID /\ c.objID[c.name[n]].name = n
         /\ \A n, m \in DOMAIN c.name : c.name[n] = c.name[m] => n = m
         /\ \A v \in DOMAIN c.objID : c.objID[v].name \in DOMAIN c.name /\ c.name[c.objID[v].name] = v
<1>1. \A v : v \in DOMAIN c.objID <=> \E n \in DOMAIN c.name : c.name[n] = v
  BY DEF GoodContext, TreesAgree, Range
<1>2. \A n \in DOMAIN c.name : c.objID[c.name[n]].name = n
  BY DEF GoodContext, TreesAgree
<1> QED BY <1>1, <1>2

LEMMA NameSizes ==
  ASSUME NEW n \in Names
  PROVE  /\ Length[n] \in Nat /\ Length[n] > 0 /\ NameSize(n) \in Nat /\ NameSize(n) > 0
         /\ Length[n] <= NameSize(n)
<1>1. Length[n] \in Nat \ {0}
  BY ContextAssumption
<1> QED BY <1>1 DEF NameSize

LEMMA CopyMembers ==
  ASSUME NEW r \in Copies
  PROVE  \A a : a \in CopyOf(r) <=> a \in Int /\ r.at <= a /\ a < r.at + Round(NameSize(r.name))
<1>1. r.at \in Nat /\ r.name \in Names
  BY DEF Copies
<1>2. Round(NameSize(r.name)) \in Nat
  BY <1>1, NameSizes, RoundGives
<1> QED BY <1>1, <1>2, PieceCovers DEF CopyOf

LEMMA Apart ==
  ASSUME NEW c, GoodContext(c)
  PROVE  /\ \A v \in DOMAIN c.objID : \A a \in CopyOf(c.objID[v]) : a \in 0..c.size-1 /\ a \notin Free(c.list)
         /\ \A v, w \in DOMAIN c.objID : v # w => \A a \in CopyOf(c.objID[v]) : a \notin CopyOf(c.objID[w])
BY DEF GoodContext, CopiesApart

(* The parts that make a context good, copies by address. *)
LEMMA MakesGood ==
  ASSUME NEW c \in Context, GoodList(c.list), Free(c.list) \subseteq 0..c.size-1, TreesAgree(c),
         \A v \in DOMAIN c.objID : \A a \in CopyOf(c.objID[v]) : a \in 0..c.size-1 /\ a \notin Free(c.list),
         \A v, w \in DOMAIN c.objID : v # w => \A a \in CopyOf(c.objID[v]) : a \notin CopyOf(c.objID[w])
  PROVE  GoodContext(c)
<1>1. IsFreeList(c.list)
  BY GoodIsFree
<1> QED BY <1>1 DEF GoodContext, CopiesApart

(* Only the list is another one, with the same free memory. *)
LEMMA SameTrees ==
  ASSUME NEW c, GoodContext(c), NEW list, GoodList(list), \A a : a \in Free(list) <=> a \in Free(c.list),
         NEW d, d = [c EXCEPT !.list = list]
  PROVE  GoodContext(d) /\ d.name = c.name
<1>1. c \in Context
  BY DEF GoodContext
<1>2. d \in Context /\ d.list = list /\ d.size = c.size /\ d.name = c.name /\ d.objID = c.objID
  BY <1>1, ContextIs, ListFacts
<1>3. TreesAgree(d)
  BY <1>2 DEF GoodContext, TreesAgree
<1>4. Free(d.list) \subseteq 0..d.size-1
  BY <1>2 DEF GoodContext
<1>5. /\ \A v \in DOMAIN d.objID : \A a \in CopyOf(d.objID[v]) : a \in 0..d.size-1 /\ a \notin Free(d.list)
      /\ \A v, w \in DOMAIN d.objID : v # w => \A a \in CopyOf(d.objID[v]) : a \notin CopyOf(d.objID[w])
  BY <1>2, Apart
<1> QED BY <1>2, <1>3, <1>4, <1>5, MakesGood

(* The memory for a name: none, or a piece that was free. *)
LEMMA AllocGives ==
  ASSUME NEW c, GoodContext(c), NEW n \in Names,
         NEW buff, buff = SPHContextAllocNoLock(c, NameSize(n))
  PROVE  \/ buff.at = NULL /\ buff.list = c.list
         \/ /\ buff.at \in Nat /\ buff.at # NULL /\ GoodList(buff.list)
            /\ \A a : a \in Free(buff.list) <=> a \in Free(c.list) /\ a \notin Covers(Piece(buff.at, Round(NameSize(n))))
            /\ Covers(Piece(buff.at, Round(NameSize(n)))) \subseteq Free(c.list)
<1> DEFINE size == NameSize(n)
<1>1. PICK i : i = FirstFit(c.list, Round(size))
  OBVIOUS
<1>2. CASE size >= c.size \/ i = 0
  BY <1>1, <1>2 DEF SPHContextAllocNoLock
<1>3. CASE ~ (size >= c.size \/ i = 0)
  <2>1. buff.at = c.list[i].at /\ buff.list = AllocNode(c.list, i, Round(size))
    BY <1>1, <1>3 DEF SPHContextAllocNoLock
  <2>2. GoodList(c.list)
    BY DEF GoodContext
  <2>3. i \in 1..Len(c.list) /\ LongEnough(c.list[i], Round(size))
    BY <1>1, <1>3, <2>2, FirstFitGives
  <2>4. Round(size) \in Nat /\ Round(size) > 0 /\ Round(size) % NodeAlign = 0
    BY NameSizes, RoundGives
  <2>5. buff.at \in Nat /\ buff.at # NULL
    BY <2>1, <2>2, <2>3, ListFacts, PieceFacts, ContextAssumption
  <2> QED BY <2>1, <2>2, <2>3, <2>4, <2>5, AllocGood
<1> QED BY <1>2, <1>3

\* A tree with one more key.
Extends(new, tree, key, val) ==
    /\ DOMAIN new = DOMAIN tree \cup {key} /\ new[key] = val
    /\ \A k \in DOMAIN tree : new[k] = tree[k]
    /\ TreeRemove(new, key) = tree

LEMMA TreePutNew ==
  ASSUME NEW From, NEW To, NEW tree \in Trees(From, To), NEW key \in From, NEW val \in To, key \notin DOMAIN tree
  PROVE  TreePut(tree, key, val) \in Trees(From, To) /\ Extends(TreePut(tree, key, val), tree, key, val)
<1> DEFINE new == TreePut(tree, key, val)
<1>1. /\ tree = [k \in DOMAIN tree |-> tree[k]] /\ DOMAIN tree \subseteq From
      /\ \A k \in DOMAIN tree : tree[k] \in To
  BY TreesMembers
<1>2. /\ DOMAIN new = DOMAIN tree \cup {key} /\ new[key] = val /\ \A k \in DOMAIN tree : new[k] = tree[k]
      /\ new = [k \in DOMAIN new |-> new[k]]
  BY DEF TreePut
<1>3. new \in Trees(From, To)
  <2>1. DOMAIN new \subseteq From /\ \A k \in DOMAIN new : new[k] \in To
    BY <1>1, <1>2
  <2> QED BY <2>1, <1>2, TreesMembers
<1>4. TreeRemove(new, key) = tree
  <2>1. DOMAIN new \ {key} = DOMAIN tree
    BY <1>2
  <2>2. TreeRemove(new, key) = [k \in DOMAIN tree |-> new[k]]
    BY <2>1 DEF TreeRemove, Restrict
  <2> QED BY <2>2, <1>1, <1>2
<1> QED BY <1>2, <1>3, <1>4 DEF Extends

\* A tree with one key less.
Shrinks(new, tree, key) ==
    DOMAIN new = DOMAIN tree \ {key} /\ \A k \in DOMAIN tree : k # key => new[k] = tree[k]

LEMMA TreeRemoved ==
  ASSUME NEW From, NEW To, NEW tree \in Trees(From, To), NEW key
  PROVE  TreeRemove(tree, key) \in Trees(From, To) /\ Shrinks(TreeRemove(tree, key), tree, key)
<1> DEFINE new == TreeRemove(tree, key)
<1>1. DOMAIN tree \subseteq From /\ \A k \in DOMAIN tree : tree[k] \in To
  BY TreesMembers
<1>2. /\ DOMAIN new = DOMAIN tree \ {key} /\ \A k \in DOMAIN tree : k # key => new[k] = tree[k]
      /\ new = [k \in DOMAIN new |-> new[k]]
  BY DEF TreeRemove, Restrict
<1>3. DOMAIN new \subseteq From /\ \A k \in DOMAIN new : new[k] \in To
  BY <1>1, <1>2
<1> QED BY <1>2, <1>3, TreesMembers DEF Shrinks

CanAdd(c, name, value) == name \notin DOMAIN c.name /\ value \notin DOMAIN c.objID

\* There is no memory for the copy of the name.
NoRoom(c, name) == SPHContextAllocNoLock(c, NameSize(name)).at = NULL

\* What an add makes of a context, and returns.
Added(r, c, name, value) ==
    /\ GoodContext(r.context)
    /\ \/ r.ok = FALSE /\ r.context.name = c.name /\ (NoRoom(c, name) \/ ~ CanAdd(c, name, value))
       \/ r.ok = TRUE /\ CanAdd(c, name, value) /\ r.context.name = TreePut(c.name, name, value)

(* An add that fails, at whatever point, leaves the trees as they were. *)
LEMMA AddNameGives ==
  ASSUME NEW c, GoodContext(c), NEW name \in Names, NEW value \in Values
  PROVE  Added(SPHContextAddNameNoLock(c, name, value), c, name, value)
<1> SUFFICES ASSUME NEW r, r = SPHContextAddNameNoLock(c, name, value)
             PROVE  Added(r, c, name, value)
  OBVIOUS
<1> USE DEF Added
<1>1. PICK buff : buff = SPHContextAllocNoLock(c, NameSize(name))
  OBVIOUS
<1> DEFINE taken == [c EXCEPT !.list = buff.list]
           size == NameSize(name)
           given == Covers(Piece(buff.at, Round(size)))
           free == DeallocSpace(buff.list, buff.at, size)
           named == [taken EXCEPT !.name = TreePut(@, name, value)]
           back == [named EXCEPT !.name = TreeRemove(@, name)]
<1>2. c \in Context /\ c.name \in Trees(Names, Values) /\ c.objID \in Trees(Values, Copies)
  BY ContextIs DEF GoodContext
<1>3. CASE buff.at = NULL
  <2>1. r = Result(c, FALSE)
    BY <1>1, <1>3 DEF SPHContextAddNameNoLock
  <2>2. r.context = c /\ r.ok = FALSE
    BY <2>1 DEF Result
  <2> QED BY <2>2, <1>1, <1>3 DEF NoRoom
<1>4. CASE buff.at # NULL
  <2>1. /\ buff.at \in Nat /\ GoodList(buff.list)
        /\ \A a : a \in Free(buff.list) <=> a \in Free(c.list) /\ a \notin given
        /\ given \subseteq Free(c.list)
    BY <1>1, <1>4, AllocGives
  <2>2. GoodList(free) /\ \A a : a \in Free(free) <=> a \in Free(c.list)
    <3>1. size \in Nat /\ size > 0
      BY NameSizes
    <3>2. \A a \in given : a \notin Free(buff.list)
      BY <2>1
    <3> HIDE DEF size
    <3>3. GoodList(free) /\ \A a : a \in Free(free) <=> a \in Free(buff.list) \/ a \in given
      BY <3>1, <3>2, <2>1, DeallocGood
    <3> QED BY <3>3, <2>1
  <2>3. CASE name \in DOMAIN c.name
    <3>1. r = Result(SPHContextFreeNoLock(taken, buff.at, size), FALSE)
      BY <1>1, <1>4, <2>3 DEF SPHContextAddNameNoLock
    <3>2. SPHContextFreeNoLock(taken, buff.at, size) = [c EXCEPT !.list = free]
      BY <1>2 DEF SPHContextFreeNoLock, Context
    <3>3. r.context = [c EXCEPT !.list = free] /\ r.ok = FALSE
      BY <3>1, <3>2 DEF Result
    <3> QED BY <3>3, <2>2, <2>3, SameTrees DEF CanAdd
  <2>4. CASE name \notin DOMAIN c.name /\ value \in DOMAIN c.objID
    <3>1. r = Result(SPHContextFreeNoLock(back, buff.at, size), FALSE)
      BY <1>1, <1>4, <2>4 DEF SPHContextAddNameNoLock
    <3>2. TreeRemove(TreePut(c.name, name, value), name) = c.name
      <4>1. c.name \in Trees(Names, Values) /\ name \notin DOMAIN c.name
        BY <1>2, <2>4
      <4>2. Extends(TreePut(c.name, name, value), c.name, name, value)
        BY <4>1, TreePutNew
      <4> QED BY <4>2 DEF Extends
    <3>3. SPHContextFreeNoLock(back, buff.at, size) = [c EXCEPT !.list = free]
      BY <1>2, <3>2 DEF SPHContextFreeNoLock, Context
    <3>4. r.context = [c EXCEPT !.list = free] /\ r.ok = FALSE
      BY <3>1, <3>3 DEF Result
    <3> QED BY <3>4, <2>2, <2>4, SameTrees DEF CanAdd
  <2>5. CASE CanAdd(c, name, value)
    <3> DEFINE copy == [at |-> buff.at, name |-> name]
    <3>1. PICK d : d = [named EXCEPT !.objID = TreePut(@, value, copy)]
      OBVIOUS
    <3>2. r = Result(d, TRUE)
      BY <1>1, <1>4, <2>5, <3>1 DEF SPHContextAddNameNoLock, CanAdd
    <3>3. r.context = d /\ r.ok = TRUE
      BY <3>2 DEF Result
    <3>4. copy \in Copies /\ copy.at = buff.at /\ copy.name = name
      BY <2>1 DEF Copies
    <3> HIDE DEF copy
    <3>5. /\ d.size = c.size /\ d.list = buff.list
          /\ d.name = TreePut(c.name, name, value) /\ d.objID = TreePut(c.objID, value, copy)
          /\ d = [size |-> d.size, list |-> d.list, name |-> d.name, objID |-> d.objID]
      BY <3>1, <1>2 DEF Context
    <3>6. /\ d.name \in Trees(Names, Values) /\ DOMAIN d.name = DOMAIN c.name \cup {name} /\ d.name[name] = value
          /\ \A k \in DOMAIN c.name : d.name[k] = c.name[k]
      <4>1. c.name \in Trees(Names, Values) /\ name \notin DOMAIN c.name
        BY <1>2, <2>5 DEF CanAdd
      <4>2. d.name \in Trees(Names, Values) /\ Extends(d.name, c.name, name, value)
        BY <4>1, <3>5, TreePutNew
      <4> QED BY <4>2 DEF Extends
    <3>7. /\ d.objID \in Trees(Values, Copies) /\ DOMAIN d.objID = DOMAIN c.objID \cup {value} /\ d.objID[value] = copy
          /\ \A k \in DOMAIN c.objID : d.objID[k] = c.objID[k]
      <4>1. c.objID \in Trees(Values, Copies) /\ value \notin DOMAIN c.objID /\ copy \in Copies
        BY <1>2, <2>5, <3>4 DEF CanAdd
      <4>2. d.objID \in Trees(Values, Copies) /\ Extends(d.objID, c.objID, value, copy)
        BY <4>1, <3>5, TreePutNew
      <4> QED BY <4>2 DEF Extends
    <3>8. d \in Context
      <4>1. d.size \in Nat /\ d.list \in Seq(Pieces)
        BY <3>5, <2>1, <1>2, ContextFacts, ListFacts
      <4> QED BY <4>1, <3>5, <3>6, <3>7, ContextIs
    <3>9. TreesAgree(d)
      <4>1. \A v : v \in DOMAIN d.objID <=> \E n \in DOMAIN d.name : d.name[n] = v
        BY <3>6, <3>7, Associated
      <4>2. \A n \in DOMAIN d.name : d.objID[d.name[n]].name = n
        BY <3>4, <3>6, <3>7, Associated
      <4>3. DOMAIN d.objID = Range(d.name)
        BY <4>1 DEF Range
      <4> QED BY <4>2, <4>3 DEF TreesAgree
    <3>10. \A a : a \in CopyOf(copy) <=> a \in given
      BY <3>4 DEF CopyOf
    <3>11. \A v \in DOMAIN d.objID : \A a \in CopyOf(d.objID[v]) : a \in 0..c.size-1 /\ a \notin Free(buff.list)
      <4>1. \A a \in given : a \in 0..c.size-1 /\ a \notin Free(buff.list)
        BY <2>1 DEF GoodContext
      <4>2. \A v \in DOMAIN c.objID : \A a \in CopyOf(c.objID[v]) : a \in 0..c.size-1 /\ a \notin Free(buff.list)
        BY <2>1, Apart
      <4> HIDE DEF given
      <4> QED BY <4>1, <4>2, <3>7, <3>10
    <3>12. \A v, w \in DOMAIN d.objID : v # w => \A a \in CopyOf(d.objID[v]) : a \notin CopyOf(d.objID[w])
      <4>1. \A v \in DOMAIN c.objID : \A a \in CopyOf(c.objID[v]) : a \notin given
        BY <2>1, Apart
      <4>2. \A v, w \in DOMAIN c.objID : v # w => \A a \in CopyOf(c.objID[v]) : a \notin CopyOf(c.objID[w])
        BY Apart
      <4> HIDE DEF given
      <4> QED BY <4>1, <4>2, <3>7, <3>10
    <3>13. Free(d.list) \subseteq 0..d.size-1 /\ GoodList(d.list)
      BY <2>1, <3>5 DEF GoodContext
    <3>14. GoodContext(d)
      BY <3>5, <3>8, <3>9, <3>11, <3>12, <3>13, MakesGood
    <3> QED BY <3>3, <3>5, <3>14, <2>5
  <2> QED BY <2>3, <2>4, <2>5 DEF CanAdd
<1> QED BY <1>3, <1>4

(* An association goes, and its copy is free memory, or all but its last byte is. *)
LEMMA Dropped ==
  ASSUME NEW c, GoodContext(c), NEW name \in DOMAIN c.name, NEW size \in Nat, size > 0, size <= NameSize(name),
         NEW value, value = c.name[name],
         NEW d, d = [size |-> c.size, list |-> DeallocSpace(c.list, c.objID[value].at, size),
                     name |-> TreeRemove(c.name, name), objID |-> TreeRemove(c.objID, value)]
  PROVE  GoodContext(d)
<1> DEFINE copy == c.objID[value]
           given == Covers(Piece(copy.at, Round(size)))
<1>1. /\ c \in Context /\ c.name \in Trees(Names, Values) /\ c.objID \in Trees(Values, Copies)
      /\ GoodList(c.list) /\ c.size \in Nat /\ Free(c.list) \subseteq 0..c.size-1
  BY ContextIs DEF GoodContext
<1>2. value \in DOMAIN c.objID /\ copy.name = name /\ copy \in Copies /\ copy.at \in Nat /\ name \in Names
  <2>1. value \in DOMAIN c.objID /\ copy.name = name
    BY Associated
  <2> QED BY <2>1, <1>1, ContextFacts
<1>3. \A a \in given : a \in CopyOf(copy)
  <2>1. NameSize(name) \in Nat
    BY <1>2, NameSizes
  <2>2. Round(size) <= Round(NameSize(name)) /\ Round(size) \in Nat /\ Round(NameSize(name)) \in Nat
    BY <2>1, RoundMonotone, RoundGives
  <2>3. \A a : a \in given <=> a \in Int /\ copy.at <= a /\ a < copy.at + Round(size)
    BY <1>2, <2>2, PieceCovers
  <2>4. \A a : a \in CopyOf(copy) <=> a \in Int /\ copy.at <= a /\ a < copy.at + Round(NameSize(name))
    BY <1>2, CopyMembers
  <2>5. \A b, e, f \in Nat : e <= f => \A a \in Int : a < b + e => a < b + f
    OBVIOUS
  <2> QED BY <1>2, <2>2, <2>3, <2>4, <2>5
<1>4. \A a \in CopyOf(copy) : a \in 0..c.size-1 /\ a \notin Free(c.list)
  BY <1>2, Apart
<1>5. GoodList(d.list) /\ \A a : a \in Free(d.list) <=> a \in Free(c.list) \/ a \in given
  <2>1. \A a \in Covers(Piece(copy.at, Round(size))) : a \notin Free(c.list)
    BY <1>3, <1>4
  <2>2. d.list = DeallocSpace(c.list, copy.at, size)
    OBVIOUS
  <2> HIDE DEF copy
  <2> QED BY <2>1, <2>2, <1>1, <1>2, DeallocGood
<1>6. /\ d.name \in Trees(Names, Values) /\ DOMAIN d.name = DOMAIN c.name \ {name}
      /\ \A k \in DOMAIN c.name : k # name => d.name[k] = c.name[k]
  <2>1. d.name = TreeRemove(c.name, name)
    OBVIOUS
  <2>2. d.name \in Trees(Names, Values) /\ Shrinks(d.name, c.name, name)
    BY <2>1, <1>1, TreeRemoved
  <2> QED BY <2>2 DEF Shrinks
<1>7. /\ d.objID \in Trees(Values, Copies) /\ DOMAIN d.objID = DOMAIN c.objID \ {value}
      /\ \A k \in DOMAIN c.objID : k # value => d.objID[k] = c.objID[k]
  <2>1. d.objID = TreeRemove(c.objID, value)
    OBVIOUS
  <2>2. d.objID \in Trees(Values, Copies) /\ Shrinks(d.objID, c.objID, value)
    BY <2>1, <1>1, TreeRemoved
  <2> QED BY <2>2 DEF Shrinks
<1>8. d.size = c.size /\ d = [size |-> d.size, list |-> d.list, name |-> d.name, objID |-> d.objID]
  OBVIOUS
<1> HIDE DEF given, copy
<1>9. d \in Context
  BY <1>1, <1>5, <1>6, <1>7, <1>8, ContextIs, ListFacts
<1>10. TreesAgree(d)
  <2>1. \A v : v \in DOMAIN d.objID <=> \E n \in DOMAIN d.name : d.name[n] = v
    BY <1>6, <1>7, Associated
  <2>2. \A n \in DOMAIN d.name : d.objID[d.name[n]].name = n
    <3> TAKE n \in DOMAIN d.name
    <3>1. n \in DOMAIN c.name /\ n # name /\ d.name[n] = c.name[n]
      BY <1>6
    <3>2. c.name[n] # value /\ c.name[n] \in DOMAIN c.objID /\ c.objID[c.name[n]].name = n
      BY <3>1, Associated
    <3> QED BY <3>1, <3>2, <1>7
  <2>3. DOMAIN d.objID = Range(d.name)
    BY <2>1 DEF Range
  <2> QED BY <2>2, <2>3 DEF TreesAgree
<1>11. Free(d.list) \subseteq 0..d.size-1
  BY <1>1, <1>3, <1>4, <1>5, <1>8
<1>12. \A v \in DOMAIN d.objID : \A a \in CopyOf(d.objID[v]) : a \in 0..d.size-1 /\ a \notin Free(d.list)
  <2> TAKE v \in DOMAIN d.objID
  <2>1. v \in DOMAIN c.objID /\ v # value /\ d.objID[v] = c.objID[v]
    BY <1>7
  <2>2. \A a \in CopyOf(c.objID[v]) : a \in 0..c.size-1 /\ a \notin Free(c.list) /\ a \notin CopyOf(copy)
    BY <2>1, <1>2, Apart DEF copy
  <2> QED BY <2>1, <2>2, <1>3, <1>5, <1>8
<1>13. \A v, w \in DOMAIN d.objID : v # w => \A a \in CopyOf(d.objID[v]) : a \notin CopyOf(d.objID[w])
  BY <1>7, Apart
<1> QED BY <1>5, <1>9, <1>10, <1>11, <1>12, <1>13, MakesGood

(* A name that is not NULL's is found by its name. *)
LEMMA RemoveByNameGives ==
  ASSUME NEW c, GoodContext(c), NEW name \in Names, NEW r, r = SPHContextRemoveByNameNoLock(c, name)
  PROVE  /\ GoodContext(r.context)
         /\ \/ r.ok = FALSE /\ r.context = c /\ (name \notin DOMAIN c.name \/ c.name[name] = NULL)
            \/ /\ r.ok = TRUE /\ name \in DOMAIN c.name /\ c.name[name] # NULL
               /\ r.context.name = TreeRemove(c.name, name)
<1> DEFINE value == SPHContextFindByNameNoLock(c, name)
           copy == SPHContextFindByAddrNoLock(c, value)
           freed == SPHContextFreeNoLock(c, copy.at, NameSize(copy.name))
<1>1. c \in Context
  BY DEF GoodContext
<1>2. CASE name \notin DOMAIN c.name \/ c.name[name] = NULL
  <2>1. value = NULL
    BY <1>2 DEF SPHContextFindByNameNoLock, TreeGet
  <2>2. r = Result(c, FALSE)
    BY <2>1 DEF SPHContextRemoveByNameNoLock
  <2> QED BY <2>2, <1>2 DEF Result
<1>3. CASE name \in DOMAIN c.name /\ c.name[name] # NULL
  <2>1. value = c.name[name] /\ value # NULL
    BY <1>3 DEF SPHContextFindByNameNoLock, TreeGet
  <2>2. value \in DOMAIN c.objID /\ c.objID[value].name = name
    BY <1>3, <2>1, Associated
  <2>3. copy = c.objID[value] /\ copy # NULL /\ copy.name = name
    BY <2>2, <1>1, ContextFacts DEF SPHContextFindByAddrNoLock, TreeGet
  <2>4. PICK d : d = [freed EXCEPT !.objID = TreeRemove(@, value), !.name = TreeRemove(@, name)]
    OBVIOUS
  <2>5. r = Result(d, TRUE)
    BY <2>1, <2>3, <2>4 DEF SPHContextRemoveByNameNoLock
  <2>6. d = [size |-> c.size, list |-> DeallocSpace(c.list, c.objID[value].at, NameSize(name)),
             name |-> TreeRemove(c.name, name), objID |-> TreeRemove(c.objID, value)]
    <3>1. freed = [c EXCEPT !.list = DeallocSpace(c.list, c.objID[value].at, NameSize(name))]
      BY <2>3, <1>1 DEF SPHContextFreeNoLock, Context
    <3> HIDE DEF freed, value
    <3> QED BY <3>1, <2>4, <1>1 DEF Context
  <2>7. NameSize(name) \in Nat /\ NameSize(name) > 0
    BY NameSizes
  <2> HIDE DEF value
  <2>8. GoodContext(d)
    BY <2>1, <2>6, <2>7, <1>3, Dropped
  <2> QED BY <2>5, <2>6, <2>8, <1>3 DEF Result
<1> QED BY <1>2, <1>3

\* What a removal by address makes of a context, and returns.
Unnamed(r, c, value) ==
    /\ GoodContext(r.context)
    /\ \/ r.ok = FALSE /\ r.context = c /\ value \notin DOMAIN c.objID
       \/ r.ok = TRUE /\ \E name \in DOMAIN c.name : c.name[name] = value /\ r.context.name = TreeRemove(c.name, name)

(* Every value is found by its address. *)
LEMMA RemoveByAddrGives ==
  ASSUME NEW c, GoodContext(c), NEW value
  PROVE  Unnamed(SPHContextRemoveByAddrNoLock(c, value), c, value)
<1> SUFFICES ASSUME NEW r, r = SPHContextRemoveByAddrNoLock(c, value)
             PROVE  Unnamed(r, c, value)
  OBVIOUS
<1> USE DEF Unnamed
<1> DEFINE copy == SPHContextFindByAddrNoLock(c, value)
           without == [c EXCEPT !.objID = TreeRemove(@, value), !.name = TreeRemove(@, copy.name)]
<1>1. c \in Context
  BY DEF GoodContext
<1>2. CASE value \notin DOMAIN c.objID
  <2>1. copy = NULL
    BY <1>2 DEF SPHContextFindByAddrNoLock, TreeGet
  <2>2. r = Result(c, FALSE)
    BY <2>1 DEF SPHContextRemoveByAddrNoLock
  <2> QED BY <2>2, <1>2 DEF Result
<1>3. CASE value \in DOMAIN c.objID
  <2>1. copy = c.objID[value] /\ copy # NULL
    BY <1>1, <1>3, ContextFacts DEF SPHContextFindByAddrNoLock, TreeGet
  <2>2. PICK name : name = copy.name
    OBVIOUS
  <2>3. name \in DOMAIN c.name /\ c.name[name] = value /\ name \in Names
    <3>1. name \in DOMAIN c.name /\ c.name[name] = value
      BY <2>1, <2>2, <1>3, Associated
    <3>2. DOMAIN c.name \subseteq Names
      BY <1>1, ContextFacts
    <3> QED BY <3>1, <3>2
  <2>4. SPHContextFindByNameNoLock(c, copy.name) = value
    BY <2>2, <2>3 DEF SPHContextFindByNameNoLock, TreeGet
  <2>5. PICK d : d = SPHContextFreeNoLock(without, copy.at, Length[copy.name])
    OBVIOUS
  <2>6. r = Result(d, TRUE)
    BY <2>1, <2>4, <2>5 DEF SPHContextRemoveByAddrNoLock
  <2>7. d = [size |-> c.size, list |-> DeallocSpace(c.list, c.objID[value].at, Length[name]),
             name |-> TreeRemove(c.name, name), objID |-> TreeRemove(c.objID, value)]
    <3> HIDE DEF copy
    <3> QED BY <2>1, <2>2, <2>5, <1>1 DEF SPHContextFreeNoLock, Context
  <2>8. Length[name] \in Nat /\ Length[name] > 0 /\ Length[name] <= NameSize(name)
    BY <2>3, NameSizes
  <2>9. GoodContext(d)
    BY <2>3, <2>7, <2>8, Dropped
  <2> QED BY <2>3, <2>6, <2>7, <2>9 DEF Result
<1> QED BY <1>2, <1>3

LEMMA RenameGives ==
  ASSUME NEW c, GoodContext(c), NEW old \in Names, NEW new \in Names, NEW value \in Values, value # NULL,
         NEW r, r = SPHContextRename(c, old, new, value)
  PROVE  /\ GoodContext(r.context)
         /\ LET rest == TreeRemove(c.name, old)
            IN  \/ /\ old \in DOMAIN c.name /\ c.name[old] = value
                   /\ \/ r.ok = FALSE /\ r.context.name = rest
                      \/ /\ r.ok = TRUE /\ new \notin DOMAIN rest /\ value \notin Range(rest)
                         /\ r.context.name = TreePut(rest, new, value)
                \/ ~ (old \in DOMAIN c.name /\ c.name[old] = value) /\ r = Result(c, FALSE)
<1> DEFINE oldval == SPHContextFindByNameNoLock(c, old)
<1>1. CASE ~ (old \in DOMAIN c.name /\ c.name[old] = value)
  <2>1. ~ (oldval # NULL /\ oldval = value)
    BY <1>1 DEF SPHContextFindByNameNoLock, TreeGet
  <2>2. r = Result(c, FALSE)
    BY <2>1 DEF SPHContextRename
  <2> QED BY <2>2, <1>1 DEF Result
<1>2. CASE old \in DOMAIN c.name /\ c.name[old] = value
  <2>1. oldval # NULL /\ oldval = value
    BY <1>2 DEF SPHContextFindByNameNoLock, TreeGet
  <2>2. PICK d : d = SPHContextRemoveByNameNoLock(c, old).context
    OBVIOUS
  <2>3. GoodContext(d) /\ d.name = TreeRemove(c.name, old)
    BY <1>2, <2>2, RemoveByNameGives
  <2>4. r = SPHContextAddNameNoLock(d, new, value)
    BY <2>1, <2>2 DEF SPHContextRename
  <2>5. value \in DOMAIN d.objID <=> value \in Range(d.name)
    BY <2>3 DEF GoodContext, TreesAgree
  <2>6. Added(r, d, new, value)
    <3>1. GoodContext(d)
      BY <2>3
    <3> QED BY <3>1, <2>4, AddNameGives
  <2> QED BY <1>2, <2>3, <2>5, <2>6 DEF CanAdd, Added
<1> QED BY <1>1, <1>2

(* A new context. *)
LEMMA NewContext ==
  ASSUME NEW size \in {RootSize, ProjectSize}, NEW c, c = SPHContextInit(size)
  PROVE  GoodContext(c) /\ c.name = << >> /\ DOMAIN c.name = {}
<1>1. size \in Nat /\ size > 0 /\ size % NodeAlign = 0
  BY ContextAssumption
<1>2. PICK p : p = Piece(0, size)
  OBVIOUS
<1>3. GoodPiece(p) /\ p.at = 0 /\ p.size = size
  BY <1>1, <1>2 DEF GoodPiece, Pieces, Piece
<1>4. /\ c = [size |-> size, list |-> <<p>>, name |-> << >>, objID |-> << >>]
      /\ c.size = size /\ c.list = <<p>> /\ c.name = << >> /\ c.objID = << >>
  BY <1>2 DEF SPHContextInit, NoKeys
<1>5. c.list \in Seq(Pieces) /\ Len(c.list) = 1 /\ c.list[1] = p
  BY <1>3, <1>4 DEF GoodPiece
<1>6. GoodList(c.list)
  BY <1>3, <1>5 DEF GoodList
<1>7. Free(c.list) \subseteq 0..c.size-1
  <2>1. \A a : a \in Covers(p) <=> a \in Int /\ 0 <= a /\ a < 0 + size
    BY <1>1, <1>3, CoversMembers
  <2>2. \A a : a \in Free(c.list) => a \in Covers(p)
    BY <1>5, FreeMembers
  <2> QED BY <2>1, <2>2, <1>1, <1>4
<1>8. DOMAIN c.name = {} /\ DOMAIN c.objID = {}
  BY <1>4
<1>9. c \in Context
  <2>1. c.name \in Trees(Names, Values) /\ c.objID \in Trees(Values, Copies)
    <3>1. c.name = [n \in DOMAIN c.name |-> c.name[n]] /\ c.objID = [v \in DOMAIN c.objID |-> c.objID[v]]
      BY <1>4
    <3> QED BY <3>1, <1>8, TreesMembers
  <2> QED BY <2>1, <1>1, <1>4, <1>5, ContextIs
<1>10. TreesAgree(c)
  BY <1>8 DEF TreesAgree, Range
<1> QED BY <1>4, <1>6, <1>7, <1>8, <1>9, <1>10, MakesGood

-----------------------------------------------------------------------------
(* All contexts.  A process in a project call has the lock of the low end, so
   there is one at most; what it found out or did in a step is so until its
   next step. *)

Jobs == [call : SetupCalls \cup RemoveCalls \cup {NULL}, name : Projects \cup {NULL},
         step : Steps \cup {NULL}, context : Block \cup {NULL}]

TypesOK ==
    /\ context \in [Block -> Context \cup {NULL}] /\ finder \in Block \cup {NULL}
    /\ current \in [Process -> Block \cup {NULL}] /\ held \in [Process -> Block \cup {NULL}]
    /\ rootlock \in Process \cup {NULL} /\ job \in [Process -> Jobs] /\ removed \subseteq Block

Root == context[finder]

JobInv(p) ==
    /\ rootlock = p /\ job[p].name \in Projects
    /\ \/ job[p].call \in RemoveCalls /\ job[p].step = "find"
       \/ finder # NULL /\ job[p].call \in SetupCalls /\ job[p].step = "find"
       \/ /\ finder # NULL /\ job[p].call \in SetupCalls /\ job[p].step = "create"
          /\ job[p].name \notin DOMAIN Root.name
       \/ /\ finder # NULL /\ job[p].call \in SetupCalls /\ job[p].step = "add"
          /\ job[p].context \in Block /\ job[p].name \notin DOMAIN Root.name
       \/ /\ finder # NULL /\ job[p].call \in SetupCalls /\ job[p].step = "undo"
          /\ job[p].context \in Block
       \/ /\ finder # NULL /\ job[p].call \in RemoveCalls /\ job[p].step = "remove"
          /\ job[p].name \in DOMAIN Root.name /\ Root.name[job[p].name] = job[p].context
       \/ /\ finder # NULL /\ job[p].call \in RemoveCalls /\ job[p].step = "destroy"
          /\ job[p].context \in Block

(* Before the first setup there is nothing. *)
NoRoot == (\A b \in Block : context[b] = NULL) /\ removed = {} /\ \A p \in Process : current[p] = NULL /\ held[p] = NULL

RootInv ==
    /\ Root # NULL /\ finder \notin InCalls /\ finder \notin removed
    /\ \A n \in DOMAIN Root.name : Root.name[n] \in IF n \in Projects THEN Block \ {finder} ELSE Addrs
    /\ \A p \in Process : current[p] # finder /\ held[p] # finder
    /\ \A b \in Block : context[b] # NULL <=> b \in Named \/ b \in InCalls \/ b \in removed \/ b = finder
    /\ \A b \in Block : /\ ~ (b \in Named /\ b \in InCalls)
                       /\ ~ (b \in Named /\ b \in removed)
                       /\ ~ (b \in InCalls /\ b \in removed)

ContextIInv ==
    /\ TypesOK
    /\ \A b \in Block : context[b] # NULL => GoodContext(context[b])
    /\ \A p \in Process : job[p] # Idle => JobInv(p)
    /\ IF finder = NULL THEN NoRoot ELSE RootInv

LEMMA NullFacts ==
  /\ NULL \notin Block /\ NULL \notin Process /\ NULL \notin Steps /\ NULL \notin Names
  /\ \A b \in Block : b \notin Addrs
  /\ \A c : GoodContext(c) => c \in Context /\ c # NULL
BY ContextAssumption DEF Block, GoodContext

(* What the derived sets are, by their members. *)
LEMMA NamedMembers ==
  ASSUME NEW t, NEW b \in Block
  PROVE  (\E n \in Projects : TreeGet(t, n) = b) <=> \E n \in Projects : n \in DOMAIN t /\ t[n] = b
BY NullFacts DEF TreeGet

Calling(j) == {j[p].context : p \in {q \in Process : j[q].step \in {"add", "undo", "destroy"}}}

LEMMA CallingMembers ==
  ASSUME NEW j, NEW p \in Process, \A q \in Process : q # p => j[q] = Idle
  PROVE  \A b : b \in Calling(j) <=> j[p].step \in {"add", "undo", "destroy"} /\ b = j[p].context
<1>1. Idle.step \notin {"add", "undo", "destroy"}
  BY NullFacts DEF Idle, Steps
<1> QED BY <1>1 DEF Calling

LEMMA NobodyCalls ==
  ASSUME NEW j, \A q \in Process : j[q] = Idle
  PROVE  Calling(j) = {}
<1>1. Idle.step \notin {"add", "undo", "destroy"}
  BY NullFacts DEF Idle, Steps
<1> QED BY <1>1 DEF Calling

LEMMA InCallsIs == InCalls = Calling(job)
BY DEF InCalls, Calling

(* A process in a call is alone in one. *)
LEMMA AloneInCall ==
  ASSUME ContextIInv, NEW p \in Process, job[p] # Idle
  PROVE  /\ rootlock = p /\ JobInv(p)
         /\ \A q \in Process : q # p => job[q] = Idle
         /\ \A b : b \in InCalls <=> job[p].step \in {"add", "undo", "destroy"} /\ b = job[p].context
<1>1. rootlock = p /\ JobInv(p) /\ \A q \in Process : q # p => job[q] = Idle
  BY DEF ContextIInv, JobInv
<1> QED BY <1>1, CallingMembers, InCallsIs

LEMMA StepMeansCall ==
  ASSUME NEW p, NEW s, s \in Steps, job[p].step = s
  PROVE  job[p] # Idle
BY NullFacts DEF Idle

LEMMA NobodyInCall ==
  ASSUME ContextIInv, rootlock = NULL
  PROVE  InCalls = {} /\ \A q \in Process : job[q] = Idle
<1>1. \A q \in Process : job[q] = Idle
  BY NullFacts DEF ContextIInv, JobInv
<1> QED BY <1>1, NobodyCalls, InCallsIs

(* The low end's lock goes from a process to nobody, or stays. *)
LEMMA GoesGives ==
  ASSUME TypesOK, NEW p \in Process, NEW s \in Steps, NEW b \in Block \cup {NULL}, Goes(p, s, b)
  PROVE  /\ job' \in [Process -> Jobs] /\ job'[p] # Idle
         /\ job'[p].call = job[p].call /\ job'[p].name = job[p].name /\ job'[p].step = s /\ job'[p].context = b
         /\ \A q \in Process : q # p => job'[q] = job[q]
         /\ current' = current /\ held' = held /\ rootlock' = rootlock
<1>1. job \in [Process -> Jobs] /\ job[p] \in Jobs
  BY DEF TypesOK
<1>2. PICK j : j = [job[p] EXCEPT !.step = s, !.context = b]
  OBVIOUS
<1>3. job' = [job EXCEPT ![p] = j]
  BY <1>1, <1>2 DEF Goes
<1>4. j \in Jobs /\ j.call = job[p].call /\ j.name = job[p].name /\ j.step = s /\ j.context = b
  BY <1>1, <1>2 DEF Jobs
<1>5. j # Idle
  BY <1>4, NullFacts DEF Idle
<1> QED BY <1>1, <1>3, <1>4, <1>5 DEF Goes

LEMMA IdleJob == Idle \in Jobs
BY DEF Idle, Jobs

LEMMA EndsGives ==
  ASSUME TypesOK, NEW p \in Process, Ends(p)
  PROVE  /\ job' \in [Process -> Jobs] /\ job'[p] = Idle /\ rootlock' = NULL
         /\ \A q \in Process : q # p => job'[q] = job[q]
BY IdleJob DEF TypesOK, Ends

LEMMA SetupReturnsGives ==
  ASSUME TypesOK, NEW p \in Process, NEW b \in Block \cup {NULL}, SetupReturns(p, b)
  PROVE  /\ Ends(p)
         /\ current' \in [Process -> Block \cup {NULL}] /\ held' \in [Process -> Block \cup {NULL}]
         /\ \A q \in Process : current'[q] \in {current[q], b} /\ held'[q] \in {held[q], b}
BY DEF TypesOK, SetupReturns

LEMMA ForgetsGives ==
  ASSUME TypesOK, NEW p \in Process, NEW b, Forgets(p, b)
  PROVE  /\ current' \in [Process -> Block \cup {NULL}]
         /\ \A q \in Process : current'[q] \in {current[q], NULL}
BY DEF TypesOK, Forgets

LEMMA BecomesGives ==
  ASSUME TypesOK, NEW b \in Block, NEW r, GoodContext(r.context), Becomes(b, r)
  PROVE  /\ context' \in [Block -> Context \cup {NULL}] /\ context'[b] = r.context /\ context'[b] # NULL
         /\ \A d \in Block : d # b => context'[d] = context[d]
BY NullFacts DEF TypesOK, Becomes

LEMMA DestroyGives ==
  ASSUME TypesOK, NEW b \in Block, SPHContextDestroy(b)
  PROVE  /\ context' \in [Block -> Context \cup {NULL}] /\ context'[b] = NULL
         /\ \A d \in Block : d # b => context'[d] = context[d]
BY DEF TypesOK, SPHContextDestroy

LEMMA LowestFreeIs ==
  ASSUME FreeBlocks # {}
  PROVE  LowestFree \in Block /\ context[LowestFree] = NULL
<1>1. FreeBlocks \in SUBSET Nat
  BY DEF FreeBlocks, Block
<1>2. \E b \in FreeBlocks : \A d \in FreeBlocks : b <= d
  BY <1>1, LeastNatural
<1>3. LowestFree \in FreeBlocks
  BY <1>2 DEF LowestFree
<1> QED BY <1>3 DEF FreeBlocks

LEMMA CreatedGives ==
  ASSUME TypesOK, NEW b \in Block, NEW size \in {RootSize, ProjectSize}, context' = Created(context, b, size)
  PROVE  /\ context' \in [Block -> Context \cup {NULL}] /\ GoodContext(context'[b]) /\ context'[b] # NULL
         /\ context'[b].name = << >> /\ DOMAIN context'[b].name = {}
         /\ \A d \in Block : d # b => context'[d] = context[d]
<1>1. PICK c : c = SPHContextInit(size)
  OBVIOUS
<1>2. GoodContext(c) /\ c.name = << >> /\ DOMAIN c.name = {}
  BY <1>1, NewContext
<1>3. context' = [context EXCEPT ![b] = c]
  BY <1>1 DEF Created
<1> QED BY <1>2, <1>3, NullFacts DEF TypesOK

-----------------------------------------------------------------------------
(* The steps keep the invariant. *)

LEMMA InitHolds ==
  ASSUME Init
  PROVE  ContextIInv
<1>1. TypesOK
  BY IdleJob, NullFacts DEF Init, TypesOK
<1>2. NoRoot
  BY DEF Init, NoRoot
<1> QED BY <1>1, <1>2 DEF Init, ContextIInv

(* What is in the root: names of projects lead to other contexts, other names do not. *)
LEMMA RootFacts ==
  ASSUME ContextIInv, finder # NULL
  PROVE  /\ finder \in Block /\ Root # NULL /\ GoodContext(Root) /\ Root \in Context
         /\ \A n \in DOMAIN Root.name : n \in Projects => Root.name[n] \in Block \ {finder}
         /\ \A n \in DOMAIN Root.name : n \notin Projects => Root.name[n] \in Addrs
         /\ \A n \in Projects : \/ n \in DOMAIN Root.name /\ TreeGet(Root.name, n) = Root.name[n]
                                   /\ TreeGet(Root.name, n) \in Block \ {finder} /\ TreeGet(Root.name, n) # NULL
                                \/ n \notin DOMAIN Root.name /\ TreeGet(Root.name, n) = NULL
         /\ \A b \in Block : b \in Named <=> \E n \in Projects : n \in DOMAIN Root.name /\ Root.name[n] = b
         /\ RootInv
<1>1. finder \in Block /\ RootInv
  BY DEF ContextIInv, TypesOK
<1>2. Root # NULL /\ GoodContext(Root)
  BY <1>1 DEF ContextIInv, RootInv, Root
<1>3. /\ \A n \in DOMAIN Root.name : n \in Projects => Root.name[n] \in Block \ {finder}
      /\ \A n \in DOMAIN Root.name : n \notin Projects => Root.name[n] \in Addrs
  BY <1>1 DEF RootInv
<1>4. \A b \in Block : b \in Named <=> \E n \in Projects : n \in DOMAIN Root.name /\ Root.name[n] = b
  BY NamedMembers DEF Named, Root
<1>5. \A n \in Projects : \/ n \in DOMAIN Root.name /\ TreeGet(Root.name, n) = Root.name[n]
                             /\ TreeGet(Root.name, n) \in Block \ {finder} /\ TreeGet(Root.name, n) # NULL
                          \/ n \notin DOMAIN Root.name /\ TreeGet(Root.name, n) = NULL
  BY <1>3, NullFacts DEF TreeGet
<1> QED BY <1>1, <1>2, <1>3, <1>4, <1>5, NullFacts

NamedIn(t) == {b \in Block : \E n \in Projects : TreeGet(t, n) = b}

LEMMA NamedInMembers ==
  ASSUME NEW t
  PROVE  \A b : b \in NamedIn(t) <=> b \in Block /\ \E n \in Projects : n \in DOMAIN t /\ t[n] = b
BY NamedMembers DEF NamedIn

LEMMA NamedIs ==
  /\ Named = NamedIn(Root.name) /\ Named' = NamedIn(context'[finder'].name)
  /\ InCalls = Calling(job) /\ InCalls' = Calling(job')
  /\ Root' = context'[finder']
BY DEF Named, NamedIn, Root, InCalls, Calling

(* A call on a context that is not the root. *)
LEMMA OtherContext ==
  ASSUME ContextIInv, NEW b \in Block, b # finder, context[b] # NULL, NEW r, GoodContext(r.context), Becomes(b, r),
         UNCHANGED <<finder, current, held, rootlock, job, removed>>
  PROVE  ContextIInv'
<1>1. TypesOK
  BY DEF ContextIInv
<1>2. /\ context' \in [Block -> Context \cup {NULL}] /\ context'[b] = r.context /\ context'[b] # NULL
      /\ \A d \in Block : d # b => context'[d] = context[d]
  BY <1>1, BecomesGives
<1>3. TypesOK'
  BY <1>1, <1>2 DEF TypesOK
<1>4. \A d \in Block : context'[d] # NULL => GoodContext(context'[d])
  BY <1>2 DEF ContextIInv
<1>5. finder # NULL
  BY DEF ContextIInv, NoRoot
<1>6. Root' = Root
  BY <1>2, <1>5, RootFacts DEF Root
<1>7. \A q \in Process : job'[q] # Idle => JobInv(q)'
  BY <1>6 DEF ContextIInv, JobInv
<1>8. Named' = Named /\ InCalls' = InCalls
  BY <1>6, NamedIs
<1>9. RootInv'
  BY <1>2, <1>5, <1>6, <1>8, RootFacts DEF RootInv
<1> QED BY <1>3, <1>4, <1>5, <1>7, <1>9 DEF ContextIInv

(* A call on the root that leaves the projects alone. *)
LEMMA RootContext ==
  ASSUME ContextIInv, finder # NULL, NEW r, GoodContext(r.context), Becomes(finder, r),
         UNCHANGED <<finder, current, held, rootlock, job, removed>>,
         \A n \in Projects : /\ n \in DOMAIN r.context.name <=> n \in DOMAIN Root.name
                             /\ n \in DOMAIN Root.name => r.context.name[n] = Root.name[n],
         \A n \in DOMAIN r.context.name : n \notin Projects => r.context.name[n] \in Addrs
  PROVE  ContextIInv'
<1>1. TypesOK /\ finder \in Block
  BY RootFacts DEF ContextIInv
<1>2. /\ context' \in [Block -> Context \cup {NULL}] /\ context'[finder] = r.context /\ context'[finder] # NULL
      /\ \A d \in Block : d # finder => context'[d] = context[d]
  BY <1>1, BecomesGives
<1>3. TypesOK'
  BY <1>1, <1>2 DEF TypesOK
<1>4. \A d \in Block : context'[d] # NULL => GoodContext(context'[d])
  BY <1>2 DEF ContextIInv
<1>5. Root' = r.context
  BY <1>2 DEF Root
<1>6. \A q \in Process : job'[q] # Idle => JobInv(q)'
  BY <1>5 DEF ContextIInv, JobInv
<1>7. InCalls' = InCalls
  BY NamedIs
<1>8. \A b \in Block : b \in Named' <=> b \in Named
  <2>1. \A b : b \in NamedIn(r.context.name) <=> b \in NamedIn(Root.name)
    BY NamedInMembers
  <2>2. Named' = NamedIn(r.context.name)
    BY <1>5, NamedIs
  <2> QED BY <2>1, <2>2, NamedIs
<1>9. RootInv'
  <2>1. RootInv
    BY RootFacts
  <2>2. Root' # NULL /\ finder' \notin InCalls' /\ finder' \notin removed'
    BY <2>1, <1>2, <1>5, <1>7 DEF RootInv
  <2>3. \A n \in DOMAIN Root'.name : Root'.name[n] \in IF n \in Projects THEN Block \ {finder'} ELSE Addrs
    BY <2>1, <1>5 DEF RootInv
  <2>4. \A p \in Process : current'[p] # finder' /\ held'[p] # finder'
    BY <2>1 DEF RootInv
  <2>5. \A b \in Block : context'[b] # NULL <=> context[b] # NULL
    BY <1>2, RootFacts DEF Root
  <2> QED BY <2>1, <2>2, <2>3, <2>4, <2>5, <1>7, <1>8 DEF RootInv
<1> QED BY <1>3, <1>4, <1>6, <1>9 DEF ContextIInv

LEMMA HandlesAre ==
  ASSUME ContextIInv, NEW p \in Process, NEW b \in Handles(p)
  PROVE  b \in Block /\ b # finder /\ context[b] # NULL /\ GoodContext(context[b]) /\ finder # NULL
<1>1. b # NULL /\ context[b] # NULL /\ b \in {current[p], held[p]}
  BY DEF Handles, IsContext
<1>2. b \in Block
  BY <1>1 DEF ContextIInv, TypesOK
<1>3. finder # NULL
  BY <1>1, <1>2 DEF ContextIInv, NoRoot
<1>4. b # finder
  BY <1>1, <1>3 DEF ContextIInv, RootInv
<1> QED BY <1>1, <1>2, <1>3, <1>4 DEF ContextIInv

LEMMA ValuesAre ==
  NULL \in Values /\ Addrs \subseteq Values /\ Block \subseteq Values /\ Projects \subseteq Names
BY ContextAssumption DEF Values

LEMMA ContextCallKeeps ==
  ASSUME ContextIInv, NEW p \in Process, ContextCall(p)
  PROVE  ContextIInv'
<1>1. PICK b \in Handles(p) :
         \/ \E name \in Names, value \in Addrs \cup {NULL} : AddName(p, b, name, value)
         \/ \E old, new \in Names, value \in Addrs : Rename(p, b, old, new, value)
         \/ \E name \in Names : RemoveByName(p, b, name)
         \/ \E value \in Addrs \cup {NULL} : RemoveByAddr(p, b, value)
  BY DEF ContextCall
<1>2. b \in Block /\ b # finder /\ context[b] # NULL /\ GoodContext(context[b])
  BY HandlesAre
<1>3. ASSUME NEW r, GoodContext(r.context), CallOn(p, b, r) PROVE ContextIInv'
  BY <1>2, <1>3, OtherContext DEF CallOn
<1>4. CASE \E name \in Names, value \in Addrs \cup {NULL} : AddName(p, b, name, value)
  <2>1. PICK name \in Names, value \in Addrs \cup {NULL} : AddName(p, b, name, value)
    BY <1>4
  <2>2. Added(SPHContextAddNameNoLock(context[b], name, value), context[b], name, value)
    BY <1>2, ValuesAre, AddNameGives
  <2> QED BY <2>1, <2>2, <1>3 DEF AddName, Added
<1>5. CASE \E old, new \in Names, value \in Addrs : Rename(p, b, old, new, value)
  <2>1. PICK old \in Names, new \in Names, value \in Addrs : Rename(p, b, old, new, value)
    BY <1>5
  <2>2. value \in Values /\ value # NULL
    BY ValuesAre, ContextAssumption
  <2>3. GoodContext(SPHContextRename(context[b], old, new, value).context)
    BY <1>2, <2>2, RenameGives
  <2> QED BY <2>1, <2>3, <1>3 DEF Rename
<1>6. CASE \E name \in Names : RemoveByName(p, b, name)
  <2>1. PICK name \in Names : RemoveByName(p, b, name)
    BY <1>6
  <2>2. GoodContext(SPHContextRemoveByNameNoLock(context[b], name).context)
    BY <1>2, RemoveByNameGives
  <2> QED BY <2>1, <2>2, <1>3 DEF RemoveByName
<1>7. CASE \E value \in Addrs \cup {NULL} : RemoveByAddr(p, b, value)
  <2>1. PICK value \in Addrs \cup {NULL} : RemoveByAddr(p, b, value)
    BY <1>7
  <2>2. GoodContext(SPHContextRemoveByAddrNoLock(context[b], value).context)
    BY <1>2, RemoveByAddrGives DEF Unnamed
  <2> QED BY <2>1, <2>2, <1>3 DEF RemoveByAddr
<1> QED BY <1>1, <1>4, <1>5, <1>6, <1>7

LEMMA RootCallKeeps ==
  ASSUME ContextIInv, NEW p \in Process, RootCall(p)
  PROVE  ContextIInv'
<1>1. finder # NULL
  BY DEF RootCall
<1>2. GoodContext(Root) /\ Root \in Context /\ \A n \in DOMAIN Root.name : n \notin Projects => Root.name[n] \in Addrs
  BY <1>1, RootFacts
<1>3. CASE \E name \in Names \ Projects, value \in Addrs : AddName(p, finder, name, value)
  <2>1. PICK name \in Names \ Projects, value \in Addrs : AddName(p, finder, name, value)
    BY <1>3
  <2>2. PICK r : r = SPHContextAddNameNoLock(Root, name, value)
    OBVIOUS
  <2>3. Added(r, Root, name, value)
    BY <1>2, <2>2, ValuesAre, AddNameGives
  <2>4. CallOn(p, finder, r)
    BY <2>1, <2>2 DEF AddName, Root
  <2>5. /\ \A n \in Projects : /\ n \in DOMAIN r.context.name <=> n \in DOMAIN Root.name
                               /\ n \in DOMAIN Root.name => r.context.name[n] = Root.name[n]
        /\ \A n \in DOMAIN r.context.name : n \notin Projects => r.context.name[n] \in Addrs
    <3>1. CASE r.context.name = Root.name
      BY <3>1, <1>2
    <3>2. CASE r.context.name = TreePut(Root.name, name, value)
      BY <3>2, <1>2 DEF TreePut
    <3> QED BY <3>1, <3>2, <2>3 DEF Added
  <2>6. GoodContext(r.context)
    BY <2>3 DEF Added
  <2> QED BY <1>1, <2>4, <2>5, <2>6, RootContext DEF CallOn
<1>4. CASE \E name \in Names \ Projects : RemoveByName(p, finder, name)
  <2>1. PICK name \in Names \ Projects : RemoveByName(p, finder, name)
    BY <1>4
  <2>2. PICK r : r = SPHContextRemoveByNameNoLock(Root, name)
    OBVIOUS
  <2>3. GoodContext(r.context) /\ (r.context = Root \/ r.context.name = TreeRemove(Root.name, name))
    BY <1>2, <2>2, RemoveByNameGives
  <2>4. CallOn(p, finder, r)
    BY <2>1, <2>2 DEF RemoveByName, Root
  <2>5. /\ \A n \in Projects : /\ n \in DOMAIN r.context.name <=> n \in DOMAIN Root.name
                               /\ n \in DOMAIN Root.name => r.context.name[n] = Root.name[n]
        /\ \A n \in DOMAIN r.context.name : n \notin Projects => r.context.name[n] \in Addrs
    <3>1. CASE r.context = Root
      BY <3>1, <1>2
    <3>2. CASE r.context.name = TreeRemove(Root.name, name)
      BY <3>2, <1>2 DEF TreeRemove, Restrict
    <3> QED BY <3>1, <3>2, <2>3
  <2> QED BY <1>1, <2>3, <2>4, <2>5, RootContext DEF CallOn
<1> QED BY <1>3, <1>4 DEF RootCall
(* A step that changes no context. *)
LEMMA ContextsStay ==
  ASSUME ContextIInv, finder # NULL, UNCHANGED <<context, finder, removed>>,
         current' \in [Process -> Block \cup {NULL}], held' \in [Process -> Block \cup {NULL}],
         rootlock' \in Process \cup {NULL}, job' \in [Process -> Jobs],
         \A q \in Process : current'[q] # finder /\ held'[q] # finder,
         \A b : b \in Calling(job') <=> b \in InCalls,
         \A q \in Process : job'[q] # Idle => JobInv(q)'
  PROVE  ContextIInv'
<1>1. TypesOK'
  BY DEF ContextIInv, TypesOK
<1>2. Named' = Named /\ \A b : b \in InCalls' <=> b \in InCalls
  BY NamedIs DEF Root
<1>3. RootInv'
  <2>1. RootInv
    BY RootFacts
  <2>2. Root' = Root
    BY DEF Root
  <2> QED BY <1>2, <2>1, <2>2 DEF RootInv
<1> QED BY <1>1, <1>3 DEF ContextIInv

LEMMA GetKeeps ==
  ASSUME ContextIInv, NEW p \in Process, NEW name \in Projects, GetProjectContextByName(p, name)
  PROVE  ContextIInv'
<1>1. finder # NULL /\ UNCHANGED <<context, finder, current, rootlock, job, removed>>
  BY DEF GetProjectContextByName
<1>2. PICK b : b = TreeGet(Root.name, name)
  OBVIOUS
<1>3. b \in Block \cup {NULL} /\ b # finder
  BY <1>1, <1>2, RootFacts
<1>4. held' = [held EXCEPT ![p] = b]
  BY <1>2 DEF GetProjectContextByName, SPHContextFindByNameNoLock, Root
<1>5. held' \in [Process -> Block \cup {NULL}] /\ \A q \in Process : current'[q] # finder /\ held'[q] # finder
  BY <1>1, <1>3, <1>4, RootFacts DEF RootInv, ContextIInv, TypesOK
<1>6. \A q \in Process : job'[q] # Idle => JobInv(q)'
  BY <1>1 DEF ContextIInv, JobInv, Root
<1>7. current' \in [Process -> Block \cup {NULL}] /\ rootlock' \in Process \cup {NULL} /\ job' \in [Process -> Jobs]
  BY <1>1 DEF ContextIInv, TypesOK
<1>8. \A b1 : b1 \in Calling(job') <=> b1 \in InCalls
  BY <1>1, InCallsIs
<1> QED BY <1>1, <1>5, <1>6, <1>7, <1>8, ContextsStay

LEMMA DestroyKeeps ==
  ASSUME ContextIInv, NEW p \in Process, NEW b \in Block, Destroy(p, b)
  PROVE  ContextIInv'
<1>1. TypesOK /\ b \in removed /\ removed' = removed \ {b} /\ UNCHANGED <<finder, current, held, rootlock, job>>
  BY DEF Destroy, ContextIInv
<1>2. finder # NULL
  BY <1>1 DEF ContextIInv, NoRoot
<1>3. b # finder
  BY <1>1, <1>2, RootFacts DEF RootInv
<1>4. /\ context' \in [Block -> Context \cup {NULL}] /\ context'[b] = NULL
      /\ \A d \in Block : d # b => context'[d] = context[d]
  BY <1>1, DestroyGives DEF Destroy
<1>5. TypesOK'
  BY <1>1, <1>4 DEF TypesOK
<1>6. \A d \in Block : context'[d] # NULL => GoodContext(context'[d])
  BY <1>4 DEF ContextIInv
<1>7. Root' = Root
  BY <1>1, <1>2, <1>3, <1>4, RootFacts DEF Root
<1>8. \A q \in Process : job'[q] # Idle => JobInv(q)'
  BY <1>1, <1>7 DEF ContextIInv, JobInv
<1>9. Named' = Named /\ InCalls' = InCalls
  BY <1>1, <1>7, NamedIs
<1>10. RootInv'
  <2>1. RootInv
    BY <1>2, RootFacts
  <2>2. \A d \in Block : context'[d] # NULL <=> d \in Named' \/ d \in InCalls' \/ d \in removed' \/ d = finder'
    <3> TAKE d \in Block
    <3>1. CASE d = b
      BY <3>1, <1>1, <1>3, <1>4, <1>9, <2>1 DEF RootInv
    <3>2. CASE d # b
      BY <3>2, <1>1, <1>4, <1>9, <2>1 DEF RootInv
    <3> QED BY <3>1, <3>2
  <2> QED BY <2>1, <2>2, <1>1, <1>7, <1>9 DEF RootInv
<1> QED BY <1>1, <1>2, <1>5, <1>6, <1>8, <1>10 DEF ContextIInv
LEMMA ProjectCallKeeps ==
  ASSUME ContextIInv, NEW p \in Process, NEW asked \in SetupCalls \cup RemoveCalls, NEW name \in Projects,
         ProjectCall(p, asked, name)
  PROVE  ContextIInv'
<1>1. TypesOK /\ rootlock = NULL /\ rootlock' = p /\ UNCHANGED <<current, held, removed>>
  BY DEF ProjectCall, ContextIInv
<1>2. InCalls = {} /\ \A q \in Process : job[q] = Idle
  BY <1>1, NobodyInCall
<1>3. /\ job' \in [Process -> Jobs] /\ \A q \in Process : q # p => job'[q] = Idle
      /\ job'[p].call = asked /\ job'[p].name = name /\ job'[p].step = "find"
  <2>1. [call |-> asked, name |-> name, step |-> "find", context |-> NULL] \in Jobs
    BY DEF Jobs, Steps
  <2> QED BY <2>1, <1>1, <1>2 DEF ProjectCall, TypesOK
<1>4. Calling(job') = {}
  BY <1>3, CallingMembers
<1>5. CASE asked \in SetupCalls /\ finder = NULL
  <2>1. NoRoot
    BY <1>5 DEF ContextIInv
  <2>2. 1 \in Block
    BY ContextAssumption DEF Block
  <2>3. PICK b : b = LowestFree
    OBVIOUS
  <2>4. b \in Block /\ context[b] = NULL
    BY <2>1, <2>2, <2>3, LowestFreeIs DEF FreeBlocks, NoRoot
  <2>5. finder' = b /\ context' = Created(context, b, RootSize)
    BY <1>5, <2>3 DEF ProjectCall
  <2>6. /\ context' \in [Block -> Context \cup {NULL}] /\ GoodContext(context'[b]) /\ context'[b] # NULL
        /\ DOMAIN context'[b].name = {}
        /\ \A d \in Block : d # b => context'[d] = NULL
    BY <1>1, <2>1, <2>4, <2>5, CreatedGives DEF NoRoot
  <2>7. TypesOK'
    BY <1>1, <1>3, <2>4, <2>5, <2>6 DEF TypesOK
  <2>8. \A d \in Block : context'[d] # NULL => GoodContext(context'[d])
    BY <2>6
  <2>9. Root' = context'[b] /\ InCalls' = {} /\ finder' # NULL
    BY <1>4, <2>4, <2>5, NamedIs, NullFacts
  <2>10. Named' = {}
    BY <2>5, <2>6, NamedIs, NamedInMembers
  <2>11. \A q \in Process : job'[q] # Idle => JobInv(q)'
    BY <1>1, <1>3, <1>5, <2>9 DEF JobInv
  <2>12. RootInv'
    BY <1>1, <2>1, <2>4, <2>5, <2>6, <2>9, <2>10, NullFacts DEF RootInv, NoRoot
  <2> QED BY <2>7, <2>8, <2>9, <2>11, <2>12 DEF ContextIInv
<1>6. CASE ~ (asked \in SetupCalls /\ finder = NULL)
  <2>1. UNCHANGED <<context, finder>>
    BY <1>6 DEF ProjectCall
  <2>2. \A q \in Process : job'[q] # Idle => JobInv(q)'
    BY <1>1, <1>3, <1>6, <2>1 DEF JobInv
  <2>3. CASE finder = NULL
    <3>1. TypesOK' /\ NoRoot'
      BY <1>1, <1>3, <2>1, <2>3 DEF TypesOK, NoRoot, ContextIInv
    <3> QED BY <2>1, <2>2, <2>3, <3>1 DEF ContextIInv
  <2>4. CASE finder # NULL
    <3>1. /\ current' \in [Process -> Block \cup {NULL}] /\ held' \in [Process -> Block \cup {NULL}]
          /\ rootlock' \in Process \cup {NULL}
      BY <1>1 DEF TypesOK
    <3>2. \A q \in Process : current'[q] # finder /\ held'[q] # finder
      BY <1>1, <2>4, RootFacts DEF RootInv
    <3>3. \A b : b \in Calling(job') <=> b \in InCalls
      BY <1>2, <1>4
    <3> QED BY <1>1, <1>3, <2>1, <2>2, <2>4, <3>1, <3>2, <3>3, ContextsStay
  <2> QED BY <2>3, <2>4
<1> QED BY <1>5, <1>6

(* Where a process is in its call. *)
LEMMA AtIs ==
  ASSUME ContextIInv, NEW p \in Process, NEW asked, NEW s \in Steps, At(p, asked, s)
  PROVE  /\ TypesOK /\ job[p] \in Jobs /\ job[p] # Idle /\ job[p].call \in asked /\ job[p].step = s
         /\ rootlock = p /\ JobInv(p) /\ job[p].name \in Projects
         /\ \A q \in Process : q # p => job[q] = Idle
         /\ \A b : b \in InCalls <=> s \in {"add", "undo", "destroy"} /\ b = job[p].context
<1>1. TypesOK /\ job[p] \in Jobs /\ job[p].call \in asked /\ job[p].step = s
  BY DEF At, ContextIInv, TypesOK
<1>2. job[p] # Idle
  BY <1>1, StepMeansCall
<1>3. /\ rootlock = p /\ JobInv(p) /\ \A q \in Process : q # p => job[q] = Idle
      /\ \A b : b \in InCalls <=> job[p].step \in {"add", "undo", "destroy"} /\ b = job[p].context
  BY <1>2, AloneInCall
<1>4. job[p].name \in Projects
  BY <1>3 DEF JobInv
<1> QED BY <1>1, <1>2, <1>3, <1>4

(* What a call that returns leaves. *)
LEMMA EndsLeaves ==
  ASSUME ContextIInv, NEW p \in Process, \A q \in Process : q # p => job[q] = Idle, Ends(p)
  PROVE  /\ job' \in [Process -> Jobs] /\ rootlock' = NULL /\ rootlock' \in Process \cup {NULL}
         /\ Calling(job') = {} /\ \A q \in Process : job'[q] = Idle
<1>1. job' \in [Process -> Jobs] /\ rootlock' = NULL /\ \A q \in Process : job'[q] = Idle
  BY EndsGives DEF ContextIInv
<1> QED BY <1>1, NobodyCalls

(* What a call that goes on leaves. *)
LEMMA GoesLeaves ==
  ASSUME ContextIInv, NEW p \in Process, \A q \in Process : q # p => job[q] = Idle,
         NEW s \in Steps, NEW b \in Block \cup {NULL}, Goes(p, s, b)
  PROVE  /\ job' \in [Process -> Jobs] /\ job'[p] # Idle
         /\ job'[p].call = job[p].call /\ job'[p].name = job[p].name /\ job'[p].step = s /\ job'[p].context = b
         /\ \A q \in Process : q # p => job'[q] = Idle
         /\ current' = current /\ held' = held /\ rootlock' = rootlock
         /\ \A d : d \in Calling(job') <=> s \in {"add", "undo", "destroy"} /\ d = b
<1>1. /\ job' \in [Process -> Jobs] /\ job'[p] # Idle
      /\ job'[p].call = job[p].call /\ job'[p].name = job[p].name /\ job'[p].step = s /\ job'[p].context = b
      /\ \A q \in Process : q # p => job'[q] = Idle
      /\ current' = current /\ held' = held /\ rootlock' = rootlock
  BY GoesGives DEF ContextIInv
<1> QED BY <1>1, CallingMembers

LEMMA SetupFindKeeps ==
  ASSUME ContextIInv, NEW p \in Process, SetupFind(p)
  PROVE  ContextIInv'
<1>1. At(p, SetupCalls, "find") /\ UNCHANGED <<context, finder, removed>>
  BY DEF SetupFind
<1>2. /\ TypesOK /\ job[p].call \in SetupCalls /\ rootlock = p /\ JobInv(p) /\ job[p].name \in Projects
      /\ \A q \in Process : q # p => job[q] = Idle
      /\ \A b : b \notin InCalls /\ job[p].step = "find"
  BY <1>1, AtIs DEF Steps
<1>3. finder # NULL
  BY <1>2 DEF JobInv, SetupCalls, RemoveCalls
<1>4. PICK found : found = TreeGet(Root.name, job[p].name)
  OBVIOUS
<1>5. IF found # NULL THEN SetupReturns(p, found) ELSE Goes(p, "create", NULL)
  BY <1>4 DEF SetupFind, SPHContextFindByNameNoLock, Root
<1>6. /\ found = NULL => job[p].name \notin DOMAIN Root.name
      /\ found # NULL => found \in Block /\ found # finder
  BY <1>2, <1>3, <1>4, RootFacts
<1>7. \A q \in Process : current[q] # finder /\ held[q] # finder
  BY <1>3, RootFacts DEF RootInv
<1>8. CASE found # NULL
  <2>1. SetupReturns(p, found) /\ found \in Block /\ found # finder
    BY <1>5, <1>6, <1>8
  <2>2. /\ Ends(p) /\ current' \in [Process -> Block \cup {NULL}] /\ held' \in [Process -> Block \cup {NULL}]
        /\ \A q \in Process : current'[q] # finder /\ held'[q] # finder
    BY <1>2, <1>7, <2>1, SetupReturnsGives
  <2>3. /\ job' \in [Process -> Jobs] /\ rootlock' \in Process \cup {NULL}
        /\ Calling(job') = {} /\ \A q \in Process : job'[q] = Idle
    BY <1>2, <2>2, EndsLeaves
  <2> QED BY <1>1, <1>2, <1>3, <2>2, <2>3, ContextsStay
<1>9. CASE found = NULL
  <2>1. Goes(p, "create", NULL)
    BY <1>5, <1>9
  <2>2. /\ job' \in [Process -> Jobs] /\ job'[p].call = job[p].call /\ job'[p].name = job[p].name
        /\ job'[p].step = "create" /\ \A q \in Process : q # p => job'[q] = Idle
        /\ current' = current /\ held' = held /\ rootlock' = rootlock
        /\ \A d : d \notin Calling(job')
    BY <1>2, <2>1, GoesLeaves DEF Steps
  <2>3. \A q \in Process : job'[q] # Idle => JobInv(q)'
    BY <1>1, <1>2, <1>3, <1>6, <1>9, <2>2 DEF JobInv, Root
  <2>4. /\ current' \in [Process -> Block \cup {NULL}] /\ held' \in [Process -> Block \cup {NULL}]
        /\ rootlock' \in Process \cup {NULL} /\ \A q \in Process : current'[q] # finder /\ held'[q] # finder
    BY <1>2, <1>7, <2>2 DEF TypesOK
  <2> QED BY <1>1, <1>2, <1>3, <2>2, <2>3, <2>4, ContextsStay
<1> QED BY <1>8, <1>9
LEMMA SetupCreateKeeps ==
  ASSUME ContextIInv, NEW p \in Process, SetupCreate(p)
  PROVE  ContextIInv'
<1>1. At(p, SetupCalls, "create") /\ UNCHANGED <<finder, removed>>
  BY DEF SetupCreate
<1>2. /\ TypesOK /\ job[p].call \in SetupCalls /\ rootlock = p /\ JobInv(p) /\ job[p].name \in Projects
      /\ \A q \in Process : q # p => job[q] = Idle
      /\ \A b : b \notin InCalls /\ job[p].step = "create"
  BY <1>1, AtIs DEF Steps
<1>3. finder # NULL /\ job[p].name \notin DOMAIN Root.name
  BY <1>2 DEF JobInv
<1>4. /\ RootInv /\ \A q \in Process : current[q] # finder /\ held[q] # finder
      /\ finder \in Block /\ context[finder] # NULL /\ finder # NULL
  BY <1>3, RootFacts DEF RootInv, Root
<1>5. CASE FreeBlocks = {}
  <2>1. SetupReturns(p, NULL) /\ UNCHANGED context
    BY <1>5 DEF SetupCreate
  <2>2. /\ Ends(p) /\ current' \in [Process -> Block \cup {NULL}] /\ held' \in [Process -> Block \cup {NULL}]
        /\ \A q \in Process : current'[q] # finder /\ held'[q] # finder
    BY <1>2, <1>4, <2>1, SetupReturnsGives
  <2>3. /\ job' \in [Process -> Jobs] /\ rootlock' \in Process \cup {NULL}
        /\ Calling(job') = {} /\ \A q \in Process : job'[q] = Idle
    BY <1>2, <2>2, EndsLeaves
  <2> QED BY <1>1, <1>2, <1>3, <2>1, <2>2, <2>3, ContextsStay
<1>6. CASE FreeBlocks # {}
  <2>1. PICK b : b = LowestFree
    OBVIOUS
  <2>2. b \in Block /\ context[b] = NULL /\ b # finder
    BY <1>4, <1>6, <2>1, LowestFreeIs
  <2>3. Goes(p, "add", b) /\ context' = Created(context, b, ProjectSize)
    BY <1>6, <2>1 DEF SetupCreate
  <2>4. /\ context' \in [Block -> Context \cup {NULL}] /\ GoodContext(context'[b]) /\ context'[b] # NULL
        /\ \A d \in Block : d # b => context'[d] = context[d]
    BY <1>2, <2>2, <2>3, CreatedGives
  <2>5. /\ job' \in [Process -> Jobs] /\ job'[p].call = job[p].call /\ job'[p].name = job[p].name
        /\ job'[p].step = "add" /\ job'[p].context = b /\ \A q \in Process : q # p => job'[q] = Idle
        /\ current' = current /\ held' = held /\ rootlock' = rootlock
        /\ \A d : d \in Calling(job') <=> d = b
    BY <1>2, <2>2, <2>3, GoesLeaves DEF Steps
  <2>6. TypesOK'
    BY <1>1, <1>2, <2>4, <2>5 DEF TypesOK
  <2>7. \A d \in Block : context'[d] # NULL => GoodContext(context'[d])
    BY <2>4 DEF ContextIInv
  <2>8. Root' = Root
    BY <1>1, <1>4, <2>2, <2>4 DEF Root
  <2>9. \A q \in Process : job'[q] # Idle => JobInv(q)'
    BY <1>1, <1>2, <1>3, <2>2, <2>5, <2>8 DEF JobInv
  <2>10. Named' = Named /\ \A d : d \in InCalls' <=> d = b
    BY <2>5, <2>8, NamedIs
  <2>11. RootInv'
    <3>1. b \notin Named /\ b \notin removed
      BY <1>4, <2>2 DEF RootInv
    <3>2. \A d \in Block : context'[d] # NULL <=> d \in Named' \/ d \in InCalls' \/ d \in removed' \/ d = finder'
      <4> TAKE d \in Block
      <4>1. CASE d = b
        BY <4>1, <2>4, <2>10
      <4>2. CASE d # b
        <5>1. context'[d] = context[d] /\ d \notin InCalls' /\ d \notin InCalls
          BY <4>2, <1>2, <2>4, <2>10
        <5> QED BY <5>1, <1>1, <1>4, <2>10 DEF RootInv
      <4> QED BY <4>1, <4>2
    <3> QED BY <3>1, <3>2, <1>1, <1>2, <1>4, <2>2, <2>5, <2>8, <2>10 DEF RootInv
  <2> QED BY <1>1, <1>3, <2>6, <2>7, <2>9, <2>11 DEF ContextIInv
<1> QED BY <1>5, <1>6

LEMMA SetupAddKeeps ==
  ASSUME ContextIInv, NEW p \in Process, SetupAdd(p)
  PROVE  ContextIInv'
<1>1. At(p, SetupCalls, "add") /\ UNCHANGED <<finder, removed>>
  BY DEF SetupAdd
<1> DEFINE name == job[p].name
           b == job[p].context
<1>2. /\ TypesOK /\ job[p].call \in SetupCalls /\ rootlock = p /\ JobInv(p) /\ name \in Projects
      /\ \A q \in Process : q # p => job[q] = Idle
      /\ \A d : d \in InCalls <=> d = b /\ job[p].step = "add"
  BY <1>1, AtIs DEF Steps
<1>3. finder # NULL /\ name \notin DOMAIN Root.name /\ b \in Block /\ job[p].step = "add"
  <2>1. job[p].step = "add"
    BY <1>1 DEF At
  <2> QED BY <1>2, <2>1 DEF JobInv
<1>4. /\ RootInv /\ \A q \in Process : current[q] # finder /\ held[q] # finder
      /\ finder \in Block /\ context[finder] # NULL /\ GoodContext(Root)
      /\ \A n \in DOMAIN Root.name : n \in Projects => Root.name[n] \in Block \ {finder}
      /\ \A n \in DOMAIN Root.name : n \notin Projects => Root.name[n] \in Addrs
  BY <1>3, RootFacts DEF RootInv, Root
<1>5. b # finder /\ context[b] # NULL /\ b \notin removed /\ b \notin Named
  BY <1>2, <1>3, <1>4 DEF RootInv
<1>6. PICK r : r = SPHContextAddNameNoLock(Root, name, b)
  OBVIOUS
<1>7. Added(r, Root, name, b)
  BY <1>2, <1>3, <1>4, <1>6, ValuesAre, AddNameGives
<1>8. Becomes(finder, r) /\ IF r.ok THEN SetupReturns(p, b) ELSE Goes(p, "undo", b)
  BY <1>6 DEF SetupAdd, Root
<1>9. /\ context' \in [Block -> Context \cup {NULL}] /\ context'[finder] = r.context /\ context'[finder] # NULL
      /\ \A d \in Block : d # finder => context'[d] = context[d]
  BY <1>2, <1>4, <1>7, <1>8, BecomesGives DEF Added
<1>10. \A d \in Block : context'[d] # NULL => GoodContext(context'[d])
  BY <1>7, <1>9 DEF ContextIInv, Added
<1>11. Root' = r.context /\ Root' # NULL
  BY <1>1, <1>9 DEF Root
<1>12. \A d \in Block : context'[d] # NULL <=> context[d] # NULL
  BY <1>4, <1>9
<1> HIDE DEF name, b
<1>13. CASE r.ok = TRUE
  <2>1. SetupReturns(p, b) /\ r.context.name = TreePut(Root.name, name, b)
    BY <1>7, <1>8, <1>13 DEF Added
  <2>2. /\ Ends(p) /\ current' \in [Process -> Block \cup {NULL}] /\ held' \in [Process -> Block \cup {NULL}]
        /\ \A q \in Process : current'[q] # finder /\ held'[q] # finder
    BY <1>2, <1>3, <1>4, <1>5, <2>1, SetupReturnsGives
  <2>3. /\ job' \in [Process -> Jobs] /\ rootlock' \in Process \cup {NULL}
        /\ Calling(job') = {} /\ \A q \in Process : job'[q] = Idle
    BY <1>2, <2>2, EndsLeaves
  <2>4. TypesOK'
    BY <1>1, <1>2, <1>9, <2>2, <2>3 DEF TypesOK
  <2>5. InCalls' = {}
    BY <2>3, NamedIs
  <2>6. /\ DOMAIN Root'.name = DOMAIN Root.name \cup {name} /\ Root'.name[name] = b
        /\ \A n \in DOMAIN Root.name : Root'.name[n] = Root.name[n]
    BY <1>3, <1>11, <2>1 DEF TreePut
  <2>7. \A d : d \in Named' <=> d \in Named \/ d = b
    <3>1. \A d : d \in Named' <=> d \in Block /\ \E n \in Projects : n \in DOMAIN Root'.name /\ Root'.name[n] = d
      BY NamedIs, NamedInMembers
    <3>2. \A d : d \in Named <=> d \in Block /\ \E n \in Projects : n \in DOMAIN Root.name /\ Root.name[n] = d
      BY NamedIs, NamedInMembers
    <3>3. \A n \in DOMAIN Root.name : n \in DOMAIN Root'.name /\ n # name
      BY <1>3, <2>6
    <3> QED BY <3>1, <3>2, <3>3, <1>2, <1>3, <2>6
  <2>8. RootInv'
    <3>1. \A n \in DOMAIN Root'.name : Root'.name[n] \in IF n \in Projects THEN Block \ {finder} ELSE Addrs
      BY <1>2, <1>3, <1>4, <1>5, <2>6
    <3>2. \A d \in Block : context'[d] # NULL <=> d \in Named' \/ d \in InCalls' \/ d \in removed' \/ d = finder'
      BY <1>1, <1>2, <1>3, <1>4, <1>12, <2>5, <2>7 DEF RootInv
    <3>3. \A d \in Block : ~ (d \in Named' /\ d \in removed')
      BY <1>1, <1>4, <1>5, <2>7 DEF RootInv
    <3> QED BY <3>1, <3>2, <3>3, <1>1, <1>4, <1>11, <2>2, <2>5 DEF RootInv
  <2> QED BY <1>1, <1>3, <1>10, <2>3, <2>4, <2>8 DEF ContextIInv
<1>14. CASE r.ok = FALSE
  <2>1. Goes(p, "undo", b) /\ r.context.name = Root.name
    BY <1>7, <1>8, <1>14 DEF Added
  <2>2. /\ job' \in [Process -> Jobs] /\ job'[p].call = job[p].call /\ job'[p].name = name
        /\ job'[p].step = "undo" /\ job'[p].context = b /\ \A q \in Process : q # p => job'[q] = Idle
        /\ current' = current /\ held' = held /\ rootlock' = rootlock
        /\ \A d : d \in Calling(job') <=> d = b
    BY <1>2, <1>3, <2>1, GoesLeaves DEF Steps, name
  <2>3. TypesOK'
    BY <1>1, <1>2, <1>9, <2>2 DEF TypesOK
  <2>4. Named' = Named /\ \A d : d \in InCalls' <=> d \in InCalls
    <3>1. Root'.name = Root.name
      BY <1>11, <2>1
    <3> QED BY <3>1, <1>2, <1>3, <2>2, NamedIs
  <2>5. \A q \in Process : job'[q] # Idle => JobInv(q)'
    BY <1>1, <1>2, <1>3, <2>2 DEF JobInv
  <2>6. RootInv'
    <3>1. \A n \in DOMAIN Root'.name : Root'.name[n] \in IF n \in Projects THEN Block \ {finder} ELSE Addrs
      BY <1>4, <1>11, <2>1
    <3> QED BY <3>1, <1>1, <1>4, <1>11, <1>12, <2>2, <2>4 DEF RootInv
  <2> QED BY <1>1, <1>3, <1>10, <2>3, <2>5, <2>6 DEF ContextIInv
<1> QED BY <1>7, <1>13, <1>14 DEF Added

(* A call that destroys the context it had, and returns. *)
LEMMA CallDestroys ==
  ASSUME ContextIInv, finder # NULL, UNCHANGED <<finder, removed>>,
         NEW p \in Process, \A q \in Process : q # p => job[q] = Idle, Ends(p),
         NEW b \in Block, \A d : d \in InCalls <=> d = b, SPHContextDestroy(b),
         current' \in [Process -> Block \cup {NULL}], held' \in [Process -> Block \cup {NULL}],
         \A q \in Process : current'[q] # finder /\ held'[q] # finder
  PROVE  ContextIInv'
<1>1. TypesOK
  BY DEF ContextIInv
<1>2. RootInv /\ finder \in Block /\ b # finder
  BY RootFacts DEF RootInv
<1>3. /\ context' \in [Block -> Context \cup {NULL}] /\ context'[b] = NULL
      /\ \A d \in Block : d # b => context'[d] = context[d]
  BY <1>1, DestroyGives
<1>4. /\ job' \in [Process -> Jobs] /\ rootlock' \in Process \cup {NULL}
      /\ Calling(job') = {} /\ \A q \in Process : job'[q] = Idle
  BY EndsLeaves
<1>5. TypesOK'
  BY <1>1, <1>3, <1>4 DEF TypesOK
<1>6. \A d \in Block : context'[d] # NULL => GoodContext(context'[d])
  BY <1>3 DEF ContextIInv
<1>7. Root' = Root
  BY <1>2, <1>3 DEF Root
<1>8. Named' = Named /\ InCalls' = {}
  BY <1>4, <1>7, NamedIs
<1>9. RootInv'
  <2>1. \A d \in Block : context'[d] # NULL <=> d \in Named' \/ d \in InCalls' \/ d \in removed' \/ d = finder'
    <3> TAKE d \in Block
    <3>1. CASE d = b
      BY <3>1, <1>2, <1>3, <1>8 DEF RootInv
    <3>2. CASE d # b
      BY <3>2, <1>2, <1>3, <1>8 DEF RootInv
    <3> QED BY <3>1, <3>2
  <2> QED BY <2>1, <1>2, <1>7, <1>8 DEF RootInv
<1> QED BY <1>4, <1>5, <1>6, <1>9 DEF ContextIInv

LEMMA SetupUndoKeeps ==
  ASSUME ContextIInv, NEW p \in Process, SetupUndo(p)
  PROVE  ContextIInv'
<1>1. At(p, SetupCalls, "undo") /\ UNCHANGED <<finder, removed>>
  BY DEF SetupUndo
<1> DEFINE b == job[p].context
<1>2. /\ TypesOK /\ rootlock = p /\ JobInv(p) /\ job[p].step = "undo"
      /\ \A q \in Process : q # p => job[q] = Idle
      /\ \A d : d \in InCalls <=> d = b
  BY <1>1, AtIs DEF Steps
<1>3. finder # NULL /\ b \in Block
  BY <1>2 DEF JobInv
<1>4. SPHContextDestroy(b) /\ SetupReturns(p, NULL)
  BY DEF SetupUndo
<1> HIDE DEF b
<1>5. /\ Ends(p) /\ current' \in [Process -> Block \cup {NULL}] /\ held' \in [Process -> Block \cup {NULL}]
      /\ \A q \in Process : current'[q] # finder /\ held'[q] # finder
  BY <1>2, <1>3, <1>4, RootFacts, SetupReturnsGives DEF RootInv
<1> QED BY <1>1, <1>2, <1>3, <1>4, <1>5, CallDestroys
LEMMA RemoveFindKeeps ==
  ASSUME ContextIInv, NEW p \in Process, RemoveFind(p)
  PROVE  ContextIInv'
<1>1. At(p, RemoveCalls, "find") /\ UNCHANGED <<context, finder, removed>>
  BY DEF RemoveFind
<1>2. /\ TypesOK /\ job[p].call \in RemoveCalls /\ rootlock = p /\ JobInv(p) /\ job[p].name \in Projects
      /\ \A q \in Process : q # p => job[q] = Idle
      /\ \A b : b \notin InCalls
  BY <1>1, AtIs DEF Steps
<1>3. PICK found : found = IF finder = NULL THEN NULL ELSE TreeGet(Root.name, job[p].name)
  OBVIOUS
<1>4. IF found # NULL THEN Goes(p, "remove", found) ELSE Ends(p) /\ UNCHANGED <<current, held>>
  BY <1>3 DEF RemoveFind, SPHContextFindByNameNoLock, Root
<1>5. CASE found # NULL
  <2>1. finder # NULL /\ found = TreeGet(Root.name, job[p].name) /\ Goes(p, "remove", found)
    BY <1>3, <1>4, <1>5
  <2>2. found \in Block /\ job[p].name \in DOMAIN Root.name /\ Root.name[job[p].name] = found
    BY <1>2, <1>5, <2>1, RootFacts
  <2>3. /\ job' \in [Process -> Jobs] /\ job'[p].call = job[p].call /\ job'[p].name = job[p].name
        /\ job'[p].step = "remove" /\ job'[p].context = found /\ \A q \in Process : q # p => job'[q] = Idle
        /\ current' = current /\ held' = held /\ rootlock' = rootlock
        /\ \A d : d \notin Calling(job')
    BY <1>2, <2>1, <2>2, GoesLeaves DEF Steps
  <2>4. \A q \in Process : job'[q] # Idle => JobInv(q)'
    BY <1>1, <1>2, <2>1, <2>2, <2>3 DEF JobInv, Root
  <2>5. /\ current' \in [Process -> Block \cup {NULL}] /\ held' \in [Process -> Block \cup {NULL}]
        /\ rootlock' \in Process \cup {NULL} /\ \A q \in Process : current'[q] # finder /\ held'[q] # finder
    BY <1>2, <2>1, <2>3, RootFacts DEF TypesOK, RootInv
  <2> QED BY <1>1, <1>2, <2>1, <2>3, <2>4, <2>5, ContextsStay
<1>6. CASE found = NULL
  <2>1. Ends(p) /\ UNCHANGED <<current, held>>
    BY <1>4, <1>6
  <2>2. /\ job' \in [Process -> Jobs] /\ rootlock' \in Process \cup {NULL}
        /\ Calling(job') = {} /\ \A q \in Process : job'[q] = Idle
    BY <1>2, <2>1, EndsLeaves
  <2>3. CASE finder # NULL
    <3>1. /\ current' \in [Process -> Block \cup {NULL}] /\ held' \in [Process -> Block \cup {NULL}]
          /\ \A q \in Process : current'[q] # finder /\ held'[q] # finder
      BY <1>2, <2>1, <2>3, RootFacts DEF TypesOK, RootInv
    <3> QED BY <1>1, <1>2, <2>2, <2>3, <3>1, ContextsStay
  <2>4. CASE finder = NULL
    <3>1. TypesOK' /\ NoRoot'
      BY <1>1, <1>2, <2>1, <2>2, <2>4 DEF TypesOK, NoRoot, ContextIInv
    <3> QED BY <1>1, <2>2, <2>4, <3>1 DEF ContextIInv
  <2> QED BY <2>3, <2>4
<1> QED BY <1>5, <1>6

LEMMA RemoveRemoveKeeps ==
  ASSUME ContextIInv, NEW p \in Process, RemoveRemove(p)
  PROVE  ContextIInv'
<1>1. At(p, RemoveCalls, "remove") /\ UNCHANGED finder
  BY DEF RemoveRemove
<1> DEFINE name == job[p].name
           b == job[p].context
<1>2. /\ TypesOK /\ job[p].call \in RemoveCalls /\ rootlock = p /\ JobInv(p) /\ name \in Projects
      /\ \A q \in Process : q # p => job[q] = Idle
      /\ \A d : d \notin InCalls
  BY <1>1, AtIs DEF Steps
<1>3. finder # NULL /\ name \in DOMAIN Root.name /\ Root.name[name] = b
  <2>1. job[p].step = "remove"
    BY <1>1 DEF At
  <2> QED BY <1>2, <2>1 DEF JobInv
<1>4. /\ RootInv /\ \A q \in Process : current[q] # finder /\ held[q] # finder
      /\ finder \in Block /\ context[finder] # NULL /\ GoodContext(Root)
      /\ \A n \in DOMAIN Root.name : n \in Projects => Root.name[n] \in Block \ {finder}
      /\ \A n \in DOMAIN Root.name : n \notin Projects => Root.name[n] \in Addrs
  BY <1>3, RootFacts DEF RootInv, Root
<1>5. b \in Block /\ b # finder /\ b # NULL
  BY <1>2, <1>3, <1>4, NullFacts
<1>6. PICK r : r = SPHContextRemoveByNameNoLock(Root, name)
  OBVIOUS
<1>7. GoodContext(r.context) /\ r.ok = TRUE /\ r.context.name = TreeRemove(Root.name, name)
  BY <1>2, <1>3, <1>4, <1>5, <1>6, ValuesAre, RemoveByNameGives
<1>8. /\ Becomes(finder, r)
      /\ IF job[p].call = "destroy" THEN Goes(p, "destroy", b) /\ UNCHANGED removed
         ELSE Ends(p) /\ Forgets(p, b) /\ held' = [held EXCEPT ![p] = b] /\ removed' = removed \cup {b}
  BY <1>6, <1>7 DEF RemoveRemove, Root
<1>9. /\ context' \in [Block -> Context \cup {NULL}] /\ context'[finder] = r.context /\ context'[finder] # NULL
      /\ \A d \in Block : d # finder => context'[d] = context[d]
  BY <1>2, <1>4, <1>7, <1>8, BecomesGives
<1>10. \A d \in Block : context'[d] # NULL => GoodContext(context'[d])
  BY <1>7, <1>9 DEF ContextIInv
<1>11. Root' = r.context /\ Root' # NULL
  BY <1>1, <1>9 DEF Root
<1>12. \A d \in Block : context'[d] # NULL <=> context[d] # NULL
  BY <1>4, <1>9
<1> HIDE DEF name, b
<1>13. /\ DOMAIN Root'.name = DOMAIN Root.name \ {name}
       /\ \A n \in DOMAIN Root'.name : Root'.name[n] = Root.name[n]
  BY <1>7, <1>11 DEF TreeRemove, Restrict
<1>14. b \in Named /\ \A d : d \in Named' <=> d \in Named /\ d # b
  <2>1. \A d : d \in Named' <=> d \in Block /\ \E n \in Projects : n \in DOMAIN Root'.name /\ Root'.name[n] = d
    BY NamedIs, NamedInMembers
  <2>2. \A d : d \in Named <=> d \in Block /\ \E n \in Projects : n \in DOMAIN Root.name /\ Root.name[n] = d
    BY NamedIs, NamedInMembers
  <2>3. \A n \in DOMAIN Root.name : Root.name[n] = b => n = name
    BY <1>3, <1>4, Associated
  <2> QED BY <2>1, <2>2, <2>3, <1>2, <1>3, <1>5, <1>13
<1>15. \A n \in DOMAIN Root'.name : Root'.name[n] \in IF n \in Projects THEN Block \ {finder} ELSE Addrs
  BY <1>4, <1>13
<1>16. context[b] # NULL /\ b \notin removed
  BY <1>4, <1>5, <1>14 DEF RootInv
<1>17. CASE job[p].call = "destroy"
  <2>1. Goes(p, "destroy", b) /\ UNCHANGED removed
    BY <1>8, <1>17
  <2>2. /\ job' \in [Process -> Jobs] /\ job'[p].call = job[p].call /\ job'[p].name = name
        /\ job'[p].step = "destroy" /\ job'[p].context = b /\ \A q \in Process : q # p => job'[q] = Idle
        /\ current' = current /\ held' = held /\ rootlock' = rootlock
        /\ \A d : d \in Calling(job') <=> d = b
    BY <1>2, <1>5, <2>1, GoesLeaves DEF Steps, name
  <2>3. TypesOK'
    BY <1>1, <1>2, <1>9, <2>1, <2>2 DEF TypesOK
  <2>4. \A d : d \in InCalls' <=> d = b
    BY <2>2, NamedIs
  <2>5. \A q \in Process : job'[q] # Idle => JobInv(q)'
    BY <1>1, <1>2, <1>3, <1>5, <2>2 DEF JobInv
  <2>6. RootInv'
    <3>1. \A d \in Block : context'[d] # NULL <=> d \in Named' \/ d \in InCalls' \/ d \in removed' \/ d = finder'
      BY <1>1, <1>2, <1>4, <1>12, <1>14, <1>16, <2>1, <2>4 DEF RootInv
    <3>2. \A d \in Block : /\ ~ (d \in Named' /\ d \in InCalls')
                           /\ ~ (d \in Named' /\ d \in removed')
                           /\ ~ (d \in InCalls' /\ d \in removed')
      BY <1>4, <1>14, <1>16, <2>1, <2>4 DEF RootInv
    <3> QED BY <3>1, <3>2, <1>1, <1>4, <1>5, <1>11, <1>15, <2>1, <2>2, <2>4 DEF RootInv
  <2> QED BY <1>1, <1>3, <1>10, <2>3, <2>5, <2>6 DEF ContextIInv
<1>18. CASE job[p].call # "destroy"
  <2>1. Ends(p) /\ Forgets(p, b) /\ held' = [held EXCEPT ![p] = b] /\ removed' = removed \cup {b}
    BY <1>8, <1>18
  <2>2. /\ current' \in [Process -> Block \cup {NULL}] /\ held' \in [Process -> Block \cup {NULL}]
        /\ \A q \in Process : current'[q] # finder /\ held'[q] # finder
    <3>1. current' \in [Process -> Block \cup {NULL}] /\ \A q \in Process : current'[q] \in {current[q], NULL}
      BY <1>2, <2>1, ForgetsGives
    <3>2. held' \in [Process -> Block \cup {NULL}] /\ \A q \in Process : held'[q] \in {held[q], b}
      BY <1>2, <1>5, <2>1 DEF TypesOK
    <3> QED BY <3>1, <3>2, <1>3, <1>4, <1>5
  <2>3. /\ job' \in [Process -> Jobs] /\ rootlock' \in Process \cup {NULL}
        /\ Calling(job') = {} /\ \A q \in Process : job'[q] = Idle
    BY <1>2, <2>1, EndsLeaves
  <2>4. TypesOK'
    BY <1>1, <1>2, <1>5, <1>9, <2>1, <2>2, <2>3 DEF TypesOK
  <2>5. InCalls' = {}
    BY <2>3, NamedIs
  <2>6. RootInv'
    <3>1. \A d \in Block : context'[d] # NULL <=> d \in Named' \/ d \in InCalls' \/ d \in removed' \/ d = finder'
      BY <1>1, <1>2, <1>4, <1>12, <1>14, <1>16, <2>1, <2>5 DEF RootInv
    <3>2. \A d \in Block : /\ ~ (d \in Named' /\ d \in InCalls')
                           /\ ~ (d \in Named' /\ d \in removed')
                           /\ ~ (d \in InCalls' /\ d \in removed')
      BY <1>4, <1>14, <1>16, <2>1, <2>5 DEF RootInv
    <3> QED BY <3>1, <3>2, <1>1, <1>4, <1>5, <1>11, <1>15, <2>1, <2>2, <2>5 DEF RootInv
  <2> QED BY <1>1, <1>3, <1>10, <2>3, <2>4, <2>6 DEF ContextIInv
<1> QED BY <1>17, <1>18

LEMMA DestroyDestroyKeeps ==
  ASSUME ContextIInv, NEW p \in Process, DestroyDestroy(p)
  PROVE  ContextIInv'
<1>1. At(p, RemoveCalls, "destroy") /\ UNCHANGED <<finder, held, removed>>
  BY DEF DestroyDestroy
<1> DEFINE b == job[p].context
<1>2. /\ TypesOK /\ rootlock = p /\ JobInv(p) /\ job[p].step = "destroy"
      /\ \A q \in Process : q # p => job[q] = Idle
      /\ \A d : d \in InCalls <=> d = b
  BY <1>1, AtIs DEF Steps
<1>3. finder # NULL /\ b \in Block
  BY <1>2 DEF JobInv
<1>4. SPHContextDestroy(b) /\ Ends(p) /\ Forgets(p, b)
  BY DEF DestroyDestroy
<1> HIDE DEF b
<1>5. current' \in [Process -> Block \cup {NULL}] /\ \A q \in Process : current'[q] \in {current[q], NULL}
  BY <1>2, <1>4, ForgetsGives
<1>6. held' \in [Process -> Block \cup {NULL}] /\ \A q \in Process : current'[q] # finder /\ held'[q] # finder
  BY <1>1, <1>2, <1>3, <1>5, RootFacts DEF RootInv, TypesOK
<1> QED BY <1>1, <1>2, <1>3, <1>4, <1>5, <1>6, CallDestroys

LEMMA NextKeeps ==
  ASSUME ContextIInv, [Next]_vars
  PROVE  ContextIInv'
<1>1. CASE UNCHANGED vars
  <2>1. UNCHANGED <<context, finder, current, held, rootlock, job, removed>>
    BY <1>1 DEF vars
  <2>2. TypesOK' /\ Root' = Root /\ Named' = Named /\ InCalls' = InCalls
    BY <2>1 DEF ContextIInv, TypesOK, Root, Named, InCalls
  <2>3. \A q \in Process : job'[q] # Idle => JobInv(q)'
    BY <2>1, <2>2 DEF ContextIInv, JobInv
  <2>4. CASE finder = NULL
    <3>1. NoRoot'
      BY <2>1, <2>4 DEF NoRoot, ContextIInv
    <3> QED BY <2>1, <2>2, <2>3, <2>4, <3>1 DEF ContextIInv
  <2>5. CASE finder # NULL
    <3>1. RootInv'
      BY <2>1, <2>2, <2>5 DEF RootInv, ContextIInv
    <3> QED BY <2>1, <2>2, <2>3, <2>5, <3>1 DEF ContextIInv
  <2> QED BY <2>4, <2>5
<1>2. CASE Next
  <2>1. PICK p \in Process :
          \/ ContextCall(p)
          \/ RootCall(p)
          \/ \E asked \in SetupCalls \cup RemoveCalls, name \in Projects : ProjectCall(p, asked, name)
          \/ SetupFind(p) \/ SetupCreate(p) \/ SetupAdd(p) \/ SetupUndo(p)
          \/ RemoveFind(p) \/ RemoveRemove(p) \/ DestroyDestroy(p)
          \/ \E name \in Projects : GetProjectContextByName(p, name)
          \/ \E b \in Block : Destroy(p, b)
    BY <1>2 DEF Next
  <2> QED BY <2>1, ContextCallKeeps, RootCallKeeps, ProjectCallKeeps, SetupFindKeeps, SetupCreateKeeps, SetupAddKeeps,
             SetupUndoKeeps, RemoveFindKeeps, RemoveRemoveKeeps, DestroyDestroyKeeps, GetKeeps, DestroyKeeps
<1> QED BY <1>1, <1>2

(* Types, sound contexts, and what a project call found out or did until its next step
   (sphcontext.cpp: SPHSetupProjectContext, SPHRemoveProjectContext, SPHDestroyProjectContext). *)
THEOREM ContextInvariant == Spec => []ContextIInv
<1>1. Init => ContextIInv
  BY InitHolds
<1>2. ContextIInv /\ [Next]_vars => ContextIInv'
  BY NextKeeps
<1> QED BY <1>1, <1>2, PTL DEF Spec

LEMMA InvariantMeans ==
  ASSUME ContextIInv
  PROVE  ContextInv
<1>1. \A b \in Block : context[b] # NULL => TreesAgree(context[b]) /\ CopiesApart(context[b])
  BY DEF ContextIInv, GoodContext
<1>2. ASSUME finder # NULL
      PROVE  /\ Named \cup InCalls \cup removed \cup {finder} = Block \ FreeBlocks
             /\ Named \cap InCalls = {} /\ (Named \cup InCalls) \cap removed = {}
             /\ \A n \in Projects \cap DOMAIN context[finder].name : context[finder].name[n] \in Block \ {finder}
  <2>1. RootInv /\ finder \in Block /\ removed \subseteq Block
    BY <1>2, RootFacts DEF ContextIInv, TypesOK
  <2>2. Named \subseteq Block
    BY DEF Named
  <2>3. InCalls \subseteq Block
    <3>1. ASSUME NEW p \in Process, job[p].step \in {"add", "undo", "destroy"}
          PROVE  job[p].context \in Block
      <4>1. JobInv(p)
        BY <3>1, StepMeansCall DEF Steps, ContextIInv
      <4> QED BY <3>1, <4>1 DEF JobInv
    <3> QED BY <3>1 DEF InCalls
  <2>4. \A b \in Block : b \in Named \cup InCalls \cup removed \cup {finder} <=> b \notin FreeBlocks
    BY <2>1 DEF RootInv, FreeBlocks
  <2>5. \A n \in Projects \cap DOMAIN context[finder].name : context[finder].name[n] \in Block \ {finder}
    BY <1>2, RootFacts DEF Root
  <2> QED BY <2>1, <2>2, <2>3, <2>4, <2>5 DEF RootInv
<1> QED BY <1>1, <1>2 DEF ContextInv, ProjectsHaveContexts

(* In each context a name and its address value lead to each other and the copies of the names
   lie apart in memory that is not free; and every context belongs to one project, one call or
   one program (sphcontext.cpp: SPHContextAddNameNoLock, SPHSetupProjectContext). *)
THEOREM ContextInvHolds == Spec => []ContextInv
BY ContextInvariant, InvariantMeans, PTL
-----------------------------------------------------------------------------
(* What the steps of a setup may end with. *)

LEMMA AddFailsOnlyWhenFull ==
  ASSUME ContextIInv, NEW p \in Process, SetupAdd(p)
  PROVE  \/ job'[p] # Idle /\ job'[p].step # "undo"
         \/ job[p].step = "add" /\ SPHContextAllocNoLock(context[finder], NameSize(job[p].name)).at = NULL
         \/ TreeGet(context'[finder].name, job[p].name) = job[p].context
<1>1. At(p, SetupCalls, "add")
  BY DEF SetupAdd
<1> DEFINE name == job[p].name
           b == job[p].context
<1>2. /\ TypesOK /\ JobInv(p) /\ name \in Projects /\ job[p].step = "add"
      /\ \A d : d \in InCalls <=> d = b
  BY <1>1, AtIs DEF Steps
<1>3. finder # NULL /\ name \notin DOMAIN Root.name /\ b \in Block
  BY <1>2 DEF JobInv
<1>4. /\ RootInv /\ finder \in Block /\ GoodContext(Root)
      /\ \A n \in DOMAIN Root.name : n \notin Projects => Root.name[n] \in Addrs
      /\ \A d \in Block : d \in Named <=> \E n \in Projects : n \in DOMAIN Root.name /\ Root.name[n] = d
  BY <1>3, RootFacts
<1>5. PICK r : r = SPHContextAddNameNoLock(Root, name, b)
  OBVIOUS
<1>6. Added(r, Root, name, b)
  BY <1>2, <1>3, <1>4, <1>5, ValuesAre, AddNameGives
<1>7. Becomes(finder, r)
  BY <1>5 DEF SetupAdd, Root
<1>8. context'[finder] = r.context
  BY <1>2, <1>4, <1>7 DEF Becomes, TypesOK
\* Neither key is there.
<1>9. CanAdd(Root, name, b)
  <2>1. b \notin Named
    BY <1>2, <1>3, <1>4 DEF RootInv
  <2>2. \A n \in DOMAIN Root.name : Root.name[n] # b
    BY <2>1, <1>3, <1>4, NullFacts
  <2>3. b \notin DOMAIN Root.objID
    BY <2>2, <1>4, Associated
  <2> QED BY <2>3, <1>3 DEF CanAdd
<1> HIDE DEF name, b
<1>10. CASE r.ok = TRUE
  <2>1. r.context.name = TreePut(Root.name, name, b)
    BY <1>6, <1>10 DEF Added
  <2>2. TreeGet(context'[finder].name, name) = b
    BY <2>1, <1>3, <1>8 DEF TreePut, TreeGet
  <2> QED BY <2>2 DEF name, b
<1>11. CASE r.ok = FALSE
  <2>1. NoRoom(Root, name)
    BY <1>6, <1>9, <1>11 DEF Added
  <2> QED BY <2>1, <1>2 DEF NoRoom, name, Root
<1> QED BY <1>6, <1>10, <1>11 DEF Added

LEMMA CreateFailsOnlyWhenFull ==
  ASSUME ContextIInv, NEW p \in Process, SetupCreate(p)
  PROVE  \/ job'[p] # Idle /\ job'[p].step # "undo"
         \/ job[p].step = "create" /\ FreeBlocks = {}
<1>1. job[p].step = "create" /\ TypesOK
  BY DEF SetupCreate, At, ContextIInv
<1>2. CASE FreeBlocks # {}
  <2>1. Goes(p, "add", LowestFree) /\ LowestFree \in Block
    BY <1>2, LowestFreeIs DEF SetupCreate
  <2> QED BY <2>1, <1>1, GoesGives DEF Steps
<1> QED BY <1>1, <1>2

(* A setup that ends without a context met a full region or a full root: it is never the name it
   did not find that is there when it enters it, nor the block it got (sphcontext.cpp:
   SPHSetupProjectContext). *)
THEOREM SetupFailsHolds == Spec => SetupFailsOnlyWhenFull
<1>1. ContextIInv =>
        \A p \in Process :
          (SetupCreate(p) \/ SetupAdd(p)) =>
              \/ job'[p] # Idle /\ job'[p].step # "undo"
              \/ job[p].step = "create" /\ FreeBlocks = {}
              \/ job[p].step = "add" /\ SPHContextAllocNoLock(context[finder], NameSize(job[p].name)).at = NULL
              \/ TreeGet(context'[finder].name, job[p].name) = job[p].context
  BY AddFailsOnlyWhenFull, CreateFailsOnlyWhenFull
<1> QED BY <1>1, ContextInvariant, PTL DEF SetupFailsOnlyWhenFull

-----------------------------------------------------------------------------
(* Every context is a book of associations. *)

Book == [b \in Block |-> Contents(context[b])]

LEMMA BookIs ==
  ASSUME NEW b \in Block, GoodContext(context[b])
  PROVE  /\ Book[b] = context[b].name
         /\ \A value : value \in DOMAIN context[b].objID <=> value \in Contexts!Range(Book[b])
<1>1. Book[b] = context[b].name
  BY NullFacts DEF Book, Contents
<1> QED BY <1>1, Associated DEF Contexts!Range

LEMMA BookBecomes ==
  ASSUME TypesOK, NEW b \in Block, NEW r, GoodContext(r.context), Becomes(b, r), NEW book, book = r.context.name
  PROVE  Contexts!Answers(b, book, r.ok)
<1>1. context \in [Block -> Context \cup {NULL}]
  BY DEF TypesOK
<1>2. context' = [context EXCEPT ![b] = r.context] /\ answer' = [answer EXCEPT ![b] = r.ok]
  BY DEF Becomes
<1>3. Contents(r.context) = book
  BY NullFacts DEF Contents
<1>4. Book' = [Book EXCEPT ![b] = book]
  BY <1>1, <1>2, <1>3 DEF Book
<1> QED BY <1>2, <1>4 DEF Contexts!Answers, Book

LEMMA BookClears ==
  ASSUME TypesOK, NEW b \in Block, SPHContextDestroy(b)
  PROVE  Contexts!Next
<1>1. context' = [context EXCEPT ![b] = NULL] /\ answer' = [answer EXCEPT ![b] = NULL]
  BY DEF SPHContextDestroy
<1>2. Book' = [Book EXCEPT ![b] = << >>]
  BY <1>1 DEF TypesOK, Book, Contents, NoKeys
<1>3. Contexts!Clear(b)
  BY <1>1, <1>2 DEF Contexts!Clear, Contexts!Answers, Book
<1> QED BY <1>3 DEF Contexts!Next

(* Only contexts without a name come. *)
LEMMA BookStays ==
  ASSUME UNCHANGED answer, \A b \in Block : Contents(context'[b]) = Contents(context[b])
  PROVE  UNCHANGED Contexts!vars
<1>1. Book' = Book
  BY DEF Book
<1> QED BY <1>1 DEF Contexts!vars, Book

LEMMA BookCreates ==
  ASSUME TypesOK, NEW b \in Block, context[b] = NULL, NEW size \in {RootSize, ProjectSize},
         context' = Created(context, b, size), UNCHANGED answer
  PROVE  UNCHANGED Contexts!vars
<1>1. /\ context'[b] # NULL /\ context'[b].name = << >>
      /\ \A d \in Block : d # b => context'[d] = context[d]
  BY CreatedGives
<1>2. \A d \in Block : Contents(context'[d]) = Contents(context[d])
  BY <1>1 DEF Contents, NoKeys
<1> QED BY <1>2, BookStays

LEMMA BookAdds ==
  ASSUME TypesOK, NEW b \in Block, GoodContext(context[b]), NEW name \in Names, NEW value \in Values,
         NEW r, r = SPHContextAddNameNoLock(context[b], name, value), Becomes(b, r)
  PROVE  Contexts!Next
<1>1. Added(r, context[b], name, value)
  BY AddNameGives
<1>2. /\ Book[b] = context[b].name
      /\ value \in DOMAIN context[b].objID <=> value \in Contexts!Range(Book[b])
  BY BookIs
<1>3. GoodContext(r.context) /\ Contexts!Answers(b, r.context.name, r.ok)
  BY <1>1, BookBecomes DEF Added
<1>4. CASE r.ok = FALSE
  <2>1. r.context.name = Book[b]
    BY <1>1, <1>2, <1>4 DEF Added
  <2> QED BY <2>1, <1>3, <1>4 DEF Contexts!Add, Contexts!Next, Book
<1>5. CASE r.ok = TRUE
  <2>1. CanAdd(context[b], name, value) /\ r.context.name = TreePut(context[b].name, name, value)
    BY <1>1, <1>5 DEF Added
  <2>2. Contexts!CanAdd(Book[b], name, value)
    BY <2>1, <1>2 DEF Contexts!CanAdd, CanAdd
  <2>3. r.context.name = Contexts!With(Book[b], name, value)
    BY <2>1, <1>2 DEF TreePut, Contexts!With, CanAdd
  <2>4. Contexts!Add(b, name, value)
    BY <2>2, <2>3, <1>3, <1>5 DEF Contexts!Add, Book
  <2> QED BY <2>4 DEF Contexts!Next
<1> QED BY <1>1, <1>4, <1>5 DEF Added

LEMMA BookRemovesByName ==
  ASSUME TypesOK, NEW b \in Block, GoodContext(context[b]), NEW name \in Names,
         NEW r, r = SPHContextRemoveByNameNoLock(context[b], name), Becomes(b, r)
  PROVE  Contexts!Next
<1> DEFINE tree == context[b].name
<1>1. /\ GoodContext(r.context)
      /\ \/ r.ok = FALSE /\ r.context = context[b] /\ (name \notin DOMAIN tree \/ tree[name] = NULL)
         \/ r.ok = TRUE /\ name \in DOMAIN tree /\ tree[name] # NULL /\ r.context.name = TreeRemove(tree, name)
  BY RemoveByNameGives
<1>2. Book[b] = tree
  BY BookIs
<1>3. Contexts!Answers(b, r.context.name, r.ok)
  BY <1>1, BookBecomes
<1>4. Contexts!IsFound(b, name) <=> name \in DOMAIN tree /\ tree[name] # NULL
  BY <1>2 DEF Contexts!IsFound, Book
<1>5. TreeRemove(tree, name) = Contexts!Without(Book[b], name)
  BY <1>2 DEF TreeRemove, Contexts!Without, Restrict, Contexts!Restrict
<1> HIDE DEF tree
<1>6. Contexts!RemoveByName(b, name)
  <2>1. CASE r.ok = FALSE
    BY <2>1, <1>1, <1>2, <1>3, <1>4 DEF Contexts!RemoveByName, Book, tree
  <2>2. CASE r.ok = TRUE
    BY <2>2, <1>1, <1>3, <1>4, <1>5 DEF Contexts!RemoveByName, Book
  <2> QED BY <2>1, <2>2, <1>1
<1> QED BY <1>6 DEF Contexts!Next

LEMMA BookRemovesByAddr ==
  ASSUME TypesOK, NEW b \in Block, GoodContext(context[b]), NEW value \in Values,
         NEW r, r = SPHContextRemoveByAddrNoLock(context[b], value), Becomes(b, r)
  PROVE  Contexts!Next
<1> DEFINE tree == context[b].name
<1>1. /\ GoodContext(r.context)
      /\ \/ r.ok = FALSE /\ r.context = context[b] /\ value \notin DOMAIN context[b].objID
         \/ r.ok = TRUE /\ \E name \in DOMAIN tree : tree[name] = value /\ r.context.name = TreeRemove(tree, name)
  BY RemoveByAddrGives DEF Unnamed
<1>2. Book[b] = tree /\ (value \in DOMAIN context[b].objID <=> value \in Contexts!Range(Book[b]))
  BY BookIs
<1>3. Contexts!Answers(b, r.context.name, r.ok)
  BY <1>1, BookBecomes
<1>4. \A name : TreeRemove(tree, name) = Contexts!Without(Book[b], name)
  BY <1>2 DEF TreeRemove, Contexts!Without, Restrict, Contexts!Restrict
<1> HIDE DEF tree
<1>5. Contexts!RemoveByAddr(b, value)
  <2>1. CASE r.ok = FALSE
    BY <2>1, <1>1, <1>2, <1>3 DEF Contexts!RemoveByAddr, Book, tree
  <2>2. CASE r.ok = TRUE
    <3>1. PICK name \in DOMAIN tree : tree[name] = value /\ r.context.name = TreeRemove(tree, name)
      BY <1>1, <2>2
    <3> QED BY <3>1, <2>2, <1>2, <1>3, <1>4 DEF Contexts!RemoveByAddr, Book
  <2> QED BY <2>1, <2>2, <1>1
<1> QED BY <1>5 DEF Contexts!Next
LEMMA BookRenames ==
  ASSUME TypesOK, NEW b \in Block, GoodContext(context[b]),
         NEW old \in Names, NEW new \in Names, NEW value \in Values, value # NULL,
         NEW r, r = SPHContextRename(context[b], old, new, value), Becomes(b, r)
  PROVE  Contexts!Next
<1>1. PICK c : c = context[b]
  OBVIOUS
<1>2. GoodContext(c) /\ r = SPHContextRename(c, old, new, value)
  BY <1>1
<1>3. PICK rest : rest = TreeRemove(c.name, old)
  OBVIOUS
<1>4. /\ GoodContext(r.context)
      /\ \/ /\ old \in DOMAIN c.name /\ c.name[old] = value
            /\ \/ r.ok = FALSE /\ r.context.name = rest
               \/ /\ r.ok = TRUE /\ new \notin DOMAIN rest /\ value \notin Range(rest)
                  /\ r.context.name = TreePut(rest, new, value)
         \/ ~ (old \in DOMAIN c.name /\ c.name[old] = value) /\ r = Result(c, FALSE)
  BY <1>2, <1>3, RenameGives
<1>5. Book[b] = c.name
  BY <1>1, BookIs
<1>6. Contexts!Answers(b, r.context.name, r.ok)
  BY <1>4, BookBecomes
<1>7. Contexts!IsFound(b, old) /\ Book[b][old] = value <=> old \in DOMAIN c.name /\ c.name[old] = value
  BY <1>5 DEF Contexts!IsFound, Book
<1>8. rest = Contexts!Without(Book[b], old)
  BY <1>3, <1>5 DEF TreeRemove, Contexts!Without, Restrict, Contexts!Restrict
<1>9. Contexts!Rename(b, old, new, value)
  <2>1. CASE ~ (old \in DOMAIN c.name /\ c.name[old] = value)
    <3>1. r.context.name = Book[b] /\ r.ok = FALSE
      BY <2>1, <1>4, <1>5 DEF Result
    <3> QED BY <2>1, <3>1, <1>6, <1>7 DEF Contexts!Rename, Book
  <2>2. CASE old \in DOMAIN c.name /\ c.name[old] = value
    <3>1. CASE r.ok = FALSE
      <4>1. r.context.name = rest
        BY <2>2, <3>1, <1>4
      <4> QED BY <2>2, <3>1, <4>1, <1>6, <1>7, <1>8 DEF Contexts!Rename, Book
    <3>2. CASE r.ok = TRUE
      <4>1. new \notin DOMAIN rest /\ value \notin Range(rest) /\ r.context.name = TreePut(rest, new, value)
        BY <2>2, <3>2, <1>4
      <4>2. Contexts!CanAdd(rest, new, value) /\ r.context.name = Contexts!With(rest, new, value)
        BY <4>1 DEF Contexts!CanAdd, Range, Contexts!Range, TreePut, Contexts!With
      <4> QED BY <2>2, <3>2, <4>2, <1>6, <1>7, <1>8 DEF Contexts!Rename, Book
    <3> QED BY <2>2, <3>1, <3>2, <1>4
  <2> QED BY <2>1, <2>2
<1> QED BY <1>9 DEF Contexts!Next

LEMMA CallsImplement ==
  ASSUME ContextIInv, NEW p \in Process, ContextCall(p) \/ RootCall(p)
  PROVE  Contexts!Next
<1>1. TypesOK
  BY DEF ContextIInv
<1>2. CASE ContextCall(p)
  <2>1. PICK b \in Handles(p) :
           \/ \E name \in Names, value \in Addrs \cup {NULL} : AddName(p, b, name, value)
           \/ \E old, new \in Names, value \in Addrs : Rename(p, b, old, new, value)
           \/ \E name \in Names : RemoveByName(p, b, name)
           \/ \E value \in Addrs \cup {NULL} : RemoveByAddr(p, b, value)
    BY <1>2 DEF ContextCall
  <2>2. b \in Block /\ GoodContext(context[b])
    BY HandlesAre
  <2>3. CASE \E name \in Names, value \in Addrs \cup {NULL} : AddName(p, b, name, value)
    <3>1. PICK name \in Names, value \in Addrs \cup {NULL} : AddName(p, b, name, value)
      BY <2>3
    <3> QED BY <1>1, <2>2, <3>1, ValuesAre, BookAdds DEF AddName, CallOn
  <2>4. CASE \E old, new \in Names, value \in Addrs : Rename(p, b, old, new, value)
    <3>1. PICK old \in Names, new \in Names, value \in Addrs : Rename(p, b, old, new, value)
      BY <2>4
    <3>2. value \in Values /\ value # NULL
      BY ValuesAre, ContextAssumption
    <3> QED BY <1>1, <2>2, <3>1, <3>2, BookRenames DEF Rename, CallOn
  <2>5. CASE \E name \in Names : RemoveByName(p, b, name)
    <3>1. PICK name \in Names : RemoveByName(p, b, name)
      BY <2>5
    <3> QED BY <1>1, <2>2, <3>1, BookRemovesByName DEF RemoveByName, CallOn
  <2>6. CASE \E value \in Addrs \cup {NULL} : RemoveByAddr(p, b, value)
    <3>1. PICK value \in Addrs \cup {NULL} : RemoveByAddr(p, b, value)
      BY <2>6
    <3> QED BY <1>1, <2>2, <3>1, ValuesAre, BookRemovesByAddr DEF RemoveByAddr, CallOn
  <2> QED BY <2>1, <2>3, <2>4, <2>5, <2>6
<1>3. CASE RootCall(p)
  <2>1. finder \in Block /\ GoodContext(context[finder])
    BY <1>3, RootFacts DEF RootCall, Root
  <2>2. CASE \E name \in Names \ Projects, value \in Addrs : AddName(p, finder, name, value)
    <3>1. PICK name \in Names \ Projects, value \in Addrs : AddName(p, finder, name, value)
      BY <2>2
    <3> QED BY <1>1, <2>1, <3>1, ValuesAre, BookAdds DEF AddName, CallOn
  <2>3. CASE \E name \in Names \ Projects : RemoveByName(p, finder, name)
    <3>1. PICK name \in Names \ Projects : RemoveByName(p, finder, name)
      BY <2>3
    <3> QED BY <1>1, <2>1, <3>1, BookRemovesByName DEF RemoveByName, CallOn
  <2> QED BY <1>3, <2>2, <2>3 DEF RootCall
<1> QED BY <1>2, <1>3

LEMMA SetupImplements ==
  ASSUME ContextIInv, NEW p \in Process, SetupCreate(p) \/ SetupAdd(p) \/ SetupUndo(p)
  PROVE  Contexts!Next \/ UNCHANGED Contexts!vars
<1>1. TypesOK
  BY DEF ContextIInv
<1>2. CASE SetupCreate(p)
  <2>1. UNCHANGED answer
    BY <1>2 DEF SetupCreate
  <2>2. CASE FreeBlocks = {}
    <3>1. UNCHANGED context
      BY <1>2, <2>2 DEF SetupCreate
    <3> QED BY <2>1, <3>1, BookStays
  <2>3. CASE FreeBlocks # {}
    <3>1. LowestFree \in Block /\ context[LowestFree] = NULL
      BY <2>3, LowestFreeIs
    <3>2. context' = Created(context, LowestFree, ProjectSize)
      BY <1>2, <2>3 DEF SetupCreate
    <3> QED BY <1>1, <2>1, <3>1, <3>2, BookCreates
  <2> QED BY <2>2, <2>3
<1>3. CASE SetupAdd(p)
  <2>1. At(p, SetupCalls, "add")
    BY <1>3 DEF SetupAdd
  <2>2. job[p].step = "add" /\ JobInv(p) /\ job[p].name \in Projects
    BY <2>1, AtIs DEF Steps
  <2>3. finder # NULL /\ job[p].context \in Block
    BY <2>2 DEF JobInv
  <2>4. finder \in Block /\ GoodContext(context[finder])
    BY <2>3, RootFacts DEF Root
  <2>5. Becomes(finder, SPHContextAddNameNoLock(context[finder], job[p].name, job[p].context))
    BY <1>3 DEF SetupAdd
  <2> QED BY <1>1, <2>2, <2>3, <2>4, <2>5, ValuesAre, BookAdds
<1>4. CASE SetupUndo(p)
  <2>1. At(p, SetupCalls, "undo") /\ SPHContextDestroy(job[p].context)
    BY <1>4 DEF SetupUndo
  <2>2. job[p].step = "undo" /\ JobInv(p)
    BY <2>1, AtIs DEF Steps
  <2>3. job[p].context \in Block
    BY <2>2 DEF JobInv
  <2> QED BY <1>1, <2>1, <2>3, BookClears
<1> QED BY <1>2, <1>3, <1>4

LEMMA RemoveImplements ==
  ASSUME ContextIInv, NEW p \in Process, RemoveRemove(p) \/ DestroyDestroy(p)
  PROVE  Contexts!Next
<1>1. TypesOK
  BY DEF ContextIInv
<1>2. CASE RemoveRemove(p)
  <2>1. At(p, RemoveCalls, "remove")
    BY <1>2 DEF RemoveRemove
  <2>2. job[p].step = "remove" /\ JobInv(p) /\ job[p].name \in Projects
    BY <2>1, AtIs DEF Steps
  <2>3. finder # NULL
    BY <2>2 DEF JobInv
  <2>4. finder \in Block /\ GoodContext(context[finder])
    BY <2>3, RootFacts DEF Root
  <2>5. Becomes(finder, SPHContextRemoveByNameNoLock(context[finder], job[p].name))
    BY <1>2 DEF RemoveRemove
  <2> QED BY <1>1, <2>2, <2>4, <2>5, ValuesAre, BookRemovesByName
<1>3. CASE DestroyDestroy(p)
  <2>1. At(p, RemoveCalls, "destroy") /\ SPHContextDestroy(job[p].context)
    BY <1>3 DEF DestroyDestroy
  <2>2. job[p].step = "destroy" /\ JobInv(p)
    BY <2>1, AtIs DEF Steps
  <2>3. job[p].context \in Block
    BY <2>2 DEF JobInv
  <2> QED BY <1>1, <2>1, <2>3, BookClears
<1> QED BY <1>2, <1>3

LEMMA ProjectCallImplements ==
  ASSUME ContextIInv, NEW p \in Process, NEW asked \in SetupCalls \cup RemoveCalls, NEW name \in Projects,
         ProjectCall(p, asked, name)
  PROVE  UNCHANGED Contexts!vars
<1>1. UNCHANGED answer
  BY DEF ProjectCall
<1>2. CASE asked \in SetupCalls /\ finder = NULL
  <2>1. NoRoot /\ 1 \in Block /\ TypesOK
    BY <1>2, ContextAssumption DEF ContextIInv, Block
  <2>2. LowestFree \in Block /\ context[LowestFree] = NULL
    BY <2>1, LowestFreeIs DEF FreeBlocks, NoRoot
  <2>3. context' = Created(context, LowestFree, RootSize)
    BY <1>2 DEF ProjectCall
  <2> QED BY <1>1, <2>1, <2>2, <2>3, BookCreates
<1>3. CASE ~ (asked \in SetupCalls /\ finder = NULL)
  <2>1. UNCHANGED context
    BY <1>3 DEF ProjectCall
  <2> QED BY <1>1, <2>1, BookStays
<1> QED BY <1>2, <1>3

LEMMA StepImplements ==
  ASSUME ContextIInv, [Next]_vars
  PROVE  [Contexts!Next]_(Contexts!vars)
<1>1. CASE UNCHANGED vars
  <2>1. UNCHANGED <<context, answer>>
    BY <1>1 DEF vars
  <2> QED BY <2>1, BookStays
<1>2. CASE Next
  <2>1. PICK p \in Process :
          \/ ContextCall(p)
          \/ RootCall(p)
          \/ \E asked \in SetupCalls \cup RemoveCalls, name \in Projects : ProjectCall(p, asked, name)
          \/ SetupFind(p) \/ SetupCreate(p) \/ SetupAdd(p) \/ SetupUndo(p)
          \/ RemoveFind(p) \/ RemoveRemove(p) \/ DestroyDestroy(p)
          \/ \E name \in Projects : GetProjectContextByName(p, name)
          \/ \E b \in Block : Destroy(p, b)
    BY <1>2 DEF Next
  <2>2. CASE SetupFind(p) \/ RemoveFind(p) \/ \E name \in Projects : GetProjectContextByName(p, name)
    <3>1. UNCHANGED <<context, answer>>
      BY <2>2 DEF SetupFind, RemoveFind, GetProjectContextByName
    <3> QED BY <3>1, BookStays
  <2>3. CASE \E b \in Block : Destroy(p, b)
    <3>1. PICK b \in Block : SPHContextDestroy(b)
      BY <2>3 DEF Destroy
    <3> QED BY <3>1, BookClears DEF ContextIInv
  <2> QED BY <2>1, <2>2, <2>3, CallsImplement, ProjectCallImplements, SetupImplements, RemoveImplements
<1> QED BY <1>1, <1>2

(* A call on any context, whatever project calls come in between, changes its associations and
   answers as Associations says: an add, at whatever point it fails, leaves them as they were
   (sphcontext.cpp: SPHContextAddName, SPHContextRename, SPHContextRemoveByName,
   SPHContextRemoveByAddr, SPHContextDestroy). *)
THEOREM ContextsImplement == Spec => ImplementsAssociations
<1>1. Init => Contexts!Init
  <2> HAVE Init
  <2>1. Book = [b \in Block |-> << >>]
    BY DEF Init, Book, Contents, NoKeys
  <2> QED BY <2>1 DEF Init, Contexts!Init, Book
<1>2. ContextIInv /\ [Next]_vars => [Contexts!Next]_(Contexts!vars)
  BY StepImplements
<1> QED BY <1>1, <1>2, ContextInvariant, PTL DEF Spec, ImplementsAssociations, Contexts!Spec

-----------------------------------------------------------------------------
(* The memory of heaps: headers h, blocks b, the heaps lv and the pieces ow *)
(* of the programs, the pages fr they gave up and that are not free yet.   *)

Kind == {"none", "heap", "space", "stack", "queue", "compound"}

HeaderType ==
  [kind : Kind, size : 0..NumPages, list : Seq(Pieces), base : 0..NumPages, next : Nat,
   expand : Seq(Page), max : Nat, space : 0..NumPages]

MemType(h, b, lv, ow, fr) ==
  /\ h \in [Page -> HeaderType]
  /\ b \in [Page -> 0..NumPages]
  /\ lv \in SUBSET Page /\ fr \in SUBSET Page
  /\ ow \in SUBSET Pieces /\ \A x \in ow : x.size > 0

BlocksGood(b) ==
  \A p \in Page : b[p] > 0 =>
    /\ p % b[p] = 0 /\ p + b[p] <= NumPages
    /\ \A q \in Page : b[q] > 0 /\ p < q => p + b[p] <= q

(* A free list and the pieces out of it make up an interval.               *)
Split(list, pieces, from, to) ==
  /\ Free(list) \cup UNION {Covers(x) : x \in pieces} = from .. to - 1
  /\ \A x \in pieces : Covers(x) \cap Free(list) = {}
  /\ \A x, y \in pieces : x # y => Covers(x) \cap Covers(y) = {}

Compounds(h, lv) == {p \in lv : h[p].kind = "compound"}

IsPart(h, lv, p, r) == p \in Compounds(h, lv) /\ \E i \in DOMAIN Parts(h, p) : Parts(h, p)[i] = r

Inside(h, r, q) == q > r /\ q < r + h[r].size

(* The pages given out of compound heaps.                                  *)
Given(h, b, lv, fr) == {q \in lv : h[q].kind \in {"heap", "queue"} /\ b[q] = 0} \cup fr

GivenIn(h, b, lv, fr, r) == {q \in Given(h, b, lv, fr) : Inside(h, r, q)}

PagePiece(q) == Piece(Address(q), PageSize)
PagePieces(Q) == {PagePiece(q) : q \in Q}

EndOf(h, p) == Address(p) + h[p].size * PageSize

PartGood(h, b, lv, fr, p, r) ==
  /\ h[r].kind = "compound" /\ h[r].base = p /\ (r # p => h[r].expand = <<>>)
  /\ h[r].size = h[p].size /\ b[r] = h[r].size /\ h[r].size > 1
  /\ GoodList(h[r].list)
  /\ Split(h[r].list, PagePieces(GivenIn(h, b, lv, fr, r)), Address(r) + PageSize, EndOf(h, r))

(* The list of parts has a space of its own.                               *)
Moved(h, p) == h[p].expand # <<>> /\ h[p].max = SpaceMax

SpaceGood(h, b, lv, s) == s \in Page /\ h[s].kind = "space" /\ b[s] > 0 /\ s \notin lv

CompoundGood(h, b, lv, fr, p) ==
  /\ Len(Parts(h, p)) >= 1 /\ Parts(h, p)[1] = p
  /\ \A i, j \in DOMAIN Parts(h, p) : Parts(h, p)[i] = Parts(h, p)[j] => i = j
  /\ \A i \in DOMAIN Parts(h, p) : PartGood(h, b, lv, fr, p, Parts(h, p)[i])
  /\ Moved(h, p) => SpaceGood(h, b, lv, h[p].space)

SpacesApart(h, lv) ==
  \A p, q \in Compounds(h, lv) :
    Moved(h, p) /\ Moved(h, q) /\ h[p].space = h[q].space => p = q

PageGood(h, b, lv, q) ==
  /\ h[q].kind \in {"heap", "queue"} /\ b[q] = 0 /\ h[q].size = 1
  /\ h[q].base \in Page /\ Inside(h, h[q].base, q)
  /\ IsPart(h, lv, h[h[q].base].base, h[q].base)

LiveGood(h, b, p) ==
  /\ h[p].kind # "none" /\ h[p].size >= 1
  /\ b[p] > 0 => h[p].kind # "queue" /\ b[p] = h[p].size
  /\ b[p] = 0 => h[p].kind \in {"heap", "queue"}

In(h, ow, p) == {x \in ow : x.at >= Address(p) /\ x.at < EndOf(h, p)}

SimpleGood(h, ow, p) ==
  /\ h[p].kind = "heap" =>
       /\ GoodList(h[p].list)
       /\ Split(h[p].list, In(h, ow, p), Address(p) + HeapOffset, EndOf(h, p))
  /\ h[p].kind = "stack" =>
       /\ h[p].list = <<>>
       /\ Address(p) + PageSize <= h[p].next /\ h[p].next <= EndOf(h, p)
       /\ Split(<<>>, In(h, ow, p), Address(p) + PageSize, h[p].next)

Holder(h, ow, lv, x, p) ==
  p \in lv /\ h[p].kind \in {"heap", "stack"} /\ x \in In(h, ow, p)

MemGood(h, b, lv, ow, fr) ==
  /\ MemType(h, b, lv, ow, fr)
  /\ BlocksGood(b)
  /\ lv \cap fr = {}
  /\ \A p \in lv : LiveGood(h, b, p) /\ SimpleGood(h, ow, p)
  /\ \A x \in ow : \E p \in lv : Holder(h, ow, lv, x, p)
  /\ \A q \in Given(h, b, lv, fr) : PageGood(h, b, lv, q)
  /\ \A p \in Compounds(h, lv) : CompoundGood(h, b, lv, fr, p)
  /\ SpacesApart(h, lv)

-----------------------------------------------------------------------------
(* Calls.                                                                  *)
Growing == {"grow", "space", "back"}
Looking == {"scan"} \cup Growing

Place == {"idle", "first", "last", "pick", "near", "freefirst", "freescan", "sum"} \cup Looking

CallType ==
  [heap : 0..NumPages, near : 0..NumPages, kind : {"heap", "queue"}, page : 0..NumPages,
   last : 0..NumPages, i : Nat]

StateType ==
  /\ use \in Uses
  /\ pc \in [Thread -> Place]
  /\ call \in [Thread -> CallType]
  /\ \A t \in Thread : AtRest(t) => call[t] = NoCall

Frees(t) == pc[t] \in {"freefirst", "freescan"}

(* What a call goes by: the heap is there, the parts are its own, and the  *)
(* page a free gives back is one of its heap.                              *)
CallGood(t) ==
  LET c == call[t]
  IN  ~ AtRest(t) =>
        /\ t \in use.threads /\ c.heap \in Heaps
        /\ c.near # NoPage => IsPart(hdr, live, c.heap, c.near) /\ "nearalloc" \in use.ops
        /\ pc[t] = "near" => c.near # NoPage
        /\ pc[t] \in {"sum", "freefirst", "freescan"} => c.near = NoPage
        /\ pc[t] \in {"last", "pick"} \cup Looking =>
             IsExpanding(c.heap) /\ IsPart(hdr, live, c.heap, c.last)
        /\ pc[t] = "last" => c.last # c.heap
        /\ pc[t] \in Looking => c.i >= 1 /\ c.i <= Len(hdr[c.heap].expand)
        /\ pc[t] = "sum" => c.i >= 2 /\ c.i <= Len(Parts(hdr, c.heap)) + 1
        /\ pc[t] = "freescan" => c.i \in DOMAIN Parts(hdr, c.heap)
        /\ Frees(t) =>
             /\ "free" \in use.ops /\ c.page \in Page /\ c.i >= 1
             /\ hdr[hdr[c.page].base].base = c.heap
             /\ pc[t] = "freefirst" => c.i = 1

FreesApart == \A t, u \in Thread : Frees(t) /\ Frees(u) /\ call[t].page = call[u].page => t = u

(* What headers there are when a program makes near calls; no list without *)
(* a heap that expands.                                                    *)
NearInv ==
  "near" \in use.ops =>
    \A p \in Page : hdr[p].kind # "none" =>
      /\ hdr[p].kind \in {"heap", "stack", "space"}
      /\ hdr[p].size \in use.pages /\ p % hdr[p].size = 0

ExpandInv == "expanding" \notin use.ops => \A p \in Page : hdr[p].expand = <<>>

MemInv ==
  /\ StateType
  /\ MemGood(hdr, blocks, live, owned, Freed)
  /\ \A t \in Thread : CallGood(t)
  /\ FreesApart
  /\ NearInv
  /\ ExpandInv

(* What is left of a header: a list of parts or a space of its own is that *)
(* of a block in use, for a block that goes back loses its header.         *)
HeaderGood(q) ==
  /\ hdr[q].space # NoPage => hdr[q].max = SpaceMax /\ blocks[q] > 0
  /\ hdr[q].kind \in {"compound", "space"} \/ hdr[q].expand # <<>> => blocks[q] > 0

(* The block in the hands of a call.                                       *)
Loose(q) == q \in Page /\ blocks[q] > 0 /\ q \notin live /\ hdr[q].kind \notin {"compound", "space"}

HandGood(t) ==
  InHand(t) =>
    /\ Loose(call[t].page) /\ blocks[call[t].page] = hdr[call[t].heap].size
    /\ \A u \in Thread \ {t} : InHand(u) => call[u].page # call[t].page

BlocksInv ==
  /\ \A q \in Page : HeaderGood(q)
  /\ \A t \in Thread : HandGood(t)

-----------------------------------------------------------------------------
(* Locks.                                                                  *)

(* The locks a call has taken, once each, and the one of a near allocate.  *)
HoldsOf(t) ==
  LET p == call[t].heap
  IN  CASE pc[t] = "last" -> {p}
        [] pc[t] = "pick" -> {p, call[t].last}
        [] pc[t] \in Looking -> {p, call[t].last} \cup PartsAfterFirst(p, call[t].i - 1)
        [] pc[t] = "sum" -> {p} \cup PartsAfterFirst(p, call[t].i - 1)
        [] pc[t] = "freescan" -> {p}
        [] OTHER -> {}

NearOf(t) == IF pc[t] \in {"first", "last", "pick"} \cup Looking THEN {call[t].near} \ {NoPage} ELSE {}

Depth(t, p) == (IF p \in HoldsOf(t) THEN 1 ELSE 0) + (IF p \in NearOf(t) THEN 1 ELSE 0)

LockType == lock \in [Page -> [owner : Thread \cup {NoThread}, depth : Nat]]

(* ... and no others, unless pages are freed in heaps of several parts,    *)
(* which unlocks the wrong one: then the locks are those of the only       *)
(* thread.                                                                 *)
Unlocks == {"free", "expanding"} \subseteq use.ops

LockGood ==
  /\ LockType
  /\ \A p \in Page : lock[p].owner # NoThread => lock[p].owner \in use.threads
  /\ ~ Unlocks =>
       /\ \A t \in Thread, p \in Page : Depth(t, p) > 0 => lock[p] = [owner |-> t, depth |-> Depth(t, p)]
       /\ \A p \in Page : lock[p] # Unlocked => \E t \in Thread : Depth(t, p) > 0

(* A call that looks for room knows the last part, and the parts it has    *)
(* passed are loaded.                                                      *)
LookGood(t) ==
  LET p == call[t].heap
      last == call[t].last
  IN  /\ pc[t] \in {"last", "pick"} \cup Looking => last = LastPart(p)
      /\ pc[t] \in Looking => /\ Loaded(last)
                              /\ \A j \in 1..call[t].i-1 : Loaded(hdr[p].expand[j])
      /\ pc[t] \in Growing => call[t].i > Others(Len(hdr[p].expand))

CallLocksInv == LockGood /\ \A t \in Thread : LookGood(t)

AllInv == MemInv /\ BlocksInv /\ CallLocksInv

-----------------------------------------------------------------------------
(* Pages and addresses. *)
LEMMA PageFacts ==
  /\ PageSize \in Nat /\ PageSize >= 2 /\ HeapOffset \in Nat /\ HeapOffset > 0 /\ HeapOffset < PageSize
  /\ PageSize % NodeAlign = 0 /\ HeapOffset % NodeAlign = 0 /\ (PageSize - HeapOffset) % NodeAlign = 0
  /\ NumPages \in Nat /\ NumPages > 0 /\ NodeAlign \in Nat /\ NodeAlign > 0
<1>1. PageSize \in Nat /\ HeapOffset \in Nat /\ HeapOffset > 0 /\ HeapOffset < PageSize
  BY HeapsAssumption
<1>2. (PageSize - HeapOffset) % NodeAlign = 0
  BY <1>1, HeapsAssumption, MultiplesAdd
<1> QED BY <1>1, <1>2, HeapsAssumption, NodeAlignAssumption

(* Pages that follow each other do not meet.                               *)
LEMMA Products ==
  ASSUME NEW p \in Nat, NEW q \in Nat, p < q
  PROVE  p * PageSize \in Nat /\ q * PageSize \in Nat /\ p * PageSize + PageSize <= q * PageSize
<1>1. PICK d \in Nat : q = p + 1 + d
  <2>1. q - p - 1 \in Nat /\ q = p + 1 + (q - p - 1)
    OBVIOUS
  <2> QED BY <2>1
<1>2. q * PageSize = p * PageSize + PageSize + d * PageSize
  BY <1>1, PageFacts
<1>3. p * PageSize \in Nat /\ q * PageSize \in Nat /\ d * PageSize \in Nat
  BY PageFacts
<1> QED BY <1>2, <1>3, PageFacts

(* Addresses go up with the pages.                                         *)
LEMMA Addresses ==
  ASSUME NEW p \in Nat, NEW q \in Nat
  PROVE  /\ Address(p) \in Nat
         /\ Address(p + q) = Address(p) + q * PageSize /\ q * PageSize \in Nat
         /\ Address(p + 1) = Address(p) + PageSize
         /\ p < q => Address(p) + PageSize <= Address(q)
         /\ p <= q => Address(p) <= Address(q)
         /\ Address(p) = Address(q) => p = q
         /\ Address(p) < Address(q) => p < q
<1>1. p * PageSize \in Nat /\ q * PageSize \in Nat
  BY PageFacts
<1>2. (p + q) * PageSize = p * PageSize + q * PageSize /\ (p + 1) * PageSize = p * PageSize + PageSize
  BY PageFacts
<1>3. p < q => p * PageSize + PageSize <= q * PageSize
  BY Products
<1>4. q < p => q * PageSize + PageSize <= p * PageSize
  BY Products
<1> QED BY <1>1, <1>2, <1>3, <1>4, PageFacts DEF Address

(* Each address is in one page. *)
LEMMA PageOfGives ==
  ASSUME NEW a \in Nat, NEW k, k = PageOf(a)
  PROVE  k \in Nat /\ Address(k) <= a /\ a < Address(k) + PageSize
<1>1. a = (PageSize * (a \div PageSize)) + (a % PageSize) /\ a \div PageSize \in Nat /\ a % PageSize \in 0..PageSize-1
  BY PageFacts
<1>2. PageSize * (a \div PageSize) = (a \div PageSize) * PageSize
  BY <1>1, PageFacts
<1>3. k \in Nat /\ Address(k) = PageSize * (a \div PageSize)
  BY <1>1, <1>2 DEF Address, PageOf
<1>4. Address(k) \in Nat
  BY <1>3, Addresses
<1> QED BY <1>1, <1>3, <1>4, PageFacts

(* An address lies in one page.                                            *)
LEMMA OnePage ==
  ASSUME NEW a \in Nat, NEW j \in Nat, NEW k \in Nat,
         Address(j) <= a, a < Address(j) + PageSize, Address(k) <= a, a < Address(k) + PageSize
  PROVE  j = k
<1>1. Address(j) \in Nat /\ Address(k) \in Nat /\ PageSize \in Nat
  BY Addresses, PageFacts
<1>2. ~ j < k
  <2> SUFFICES ASSUME j < k PROVE FALSE
    OBVIOUS
  <2>1. Address(j) + PageSize <= Address(k)
    BY Addresses
  <2> QED BY <2>1, <1>1
<1>3. ~ k < j
  <2> SUFFICES ASSUME k < j PROVE FALSE
    OBVIOUS
  <2>1. Address(k) + PageSize <= Address(j)
    BY Addresses
  <2> QED BY <2>1, <1>1
<1> QED BY <1>2, <1>3

(* ... which PageOf finds from the address it starts at.                   *)
LEMMA PageOfAddress ==
  ASSUME NEW p \in Nat
  PROVE  PageOf(Address(p)) = p
<1>1. Address(p) \in Nat /\ Address(p) < Address(p) + PageSize
  BY Addresses, PageFacts
<1>2. PICK k \in Nat : k = PageOf(Address(p)) /\ Address(k) <= Address(p) /\ Address(p) < Address(k) + PageSize
  BY <1>1, PageOfGives
<1> QED BY <1>1, <1>2, OnePage

(* A heap ends where the page after its last one starts.                   *)
LEMMA EndIs ==
  ASSUME NEW h, NEW p \in Nat, h[p].size \in Nat
  PROVE  EndOf(h, p) = Address(p + h[p].size) /\ EndOf(h, p) \in Nat /\ Address(p) \in Nat
<1>1. PICK n \in Nat : n = h[p].size
  OBVIOUS
<1>2. EndOf(h, p) = Address(p) + n * PageSize
  BY <1>1 DEF EndOf
<1>3. p + n \in Nat /\ Address(p + n) = Address(p) + n * PageSize
  BY Addresses
<1>4. Address(p) \in Nat /\ Address(p + n) \in Nat
  BY <1>3, Addresses
<1> QED BY <1>1, <1>2, <1>3, <1>4

(* A page as a piece of memory.                                            *)
LEMMA PagePieceIs ==
  ASSUME NEW q \in Nat
  PROVE  /\ GoodPiece(PagePiece(q)) /\ PagePiece(q).at = Address(q) /\ PagePiece(q).size = PageSize
         /\ \A a : a \in Covers(PagePiece(q)) <=> a \in Int /\ Address(q) <= a /\ a < Address(q) + PageSize
<1>1. Address(q) \in Nat
  BY Addresses
<1> QED BY <1>1, PageFacts, PieceCovers DEF PagePiece, GoodPiece, Pieces, Piece

(* The pages of a block, by address.                                       *)
LEMMA PagesBetween ==
  ASSUME NEW p \in Nat, NEW n \in Nat, NEW a \in Nat, NEW k \in Nat, Address(k) <= a, a < Address(k) + PageSize
  PROVE  Address(p) <= a /\ a < Address(p + n) <=> p <= k /\ k < p + n
<1>0. PICK m \in Nat : m = p + n
  OBVIOUS
<1>1. Address(p) \in Nat /\ Address(k) \in Nat /\ Address(m) \in Nat /\ PageSize \in Nat
  BY Addresses, PageFacts
<1>2. p <= k => Address(p) <= Address(k)
  BY Addresses
<1>3. k < m => Address(k) + PageSize <= Address(m)
  BY Addresses
<1>4. k < p => Address(k) + PageSize <= Address(p)
  BY Addresses
<1>5. m <= k => Address(m) <= Address(k)
  BY Addresses
<1> QED BY <1>0, <1>1, <1>2, <1>3, <1>4, <1>5

-----------------------------------------------------------------------------
(* A free list and what was given out of it. *)
LEMMA SplitMembers ==
  ASSUME NEW list, NEW pieces, NEW from, NEW to
  PROVE  Split(list, pieces, from, to) <=>
           /\ \A a : a \in Free(list) \/ (\E x \in pieces : a \in Covers(x)) <=> a \in from .. to - 1
           /\ \A x \in pieces : \A a \in Covers(x) : a \notin Free(list)
           /\ \A x, y \in pieces : x # y => \A a \in Covers(x) : a \notin Covers(y)
BY DEF Split

(* An allocate: the piece goes over to the pieces. *)
LEMMA SplitTake ==
  ASSUME NEW list, GoodList(list), NEW pieces, NEW from, NEW to, Split(list, pieces, from, to),
         NEW n \in Nat, n > 0, n % NodeAlign = 0,
         NEW i \in 1..Len(list), LongEnough(list[i], n),
         NEW new, new = AllocNode(list, i, n), NEW x, x = Piece(list[i].at, n)
  PROVE  /\ GoodList(new) /\ Split(new, pieces \cup {x}, from, to) /\ x \notin pieces
         /\ GoodPiece(x) /\ Covers(x) \subseteq from .. to - 1 /\ x.at = list[i].at /\ x.size = n
<1>1. /\ GoodList(new)
      /\ \A a : a \in Free(new) <=> a \in Free(list) /\ a \notin Covers(x)
      /\ \A a \in Covers(x) : a \in Free(list)
  BY AllocGood
<1>2. GoodPiece(x) /\ x.at = list[i].at /\ x.size = n /\ x.at \in Covers(x)
  <2>1. list[i].at \in Nat
    BY ListFacts, PieceFacts
  <2> QED BY <2>1, PieceCovers DEF GoodPiece, Pieces, Piece
<1>3. x \notin pieces
  BY <1>1, <1>2, SplitMembers
<1>4. Split(new, pieces \cup {x}, from, to)
  <2>1. \A a : a \in Free(new) \/ (\E y \in pieces \cup {x} : a \in Covers(y)) <=> a \in from .. to - 1
    BY <1>1, SplitMembers
  <2>2. \A y \in pieces \cup {x} : \A a \in Covers(y) : a \notin Free(new)
    BY <1>1, SplitMembers
  <2>3. \A y, z \in pieces \cup {x} : y # z => \A a \in Covers(y) : a \notin Covers(z)
    BY <1>1, SplitMembers
  <2> QED BY <2>1, <2>2, <2>3, SplitMembers
<1>5. Covers(x) \subseteq from .. to - 1
  BY <1>1, SplitMembers
<1> QED BY <1>1, <1>2, <1>3, <1>4, <1>5

(* A free: the piece goes back. *)
LEMMA SplitPut ==
  ASSUME NEW list, GoodList(list), NEW pieces, NEW from, NEW to, Split(list, pieces, from, to),
         NEW x \in pieces, x \in Pieces, NEW n \in Nat, n > 0, Round(n) = x.size,
         NEW new, new = DeallocSpace(list, x.at, n)
  PROVE  GoodList(new) /\ Split(new, pieces \ {x}, from, to)
<1>1. x.at \in Nat /\ Piece(x.at, Round(n)) = x
  BY DEF Pieces, Piece
<1>2. /\ GoodList(new)
      /\ \A a : a \in Free(new) <=> a \in Free(list) \/ a \in Covers(x)
  <2>1. \A a \in Covers(Piece(x.at, Round(n))) : a \notin Free(list)
    BY <1>1, SplitMembers
  <2>2. /\ GoodList(new)
        /\ \A a : a \in Free(new) <=> a \in Free(list) \/ a \in Covers(Piece(x.at, Round(n)))
    BY <2>1, <1>1, DeallocGood
  <2> QED BY <2>2, <1>1
<1>3. Split(new, pieces \ {x}, from, to)
  <2>1. \A a : a \in Free(new) \/ (\E y \in pieces \ {x} : a \in Covers(y)) <=> a \in from .. to - 1
    BY <1>2, SplitMembers
  <2>2. \A y \in pieces \ {x} : \A a \in Covers(y) : a \notin Free(new)
    BY <1>2, SplitMembers
  <2>3. \A y, z \in pieces \ {x} : y # z => \A a \in Covers(y) : a \notin Covers(z)
    BY SplitMembers
  <2> QED BY <2>1, <2>2, <2>3, SplitMembers
<1> QED BY <1>2, <1>3

(* A list of one piece, of which nothing is given out. *)
LEMMA SplitNew ==
  ASSUME NEW at \in Nat, NEW n \in Nat, n > 0, n % NodeAlign = 0, NEW to, to = at + n
  PROVE  GoodList(<<Piece(at, n)>>) /\ Split(<<Piece(at, n)>>, {}, at, to)
<1> DEFINE list == <<Piece(at, n)>>
<1>1. list \in Seq(Pieces) /\ Len(list) = 1 /\ list[1] = Piece(at, n) /\ GoodPiece(list[1])
  BY DEF GoodPiece, Piece, Pieces
<1>2. GoodList(list)
  BY <1>1 DEF GoodList
<1>3. \A a : a \in Free(list) <=> a \in at .. to - 1
  <2>1. \A a : a \in Free(list) <=> a \in Covers(Piece(at, n))
    <3>1. \A a : a \in Free(list) <=> \E i \in 1..Len(list) : a \in Covers(list[i])
      BY <1>1, FreeMembers
    <3>2. \A i : i \in 1..Len(list) <=> i = 1
      BY <1>1
    <3> HIDE DEF list
    <3> QED BY <3>1, <3>2, <1>1
  <2> QED BY <2>1, PieceCovers
<1>4. Split(list, {}, at, to)
  BY <1>3, SplitMembers
<1> QED BY <1>2, <1>4

(* A stack: no list, and the pieces lie up to its top. *)
LEMMA NothingFree ==
  \A a : a \notin Free(<<>>)
BY DEF Free

(* A stack grows by a piece at its top.                                    *)
LEMMA SplitPush ==
  ASSUME NEW pieces, NEW from \in Int, NEW to \in Int, from <= to, Split(<<>>, pieces, from, to),
         NEW n \in Nat, n > 0, to \in Nat, NEW x, x = Piece(to, n), NEW top, top = to + n
  PROVE  Split(<<>>, pieces \cup {x}, from, top) /\ x \notin pieces
<1>1. \A a : a \in Covers(x) <=> a \in to .. top - 1
  BY PieceCovers
<1>2. \A y \in pieces : \A a \in Covers(y) : a \in from .. to - 1
  BY SplitMembers
<1>3. \A y \in pieces : \A a \in Covers(y) : a \notin Covers(x)
  BY <1>1, <1>2
<1>4. x \notin pieces
  <2>1. to \in Covers(x)
    BY <1>1
  <2> QED BY <2>1, <1>3
<1>5. \A a : (\E y \in pieces \cup {x} : a \in Covers(y)) <=> a \in from .. top - 1
  <2>1. \A a : a \in from .. top - 1 <=> a \in from .. to - 1 \/ a \in to .. top - 1
    OBVIOUS
  <2>2. \A a : (\E y \in pieces : a \in Covers(y)) <=> a \in from .. to - 1
    BY SplitMembers, NothingFree
  <2> QED BY <2>1, <2>2, <1>1
<1>6. \A y, z \in pieces \cup {x} : y # z => \A a \in Covers(y) : a \notin Covers(z)
  BY <1>3, SplitMembers
<1> QED BY <1>4, <1>5, <1>6, SplitMembers, NothingFree

(* ... and shrinks to a piece, with all above it.                          *)
LEMMA SplitPop ==
  ASSUME NEW pieces \in SUBSET Pieces, \A y \in pieces : y.size > 0,
         NEW from \in Int, NEW to \in Int, Split(<<>>, pieces, from, to),
         NEW x \in pieces, NEW top, top = x.at
  PROVE  Split(<<>>, {y \in pieces : y.at < x.at}, from, top) /\ from <= top /\ top <= to
<1>0. \A y \in pieces : y.at \in Nat /\ y.size \in Nat /\ y.size > 0
  BY DEF Pieces
<1>1. \A y \in pieces : \A a : a \in Covers(y) <=> a \in Int /\ y.at <= a /\ a < y.at + y.size
  BY <1>0, CoversMembers
<1>2. \A a : (\E y \in pieces : a \in Covers(y)) <=> a \in from .. to - 1
  BY SplitMembers, NothingFree
<1>3. \A y, z \in pieces : y # z => \A a \in Covers(y) : a \notin Covers(z)
  BY SplitMembers
<1>4. x.at \in Covers(x) /\ x.at \in from .. to - 1
  <2>1. x.at \in Covers(x)
    BY <1>0, <1>1
  <2> QED BY <2>1, <1>2
<1>5. ASSUME NEW y \in pieces, y.at < x.at, NEW a \in Covers(y) PROVE a \in from .. x.at - 1
  <2>1. a \in from .. to - 1
    BY <1>5, <1>2
  <2>2. x.at \notin Covers(y)
    BY <1>3, <1>4, <1>5
  <2>3. a \in Int /\ y.at <= a /\ a < y.at + y.size
    BY <1>1, <1>5
  <2>4. ~ (y.at <= x.at /\ x.at < y.at + y.size)
    BY <2>2, <1>1, <1>0
  <2> QED BY <2>1, <2>3, <2>4, <1>0, <1>5
<1>6. ASSUME NEW a \in from .. x.at - 1 PROVE \E y \in pieces : y.at < x.at /\ a \in Covers(y)
  <2>1. a \in from .. to - 1
    BY <1>4
  <2>2. PICK y \in pieces : a \in Covers(y)
    BY <2>1, <1>2
  <2>3. y.at <= a /\ a \in Int
    BY <2>2, <1>1
  <2> QED BY <2>2, <2>3, <1>0
<1>7. Split(<<>>, {y \in pieces : y.at < x.at}, from, top)
  BY <1>3, <1>5, <1>6, SplitMembers, NothingFree
<1> QED BY <1>4, <1>7

(* Where whole pages are given out, the free pieces are whole pages, too:  *)
(* a piece that ends within a page would be joined with the next.          *)
LEMMA SplitAligned ==
  ASSUME NEW list, GoodList(list), NEW Q \in SUBSET Nat, NEW r \in Nat, NEW m \in Nat,
         Split(list, PagePieces(Q), Address(r), Address(m)),
         NEW i \in 1..Len(list)
  PROVE  /\ PageOf(list[i].at) \in Nat /\ PageOf(list[i].at) >= r /\ PageOf(list[i].at) < m
         /\ PageOf(list[i].at) \notin Q
         /\ Piece(list[i].at, PageSize) = PagePiece(PageOf(list[i].at))
         /\ LongEnough(list[i], PageSize)
<1> DEFINE s == list[i].at
           k == PageOf(s)
           e == End(list[i])
<1>0. /\ \A a : a \in Free(list) \/ (\E x \in PagePieces(Q) : a \in Covers(x)) <=> a \in Address(r) .. Address(m) - 1
      /\ \A x \in PagePieces(Q) : \A a \in Covers(x) : a \notin Free(list)
  BY SplitMembers
<1>1. ASSUME NEW a \in Nat, a \in Free(list), NEW c \in Nat, NEW j \in Nat,
             Address(j) <= a, a < Address(j) + PageSize, Address(j) <= c, c < Address(j) + PageSize
      PROVE  c \in Free(list) /\ r <= j /\ j < m /\ j \notin Q
  <2>0. Address(r) \in Nat /\ Address(m) \in Nat
    BY Addresses
  <2>1. Address(r) <= a /\ a < Address(m)
    BY <1>0, <1>1, <2>0
  <2>2. r <= j /\ j < m
    <3>1. CASE r <= m
      <4>1. PICK n \in Nat : m = r + n
        <5>1. m - r \in Nat /\ m = r + (m - r)
          BY <3>1
        <5> QED BY <5>1
      <4> QED BY <4>1, <2>1, <1>1, PagesBetween
    <3>2. CASE m < r
      <4>1. Address(m) <= Address(r)
        BY <3>2, Addresses
      <4> QED BY <4>1, <2>0, <2>1
    <3> QED BY <3>1, <3>2
  <2>3. c \in Address(r) .. Address(m) - 1
    <3>1. PICK n \in Nat : m = r + n
      <4>1. m - r \in Nat /\ m = r + (m - r)
        BY <2>2
      <4> QED BY <4>1
    <3>2. Address(r) <= c /\ c < Address(m)
      BY <3>1, <2>2, <1>1, PagesBetween
    <3> QED BY <3>2, <2>0
  <2>4. ASSUME NEW x \in PagePieces(Q), c \in Covers(x) PROVE FALSE
    <3>1. PICK q \in Q : x = PagePiece(q)
      BY DEF PagePieces
    <3>2. Address(q) <= c /\ c < Address(q) + PageSize
      BY <3>1, <2>4, PagePieceIs
    <3>3. q = j
      BY <3>2, <1>1, OnePage
    <3>4. a \in Covers(x)
      BY <3>1, <3>3, <1>1, PagePieceIs
    <3> QED BY <3>4, <1>0, <1>1
  <2>5. j \notin Q
    <3> SUFFICES ASSUME j \in Q PROVE FALSE
      OBVIOUS
    <3>1. PagePiece(j) \in PagePieces(Q) /\ c \in Covers(PagePiece(j))
      BY <1>1, PagePieceIs DEF PagePieces
    <3> QED BY <3>1, <2>4
  <2> QED BY <2>2, <2>3, <2>4, <2>5, <1>0
<1>2. /\ s \in Nat /\ e \in Nat /\ s < e /\ e = s + list[i].size /\ list[i].size \in Nat
      /\ s \in Free(list) /\ list \in Seq(Pieces)
  <2>1. GoodPiece(list[i]) /\ list \in Seq(Pieces)
    BY ListFacts
  <2>2. s \in Nat /\ e \in Nat /\ s < e /\ e = s + list[i].size /\ list[i].size \in Nat
    BY <2>1, PieceFacts
  <2>3. s \in Covers(list[i])
    BY <2>1, <2>2, GoodPieceCovers
  <2> QED BY <2>1, <2>2, <2>3, FreeMembers
<1> HIDE DEF s, e
<1>3. k \in Nat /\ Address(k) <= s /\ s < Address(k) + PageSize /\ Address(k) \in Nat
  BY <1>2, PageOfGives, Addresses
<1> HIDE DEF k
<1>4. ASSUME NEW c \in Nat, c \in Free(list)
      PROVE  c + 1 # s /\ c # e
  <2>1. PICK j \in 1..Len(list) : c \in Covers(list[j])
    BY <1>2, <1>4, FreeMembers
  <2>2. GoodPiece(list[j])
    BY ListFacts
  <2>3. list[j].at <= c /\ c < End(list[j]) /\ list[j].at \in Nat /\ End(list[j]) \in Nat
    BY <2>1, <2>2, GoodPieceCovers, PieceFacts
  <2>4. Len(list) \in Nat
    BY ListFacts
  <2>5. \/ j = i \/ (i < j /\ e < list[j].at) \/ (j < i /\ End(list[j]) < s)
    BY <2>4 DEF GoodList, s, e
  <2>6. CASE j = i
    BY <2>6, <2>3, <1>2 DEF s, e
  <2> QED BY <2>3, <2>5, <2>6, <1>2
<1>5. s = Address(k)
  <2> SUFFICES ASSUME s # Address(k) PROVE FALSE
    OBVIOUS
  <2>1. s - 1 \in Nat /\ Address(k) <= s - 1 /\ s - 1 < Address(k) + PageSize
    BY <1>2, <1>3, PageFacts
  <2>2. s - 1 \in Free(list)
    BY <2>1, <1>1, <1>2, <1>3
  <2> QED BY <2>1, <2>2, <1>4, <1>2
<1>6. e >= s + PageSize
  <2> SUFFICES ASSUME e < s + PageSize PROVE FALSE
    BY <1>2, PageFacts
  <2>1. e \in Free(list)
    BY <1>1, <1>2, <1>3, <1>5
  <2> QED BY <2>1, <1>2, <1>4
<1>7. r <= k /\ k < m /\ k \notin Q
  BY <1>1, <1>2, <1>3
<1>8. list[i].size >= PageSize
  BY <1>2, <1>6, PageFacts
<1> QED BY <1>3, <1>5, <1>7, <1>8 DEF PagePiece, LongEnough, s, k

(* In the words of the properties.                                         *)
LEMMA SplitPartition ==
  ASSUME NEW list, GoodList(list), NEW pieces, NEW from, NEW to, Split(list, pieces, from, to)
  PROVE  IsFreeList(list) /\ Partition(PiecesOf(list) \cup pieces, from, to)
<1>1. list \in Seq(Pieces) /\ Len(list) \in Nat
  BY ListFacts
<1>2. \A x : x \in PiecesOf(list) <=> \E i \in 1..Len(list) : x = list[i]
  BY <1>1 DEF PiecesOf
<1>3. \A a : a \in Free(list) <=> \E x \in PiecesOf(list) : a \in Covers(x)
  BY <1>1, <1>2, FreeMembers
<1>4. UNION {Covers(x) : x \in PiecesOf(list) \cup pieces} = from .. to - 1
  BY <1>3, SplitMembers
<1>5. ASSUME NEW x \in PiecesOf(list) \cup pieces, NEW y \in PiecesOf(list) \cup pieces, x # y, NEW a \in Covers(x)
      PROVE  a \notin Covers(y)
  <2>1. CASE x \in PiecesOf(list) /\ y \in PiecesOf(list)
    <3>1. PICK i \in 1..Len(list), j \in 1..Len(list) : x = list[i] /\ y = list[j]
      BY <2>1, <1>2
    <3> QED BY <3>1, <1>5, PiecesApart
  <2>2. CASE x \in pieces /\ y \in pieces
    BY <2>2, <1>5, SplitMembers
  <2>3. CASE ~ (x \in PiecesOf(list) /\ y \in PiecesOf(list)) /\ ~ (x \in pieces /\ y \in pieces)
    BY <2>3, <1>3, <1>5, SplitMembers
  <2> QED BY <2>1, <2>2, <2>3
<1> QED BY <1>4, <1>5, GoodIsFree DEF Partition

-----------------------------------------------------------------------------
(* The length of a free list. *)
IsTotal(upto, list) ==
  /\ SpaceTotal(list) = upto[Len(list)]
  /\ upto[0] = 0
  /\ \A k \in 1..Len(list) : upto[k] \in Nat /\ upto[k] = upto[k-1] + list[k].size

(* The sum that SpaceTotal chooses exists.                                 *)
LEMMA TotalGives ==
  ASSUME NEW list, GoodList(list)
  PROVE  \E upto : IsTotal(upto, list)
<1> DEFINE N == Len(list)
           F(f) == [i \in 0..N |-> IF i = 0 THEN 0 ELSE f[i-1] + list[i].size]
           g == [k \in Nat |-> [x \in Nat |-> IF k \in 1..N THEN x + list[k].size ELSE x]]
           upto == CHOOSE f : f = F(f)
<1>1. SpaceTotal(list) = upto[N]
  BY DEF SpaceTotal
<1>2. N \in Nat /\ \A k \in 1..N : list[k].size \in Nat
  BY ListFacts, PieceFacts
<1>3. g \in [Nat -> [Nat -> Nat]]
  BY <1>2
<1> HIDE DEF N, g
<1>4. PICK f \in [0..N -> Nat] : IsIterated(f, 0, g, N)
  BY <1>2, <1>3, Iterated
<1>5. f[0] = 0 /\ \A k \in 1..N : f[k] = f[k-1] + list[k].size
  <2>1. ASSUME NEW k \in 1..N PROVE f[k] = f[k-1] + list[k].size
    <3>1. k \in Nat /\ k - 1 \in 0..N /\ f[k-1] \in Nat
      BY <1>2
    <3>2. f[k] = g[k][f[k-1]]
      BY <1>4 DEF IsIterated
    <3> QED BY <3>1, <3>2 DEF g
  <2> QED BY <2>1, <1>4 DEF IsIterated
<1>6. f = F(f)
  <2>1. ASSUME NEW i \in 0..N PROVE f[i] = F(f)[i]
    <3>1. CASE i = 0
      BY <3>1, <1>5
    <3>2. CASE i # 0
      <4>1. i \in 1..N
        BY <3>2, <1>2
      <4> QED BY <4>1, <3>2, <1>5
    <3> QED BY <3>1, <3>2
  <2>2. DOMAIN f = 0..N /\ DOMAIN F(f) = 0..N /\ f = [i \in 0..N |-> f[i]]
    OBVIOUS
  <2> QED BY <2>1, <2>2
<1>7. upto = F(upto)
  BY <1>6
<1> HIDE DEF upto
<1>8. upto[0] = 0 /\ \A k \in 1..N : upto[k] = upto[k-1] + list[k].size
  <2>1. \A k \in 0..N : upto[k] = IF k = 0 THEN 0 ELSE upto[k-1] + list[k].size
    BY <1>7
  <2>2. 0 \in 0..N /\ \A k \in 1..N : k \in 0..N /\ k # 0
    BY <1>2
  <2> QED BY <2>1, <2>2
<1>9. \A k \in 1..N : upto[k] \in Nat
  <2> DEFINE Bad == {k \in Nat : k <= N /\ upto[k] \notin Nat}
  <2> SUFFICES ASSUME Bad # {} PROVE FALSE
    BY <1>2
  <2>1. PICK k \in Bad : \A j \in Bad : k <= j
    BY LeastNatural
  <2>2. k \in 1..N /\ k - 1 \in Nat /\ k - 1 <= N /\ k - 1 \notin Bad
    BY <2>1, <1>2, <1>8
  <2>3. upto[k-1] \in Nat /\ upto[k] \notin Nat
    BY <2>2, <2>1
  <2>4. upto[k] = upto[k-1] + list[k].size /\ list[k].size \in Nat
    BY <2>2, <1>2, <1>8
  <2> QED BY <2>3, <2>4
<1> QED BY <1>1, <1>8, <1>9 DEF IsTotal, N

(* Gaps do not count. *)
LEMMA TotalBound ==
  ASSUME NEW list, GoodList(list), NEW upto, IsTotal(upto, list), NEW n \in 1..Len(list)
  PROVE  /\ upto[n] <= End(list[n]) - list[1].at
         /\ n > 1 => upto[n] < End(list[n]) - list[1].at
<1> DEFINE Ok(k) == /\ upto[k] <= End(list[k]) - list[1].at
                    /\ k > 1 => upto[k] < End(list[k]) - list[1].at
           Bad == {k \in Nat : k \in 1..Len(list) /\ ~ Ok(k)}
<1>0. Len(list) \in Nat /\ \A k \in 1..Len(list) :
         /\ list[k].at \in Nat /\ list[k].size \in Nat
         /\ End(list[k]) = list[k].at + list[k].size /\ upto[k] \in Nat /\ upto[k] = upto[k-1] + list[k].size
  BY ListFacts, PieceFacts DEF IsTotal
<1>1. \A i, j \in 1..Len(list) : i < j => End(list[i]) < list[j].at
  BY DEF GoodList
<1> SUFFICES ASSUME Bad # {} PROVE FALSE
  BY <1>0
<1>2. PICK k \in Bad : \A j \in Bad : k <= j
  BY LeastNatural
<1>3. CASE k = 1
  BY <1>3, <1>2, <1>0 DEF IsTotal
<1>4. CASE k # 1
  <2>1. k - 1 \in 1..Len(list) /\ k - 1 \in Nat /\ k \in 1..Len(list) /\ k - 1 \notin Bad /\ 1 \in 1..Len(list) /\ k - 1 < k
    BY <1>2, <1>4, <1>0
  <2>2. upto[k-1] <= End(list[k-1]) - list[1].at
    BY <2>1
  <2>3. End(list[k-1]) < list[k].at
    BY <2>1, <1>1
  <2>4. upto[k] < End(list[k]) - list[1].at /\ upto[k] \in Nat /\ End(list[k]) - list[1].at \in Int
    <3>1. /\ upto[k] = upto[k-1] + list[k].size /\ End(list[k]) = list[k].at + list[k].size
          /\ upto[k] \in Nat /\ list[k].size \in Nat /\ list[k].at \in Nat
      BY <2>1, <1>0
    <3>2. upto[k-1] \in Nat /\ End(list[k-1]) \in Nat /\ list[1].at \in Nat
      <4>1. PICK j \in 1..Len(list) : j = k - 1
        BY <2>1
      <4>2. upto[j] \in Nat /\ list[j].at \in Nat /\ list[j].size \in Nat /\ End(list[j]) = list[j].at + list[j].size
        BY <1>0
      <4>3. End(list[j]) \in Nat
        BY <4>2
      <4>4. list[1].at \in Nat
        BY <2>1, <1>0
      <4> QED BY <4>1, <4>2, <4>3, <4>4
    <3>3. upto[k-1] <= End(list[k-1]) - list[1].at
      BY <2>2
    <3> HIDE DEF Ok, Bad
    <3> QED BY <3>1, <3>2, <3>3, <2>3
  <2>5. Ok(k)
    BY <2>4
  <2> QED BY <2>5, <1>2
<1> QED BY <1>3, <1>4

(* A heap is all free when nothing of it is given out. *)
LEMMA SplitEmpty ==
  ASSUME NEW list, GoodList(list), NEW pieces \in SUBSET Pieces, \A x \in pieces : x.size > 0,
         NEW from \in Nat, NEW to \in Nat, from < to, Split(list, pieces, from, to)
  PROVE  SpaceTotal(list) = to - from <=> pieces = {}
<1> DEFINE n == Len(list)
<1>0. /\ list \in Seq(Pieces) /\ n \in Nat
      /\ \A k \in 1..n : /\ GoodPiece(list[k]) /\ list[k].at \in Nat /\ list[k].size \in Nat /\ End(list[k]) \in Nat
                         /\ End(list[k]) = list[k].at + list[k].size /\ list[k].size > 0
                         /\ \A a : a \in Covers(list[k]) <=> a \in Int /\ list[k].at <= a /\ a < End(list[k])
  BY ListFacts, PieceFacts, GoodPieceCovers
<1>1. \A a : a \in Free(list) <=> \E k \in 1..n : a \in Covers(list[k])
  BY <1>0, FreeMembers
<1>2. PICK upto : IsTotal(upto, list)
  BY TotalGives
<1>3. /\ \A a : a \in Free(list) \/ (\E x \in pieces : a \in Covers(x)) <=> a \in from .. to - 1
      /\ \A x \in pieces : \A a \in Covers(x) : a \notin Free(list)
  BY SplitMembers
<1>4. \A i, j \in 1..n : i < j => End(list[i]) < list[j].at
  BY DEF GoodList
<1> HIDE DEF n
<1>5. \A k \in 1..n : from <= list[k].at /\ End(list[k]) <= to
  <2>1. ASSUME NEW k \in 1..n PROVE from <= list[k].at /\ End(list[k]) <= to
    <3>0. list[k].at \in Nat /\ list[k].size \in Nat /\ list[k].size > 0 /\ End(list[k]) = list[k].at + list[k].size
      BY <1>0
    <3>1. list[k].at \in Covers(list[k]) /\ End(list[k]) - 1 \in Covers(list[k])
      <4>1. \A a : a \in Covers(list[k]) <=> a \in Int /\ list[k].at <= a /\ a < End(list[k])
        BY <1>0
      <4> QED BY <4>1, <3>0
    <3>2. list[k].at \in from .. to - 1 /\ End(list[k]) - 1 \in from .. to - 1
      BY <3>1, <1>1, <1>3
    <3> QED BY <3>2, <1>0
  <2> QED BY <2>1
<1>6. \A x \in pieces : x.at \in Covers(x) /\ x.at \in from .. to - 1
  <2>1. ASSUME NEW x \in pieces PROVE x.at \in Covers(x)
    <3>1. x.at \in Nat /\ x.size \in Nat /\ x.size > 0
      BY DEF Pieces
    <3> QED BY <3>1, CoversMembers
  <2> QED BY <2>1, <1>3
<1>7. ASSUME SpaceTotal(list) = to - from PROVE pieces = {}
  <2>1. SpaceTotal(list) = upto[n] /\ upto[0] = 0
    BY <1>2 DEF IsTotal, n
  <2>2. n = 1
    <3>1. n # 0
      <4> SUFFICES ASSUME n = 0 PROVE FALSE
        OBVIOUS
      <4>1. to - from = 0
        BY <2>1, <1>7
      <4> QED BY <4>1
    <3>2. n \in 1..n /\ 1 \in 1..n
      BY <3>1, <1>0
    <3>3. n > 1 => upto[n] < End(list[n]) - list[1].at
      BY <3>2, <1>2, TotalBound DEF n
    <3>5. from <= list[1].at /\ End(list[n]) <= to /\ list[1].at \in Nat /\ End(list[n]) \in Nat
      BY <3>2, <1>0, <1>5
    <3>4. upto[n] \in Nat
      BY <3>2, <1>2 DEF IsTotal, n
    <3> QED BY <3>1, <3>3, <3>4, <3>5, <2>1, <1>0, <1>7
  <2>3. upto[1] <= End(list[1]) - list[1].at
    <3>1. 1 \in 1..Len(list)
      BY <2>2 DEF n
    <3> QED BY <3>1, <1>2, TotalBound
  <2>4. list[1].at = from /\ End(list[1]) = to
    BY <2>1, <2>2, <2>3, <1>0, <1>5, <1>7
  <2>5. \A a \in from .. to - 1 : a \in Free(list)
    BY <2>2, <2>4, <1>0, <1>1
  <2> QED BY <2>5, <1>3, <1>6
<1>8. ASSUME pieces = {} PROVE SpaceTotal(list) = to - from
  <2>1. \A a : a \in Free(list) <=> a \in from .. to - 1
    BY <1>3, <1>8
  <2>2. n # 0
    BY <2>1, <1>1
  <2>3. ~ 2 <= n
    <3> SUFFICES ASSUME 2 <= n PROVE FALSE
      OBVIOUS
    <3>1. 1 \in 1..n /\ 2 \in 1..n
      BY <1>0
    <3>2. End(list[1]) < list[2].at /\ End(list[1]) \in Nat
      BY <3>1, <1>0, <1>4
    <3>3. End(list[1]) \in from .. to - 1
      <4>1. from <= list[1].at /\ End(list[2]) <= to
        BY <3>1, <1>5
      <4>2. list[1].at < End(list[1]) /\ list[2].at < End(list[2]) /\ list[1].at \in Nat /\ list[2].at \in Nat /\ End(list[2]) \in Nat
        <5>1. list[1].at \in Nat /\ list[1].size \in Nat /\ list[1].size > 0 /\ End(list[1]) = list[1].at + list[1].size
          BY <3>1, <1>0
        <5>2. list[2].at \in Nat /\ list[2].size \in Nat /\ list[2].size > 0 /\ End(list[2]) = list[2].at + list[2].size
          BY <3>1, <1>0
        <5> QED BY <5>1, <5>2
      <4> QED BY <4>1, <4>2, <3>2
    <3>4. PICK k \in 1..n : End(list[1]) \in Covers(list[k])
      BY <3>3, <2>1, <1>1
    <3>5. list[k].at <= End(list[1]) /\ End(list[1]) < End(list[k])
      BY <3>4, <1>0
    <3>6. k = 1 \/ 1 < k
      OBVIOUS
    <3> QED BY <3>1, <3>5, <3>6, <1>0, <1>4
  <2>4. n = 1
    BY <2>2, <2>3, <1>0
  <2>5. list[1].at <= from /\ to - 1 < End(list[1])
    <3>1. from \in Free(list) /\ to - 1 \in Free(list)
      BY <2>1
    <3>2. \A k : k \in 1..n <=> k = 1
      BY <2>4
    <3> QED BY <3>1, <3>2, <1>0, <1>1
  <2>6. SpaceTotal(list) = upto[1] /\ upto[0] = 0 /\ upto[1] = upto[0] + list[1].size
    <3>1. 1 \in 1..Len(list) /\ Len(list) = 1
      BY <2>4 DEF n
    <3> QED BY <3>1, <1>2 DEF IsTotal
  <2>7. 1 \in 1..n
    BY <2>4
  <2> QED BY <2>5, <2>6, <2>7, <1>0, <1>5
<1> QED BY <1>7, <1>8

-----------------------------------------------------------------------------
(* What the memory of heaps looks like. *)
LEMMA PageIs ==
  /\ \A q : q \in Page <=> q \in Nat /\ q < NumPages
  /\ NumPages \in Nat /\ NumPages > 0 /\ NoPage \notin Page /\ NoPage = NumPages
BY PageFacts DEF Page, NoPage

(* What a header is made of.                                               *)
LEMMA HeaderIs ==
  ASSUME NEW h \in [Page -> HeaderType], NEW q \in Page
  PROVE  /\ h[q] \in HeaderType
         /\ h[q].kind \in Kind /\ h[q].size \in Nat /\ h[q].size <= NumPages
         /\ h[q].list \in Seq(Pieces) /\ h[q].base \in Nat /\ h[q].next \in Nat
         /\ h[q].expand \in Seq(Page) /\ h[q].max \in Nat /\ h[q].space \in Nat
<1>1. h[q] \in HeaderType
  OBVIOUS
<1> QED BY <1>1, PageFacts DEF HeaderType

(* What the memory is made of.                                             *)
LEMMA MemTyped ==
  ASSUME NEW h, NEW b, NEW lv, NEW ow, NEW fr, MemGood(h, b, lv, ow, fr)
  PROVE  /\ h \in [Page -> HeaderType]
         /\ b \in [Page -> 0..NumPages] /\ \A q \in Page : b[q] \in Nat
         /\ lv \in SUBSET Page /\ fr \in SUBSET Page
         /\ ow \in SUBSET Pieces /\ \A x \in ow : x.size > 0
BY PageFacts DEF MemGood, MemType

(* Two blocks in use have no page in common. *)
LEMMA UsedApart ==
  ASSUME NEW b \in [Page -> 0..NumPages], BlocksGood(b), NEW p \in Page, NEW q \in Page, b[p] > 0, b[q] > 0,
         NEW k \in Nat, p <= k, k < p + b[p], q <= k, k < q + b[q]
  PROVE  p = q
<1>1. p \in Nat /\ q \in Nat /\ b[p] \in Nat /\ b[q] \in Nat
  BY PageIs
<1>2. p < q => p + b[p] <= q
  BY DEF BlocksGood
<1>3. q < p => q + b[q] <= p
  BY DEF BlocksGood
<1> QED BY <1>1, <1>2, <1>3

(* The parts of a compound heap. *)
LEMMA PartFacts ==
  ASSUME NEW h, NEW b, NEW lv, NEW ow, NEW fr, MemGood(h, b, lv, ow, fr),
         NEW p, NEW r, IsPart(h, lv, p, r)
  PROVE  /\ p \in Page /\ r \in Page /\ p \in lv /\ p \in Compounds(h, lv) /\ CompoundGood(h, b, lv, fr, p)
         /\ PartGood(h, b, lv, fr, p, r)
         /\ h[p].kind = "compound" /\ h[r].kind = "compound" /\ h[r].base = p /\ h[p].base = p
         /\ h[r].size = h[p].size /\ b[r] = h[p].size /\ b[p] = h[p].size /\ h[p].size > 1
         /\ h[p].size \in Nat
         /\ IsPart(h, lv, p, p)
<1>0. /\ h \in [Page -> HeaderType] /\ lv \in SUBSET Page
      /\ p \in Compounds(h, lv) /\ CompoundGood(h, b, lv, fr, p)
      /\ p \in lv /\ p \in Page /\ h[p].kind = "compound"
  BY MemTyped DEF MemGood, IsPart, Compounds
<1>1. PICK i \in DOMAIN Parts(h, p) : Parts(h, p)[i] = r
  BY DEF IsPart
<1>2. PartGood(h, b, lv, fr, p, r)
  BY <1>0, <1>1 DEF CompoundGood
<1>3. Parts(h, p) \in Seq(Page)
  BY <1>0, HeaderIs DEF Parts
<1>4. r \in Page
  BY <1>1, <1>3
<1>5. 1 \in DOMAIN Parts(h, p) /\ Parts(h, p)[1] = p
  BY <1>0, <1>3 DEF CompoundGood
<1>6. IsPart(h, lv, p, p)
  BY <1>0, <1>5 DEF IsPart
<1>7. PartGood(h, b, lv, fr, p, p)
  BY <1>0, <1>5 DEF CompoundGood
<1>8. h[p].size \in Nat
  BY <1>0, HeaderIs
<1> QED BY <1>0, <1>2, <1>4, <1>6, <1>7, <1>8 DEF PartGood

(* A compound heap is its own first part.                                  *)
LEMMA FirstIsPart ==
  ASSUME NEW h, NEW b, NEW lv, NEW ow, NEW fr, MemGood(h, b, lv, ow, fr),
         NEW p \in lv, h[p].kind = "compound"
  PROVE  IsPart(h, lv, p, p)
<1>0. p \in Page /\ h \in [Page -> HeaderType]
  BY MemTyped
<1>1. CompoundGood(h, b, lv, fr, p) /\ p \in Compounds(h, lv)
  BY DEF MemGood, Compounds
<1>2. Parts(h, p) \in Seq(Page)
  BY <1>0, HeaderIs DEF Parts
<1>3. 1 \in DOMAIN Parts(h, p) /\ Parts(h, p)[1] = p
  BY <1>1, <1>2 DEF CompoundGood
<1> QED BY <1>1, <1>3 DEF IsPart

(* A part that the programs have is a first part. *)
LEMMA LivePart ==
  ASSUME NEW h, NEW b, NEW lv, NEW ow, NEW fr, MemGood(h, b, lv, ow, fr),
         NEW p, NEW r \in lv, IsPart(h, lv, p, r)
  PROVE  r = p
<1>1. h[r].kind = "compound" /\ h[r].base = p
  BY PartFacts
<1>2. IsPart(h, lv, r, r)
  BY <1>1, FirstIsPart
<1>3. h[r].base = r
  BY <1>2, PartFacts
<1> QED BY <1>1, <1>3

(* The pages given out of parts. *)
LEMMA GivenFacts ==
  ASSUME NEW h, NEW b, NEW lv, NEW ow, NEW fr, MemGood(h, b, lv, ow, fr),
         NEW q \in Given(h, b, lv, fr), NEW r, r = h[q].base
  PROVE  /\ q \in Page /\ q \in Nat /\ r \in Page /\ IsPart(h, lv, h[r].base, r) /\ Inside(h, r, q)
         /\ h[q].kind \in {"heap", "queue"} /\ b[q] = 0 /\ h[q].size = 1
         /\ q \in GivenIn(h, b, lv, fr, r)
<1>1. PageGood(h, b, lv, q) /\ q \in Page
  BY MemTyped DEF MemGood, Given
<1> QED BY <1>1, PageIs DEF PageGood, GivenIn

(* No page lies in two parts.                                              *)
LEMMA InOnePart ==
  ASSUME NEW h, NEW b, NEW lv, NEW ow, NEW fr, MemGood(h, b, lv, ow, fr),
         NEW p, NEW r, IsPart(h, lv, p, r), NEW p2, NEW r2, IsPart(h, lv, p2, r2),
         NEW k \in Nat, r <= k, k < r + h[r].size, r2 <= k, k < r2 + h[r2].size
  PROVE  r = r2 /\ p = p2
<1>1. /\ r \in Page /\ b[r] = h[r].size /\ h[r].size > 1 /\ h[r].base = p
      /\ r2 \in Page /\ b[r2] = h[r2].size /\ h[r2].size > 1 /\ h[r2].base = p2
  BY PartFacts
<1>2. b \in [Page -> 0..NumPages] /\ BlocksGood(b)
  BY MemTyped DEF MemGood
<1>3. b[r] > 0 /\ b[r2] > 0
  BY <1>1, <1>2, PageFacts
<1>4. r = r2
  BY <1>1, <1>2, <1>3, UsedApart
<1> QED BY <1>1, <1>4

(* A page that was given out knows its part.                               *)
LEMMA GivenBase ==
  ASSUME NEW h, NEW b, NEW lv, NEW ow, NEW fr, MemGood(h, b, lv, ow, fr),
         NEW q \in Given(h, b, lv, fr), NEW p, NEW r, IsPart(h, lv, p, r),
         r <= q, q < r + h[r].size
  PROVE  r = h[q].base /\ q # r /\ Inside(h, r, q)
<1>1. /\ q \in Nat /\ IsPart(h, lv, h[h[q].base].base, h[q].base) /\ Inside(h, h[q].base, q)
  BY GivenFacts
<1>2. h[q].base \in Nat /\ h[q].base <= q /\ q < h[q].base + h[h[q].base].size
  <2>1. h[q].base \in Page
    BY GivenFacts
  <2> QED BY <2>1, <1>1, PageIs DEF Inside
<1>3. r = h[q].base
  BY <1>1, <1>2, InOnePart
<1> QED BY <1>1, <1>2, <1>3, PageIs DEF Inside

(* A heap of the programs, and how many pages it has. *)
LEMMA LiveFacts ==
  ASSUME NEW h, NEW b, NEW lv, NEW ow, NEW fr, MemGood(h, b, lv, ow, fr), NEW p \in lv
  PROVE  /\ p \in Page /\ p \in Nat /\ h[p].kind \in Kind \ {"none"} /\ h[p].size \in Nat /\ h[p].size >= 1
         /\ b[p] \in Nat
         /\ b[p] > 0 => h[p].kind # "queue" /\ b[p] = h[p].size
         /\ b[p] = 0 => h[p].kind \in {"heap", "queue"} /\ p \in Given(h, b, lv, fr) /\ h[p].size = 1
         /\ p \in Given(h, b, lv, fr) => b[p] = 0
         /\ SimpleGood(h, ow, p) /\ LiveGood(h, b, p)
<1>1. p \in Page /\ h \in [Page -> HeaderType] /\ b[p] \in Nat
  BY MemTyped
<1>2. LiveGood(h, b, p) /\ SimpleGood(h, ow, p)
  BY DEF MemGood
<1>3. b[p] = 0 => p \in Given(h, b, lv, fr)
  BY <1>2 DEF LiveGood, Given
<1>4. b[p] = 0 => h[p].size = 1
  BY <1>3, GivenFacts
<1>5. p \in Given(h, b, lv, fr) => b[p] = 0
  BY GivenFacts
<1>6. h[p].kind \in Kind /\ h[p].size \in Nat
  BY <1>1, HeaderIs
<1> QED BY <1>1, <1>2, <1>3, <1>4, <1>5, <1>6, PageIs DEF LiveGood

(* Two of them have no page in common, unless one is a page of the other.  *)
LEMMA SimpleApart ==
  ASSUME NEW h, NEW b, NEW lv, NEW ow, NEW fr, MemGood(h, b, lv, ow, fr),
         NEW p \in lv, NEW q \in lv, h[p].kind # "compound", h[q].kind # "compound",
         NEW k \in Nat, p <= k, k < p + h[p].size, q <= k, k < q + h[q].size
  PROVE  p = q
<1>0. /\ b \in [Page -> 0..NumPages] /\ BlocksGood(b)
      /\ \A x \in Page : b[x] \in Nat
  BY MemTyped DEF MemGood
<1>1. ASSUME NEW u \in lv, NEW v \in lv, h[u].kind # "compound", u <= k, k < u + h[u].size, v <= k, k < v + h[v].size,
             b[u] > 0, b[v] = 0
      PROVE  FALSE
  <2>1. u \in Page /\ b[u] = h[u].size /\ v \in Given(h, b, lv, fr) /\ h[v].size = 1 /\ v \in Nat
    BY <1>1, LiveFacts
  <2>2. k = v
    BY <2>1, <1>1
  <2>3. PICK r \in Page : r = h[v].base /\ IsPart(h, lv, h[r].base, r) /\ Inside(h, r, v)
    BY <2>1, GivenFacts
  <2>4. h[r].kind = "compound" /\ b[r] = h[r].size /\ b[r] > 0
    <3>1. h[r].kind = "compound" /\ b[r] = h[h[r].base].size /\ h[h[r].base].size > 1 /\ h[r].size = h[h[r].base].size
          /\ h[h[r].base].size \in Nat
      BY <2>3, PartFacts
    <3> QED BY <3>1
  <2>5. r <= k /\ k < r + b[r]
    BY <2>2, <2>3, <2>4, PageIs DEF Inside
  <2>6. u = r
    BY <1>0, <1>1, <2>1, <2>4, <2>5, UsedApart
  <2> QED BY <2>4, <2>6, <1>1
<1>2. CASE b[p] > 0 /\ b[q] > 0
  <2>1. p \in Page /\ q \in Page /\ b[p] = h[p].size /\ b[q] = h[q].size
    BY <1>2, LiveFacts
  <2> QED BY <2>1, <1>0, <1>2, UsedApart
<1>3. CASE b[p] > 0 /\ b[q] = 0
  BY <1>1, <1>3
<1>4. CASE b[p] = 0 /\ b[q] > 0
  BY <1>1, <1>4
<1>5. CASE b[p] = 0 /\ b[q] = 0
  <2>1. h[p].size = 1 /\ h[q].size = 1 /\ p \in Nat /\ q \in Nat
    BY <1>5, LiveFacts
  <2> QED BY <2>1
<1>6. b[p] \in Nat /\ b[q] \in Nat
  BY LiveFacts
<1> QED BY <1>2, <1>3, <1>4, <1>5, <1>6

(* The pieces of a heap, by the page they start in. *)
LEMMA InPages ==
  ASSUME NEW h \in [Page -> HeaderType], NEW ow \in SUBSET Pieces, NEW p \in Page, NEW x
  PROVE  x \in In(h, ow, p) <=> /\ x \in ow /\ PageOf(x.at) \in Nat
                                /\ p <= PageOf(x.at) /\ PageOf(x.at) < p + h[p].size
<1>1. p \in Nat /\ h[p].size \in Nat
  BY PageIs, HeaderIs
<1>2. CASE x \in ow
  <2>1. x.at \in Nat
    BY <1>2 DEF Pieces
  <2>2. PICK k \in Nat : k = PageOf(x.at) /\ Address(k) <= x.at /\ x.at < Address(k) + PageSize
    BY <2>1, PageOfGives
  <2>3. PICK n \in Nat : n = h[p].size
    BY <1>1
  <2>4. Address(p) <= x.at /\ x.at < Address(p + n) <=> p <= k /\ k < p + n
    BY <1>1, <2>1, <2>2, PagesBetween
  <2>5. EndOf(h, p) = Address(p + n)
    BY <1>1, <2>3, EndIs
  <2>6. Address(p) \in Nat /\ Address(p + n) \in Nat
    <3>1. p + n \in Nat
      BY <1>1
    <3> QED BY <3>1, <1>1, Addresses
  <2> QED BY <1>2, <2>1, <2>2, <2>3, <2>4, <2>5, <2>6 DEF In
<1>3. CASE x \notin ow
  BY <1>3 DEF In
<1> QED BY <1>2, <1>3

(* A piece lies in one simple heap or stack.                               *)
LEMMA OneHolder ==
  ASSUME NEW h, NEW b, NEW lv, NEW ow, NEW fr, MemGood(h, b, lv, ow, fr),
         NEW p \in lv, NEW q \in lv, h[p].kind # "compound", h[q].kind # "compound",
         NEW x, x \in In(h, ow, p), x \in In(h, ow, q)
  PROVE  p = q
<1>1. h \in [Page -> HeaderType] /\ ow \in SUBSET Pieces /\ p \in Page /\ q \in Page
  BY MemTyped
<1>2. /\ PageOf(x.at) \in Nat /\ p <= PageOf(x.at) /\ PageOf(x.at) < p + h[p].size
      /\ q <= PageOf(x.at) /\ PageOf(x.at) < q + h[q].size
  BY <1>1, InPages
<1> QED BY <1>2, SimpleApart

(* A block nobody uses. *)
FreeAt(b, p, n) ==
  /\ p \in Page /\ n \in Nat /\ n >= 1 /\ p % n = 0 /\ p + n <= NumPages
  /\ \A q \in Page : b[q] > 0 => q + b[q] <= p \/ p + n <= q

(* The blocks that the region can give.                                    *)
LEMMA FreeBlockIs ==
  ASSUME blocks \in [Page -> 0..NumPages], NEW n \in Nat, n >= 1, NEW p
  PROVE  p \in BlocksFree(n) <=> FreeAt(blocks, p, n)
<1>0. \A q \in Page : blocks[q] \in Nat /\ q \in Nat
  BY PageIs
<1>1. \A k : k \in UsedPages <=> \E q \in Page : blocks[q] > 0 /\ k \in q .. q + blocks[q] - 1
  BY DEF UsedPages
<1>2. ASSUME NEW q \in Page, p \in Page, blocks[q] > 0,
             \A k \in p .. p + n - 1 : k \notin q .. q + blocks[q] - 1
      PROVE  q + blocks[q] <= p \/ p + n <= q
  <2>1. p \in Nat /\ q \in Nat /\ blocks[q] \in Nat
    BY <1>0, <1>2
  <2>2. p \notin q .. q + blocks[q] - 1
    <3>1. p \in p .. p + n - 1
      BY <2>1
    <3> QED BY <3>1, <1>2
  <2>3. ~ (p <= q /\ q < p + n)
    <3> SUFFICES ASSUME p <= q, q < p + n PROVE FALSE
      OBVIOUS
    <3>1. q \in p .. p + n - 1 /\ q \in q .. q + blocks[q] - 1
      BY <2>1, <1>2
    <3> QED BY <3>1, <1>2
  <2> QED BY <2>1, <2>2, <2>3
<1>3. ASSUME NEW q \in Page, p \in Page, blocks[q] > 0, q + blocks[q] <= p \/ p + n <= q, NEW k \in p .. p + n - 1
      PROVE  k \notin q .. q + blocks[q] - 1
  BY <1>0, <1>3
<1>4. p \in BlocksFree(n) <=> /\ p \in Page /\ p % n = 0 /\ p + n <= NumPages
                              /\ \A k \in p .. p + n - 1 : k \notin UsedPages
  BY DEF BlocksFree
<1>5. p \in Page /\ (\A k \in p .. p + n - 1 : k \notin UsedPages) =>
        \A q \in Page : blocks[q] > 0 => q + blocks[q] <= p \/ p + n <= q
  BY <1>1, <1>2
<1>6. p \in Page /\ (\A q \in Page : blocks[q] > 0 => q + blocks[q] <= p \/ p + n <= q) =>
        \A k \in p .. p + n - 1 : k \notin UsedPages
  BY <1>1, <1>3
<1> QED BY <1>4, <1>5, <1>6 DEF FreeAt

(* Nothing is in it. *)
LEMMA FreeIsUnused ==
  ASSUME NEW h, NEW b, NEW lv, NEW ow, NEW fr, MemGood(h, b, lv, ow, fr),
         NEW p, NEW n, FreeAt(b, p, n)
  PROVE  /\ \A q \in Page : p <= q /\ q < p + n => b[q] = 0 /\ q \notin lv /\ q \notin fr /\ q \notin Given(h, b, lv, fr)
         /\ \A c, r : IsPart(h, lv, c, r) => \A k \in Nat : p <= k /\ k < p + n => ~ (r <= k /\ k < r + h[r].size)
         /\ \A q \in lv : \A k \in Nat : p <= k /\ k < p + n => ~ (q <= k /\ k < q + h[q].size)
         /\ \A x \in ow : ~ (p <= PageOf(x.at) /\ PageOf(x.at) < p + n)
         /\ \A q : q \in Compounds(h, lv) /\ Moved(h, q) => h[q].space \in Page /\ b[h[q].space] > 0 /\ ~ (p <= h[q].space /\ h[q].space < p + n)
<1>0. /\ p \in Page /\ p \in Nat /\ n \in Nat /\ n >= 1 /\ \A q \in Page : q \in Nat /\ b[q] \in Nat
      /\ \A q \in Page : b[q] > 0 => q + b[q] <= p \/ p + n <= q
      /\ h \in [Page -> HeaderType] /\ ow \in SUBSET Pieces /\ lv \in SUBSET Page
  BY MemTyped, PageIs DEF FreeAt
<1>1. ASSUME NEW c, NEW r, IsPart(h, lv, c, r), NEW k \in Nat, p <= k, k < p + n, r <= k, k < r + h[r].size
      PROVE  FALSE
  <2>1. r \in Page /\ b[r] = h[r].size /\ b[r] > 0 /\ r \in Nat /\ b[r] \in Nat
    <3>1. r \in Page /\ b[r] = h[c].size /\ h[r].size = h[c].size /\ h[c].size > 1 /\ h[c].size \in Nat
      BY <1>1, PartFacts
    <3> QED BY <3>1, <1>0
  <2>2. r + b[r] <= p \/ p + n <= r
    BY <2>1, <1>0
  <2> QED BY <2>1, <2>2, <1>0, <1>1
<1>2. ASSUME NEW q \in Given(h, b, lv, fr), p <= q, q < p + n PROVE FALSE
  <2>1. PICK r \in Page : q \in Nat /\ IsPart(h, lv, h[r].base, r) /\ Inside(h, r, q)
    BY GivenFacts
  <2>2. r <= q /\ q < r + h[r].size
    BY <2>1, PageIs DEF Inside
  <2> QED BY <2>1, <2>2, <1>1, <1>2
<1>3. ASSUME NEW q \in Page, b[q] > 0, p <= q, q < p + n PROVE FALSE
  <2>1. q + b[q] <= p \/ p + n <= q
    BY <1>0, <1>3
  <2> QED BY <2>1, <1>0, <1>3
<1>4. ASSUME NEW q \in lv, NEW k \in Nat, p <= k, k < p + n, q <= k, k < q + h[q].size PROVE FALSE
  <2>1. CASE b[q] > 0
    <3>1. q \in Page /\ b[q] = h[q].size
      BY <2>1, LiveFacts
    <3>2. q + b[q] <= p \/ p + n <= q
      BY <3>1, <2>1, <1>0
    <3> QED BY <3>1, <3>2, <1>0, <1>4
  <2>2. CASE b[q] = 0
    <3>1. q \in Given(h, b, lv, fr) /\ h[q].size = 1 /\ q \in Nat
      BY <2>2, LiveFacts
    <3>2. k = q
      BY <3>1, <1>4
    <3> QED BY <3>1, <3>2, <1>4, <1>2
  <2>3. b[q] \in Nat
    BY LiveFacts
  <2> QED BY <2>1, <2>2, <2>3
<1>5. ASSUME NEW q \in Page, p <= q, q < p + n
      PROVE  b[q] = 0 /\ q \notin lv /\ q \notin fr /\ q \notin Given(h, b, lv, fr)
  <2>1. b[q] = 0
    BY <1>3, <1>5, <1>0
  <2>2. q \notin Given(h, b, lv, fr)
    BY <1>2, <1>5
  <2>3. q \notin fr
    BY <2>2 DEF Given
  <2>4. q \notin lv
    <3> SUFFICES ASSUME q \in lv PROVE FALSE
      OBVIOUS
    <3>1. h[q].size >= 1 /\ h[q].size \in Nat
      BY LiveFacts
    <3>2. q <= q /\ q < q + h[q].size
      BY <3>1, <1>0
    <3> QED BY <3>2, <1>0, <1>4, <1>5
  <2> QED BY <2>1, <2>2, <2>3, <2>4
<1>6. ASSUME NEW x \in ow, p <= PageOf(x.at), PageOf(x.at) < p + n PROVE FALSE
  <2>1. PICK q \in lv : x \in In(h, ow, q)
    BY DEF MemGood, Holder
  <2>2. PageOf(x.at) \in Nat /\ q <= PageOf(x.at) /\ PageOf(x.at) < q + h[q].size
    BY <2>1, <1>0, InPages
  <2> QED BY <2>2, <1>4, <1>6
<1>7. ASSUME NEW q, q \in Compounds(h, lv), Moved(h, q)
      PROVE  h[q].space \in Page /\ b[h[q].space] > 0 /\ ~ (p <= h[q].space /\ h[q].space < p + n)
  <2>1. SpaceGood(h, b, lv, h[q].space)
    BY <1>7 DEF MemGood, CompoundGood
  <2> QED BY <2>1, <1>3 DEF SpaceGood
<1> QED BY <1>1, <1>4, <1>5, <1>6, <1>7

(* A block taken is one more block in use. *)
LEMMA BlockTaken ==
  ASSUME NEW b \in [Page -> 0..NumPages], BlocksGood(b), NEW p, NEW n, FreeAt(b, p, n),
         NEW b2 \in [Page -> 0..NumPages], b2[p] = n, \A q \in Page : q # p => b2[q] = b[q]
  PROVE  BlocksGood(b2)
<1>0. /\ p \in Page /\ n \in Nat /\ n >= 1 /\ p % n = 0 /\ p + n <= NumPages
      /\ \A q \in Page : b[q] > 0 => q + b[q] <= p \/ p + n <= q
      /\ \A q \in Page : q \in Nat /\ b[q] \in Nat
  BY PageIs DEF FreeAt
<1>2. b2[p] = n /\ \A q \in Page : q # p => b2[q] = b[q]
  OBVIOUS
<1>3. ASSUME NEW q \in Page, b2[q] > 0
      PROVE  q % b2[q] = 0 /\ q + b2[q] <= NumPages
  BY <1>0, <1>2, <1>3 DEF BlocksGood
<1>4. ASSUME NEW q \in Page, NEW r \in Page, b2[q] > 0, b2[r] > 0, q < r
      PROVE  q + b2[q] <= r
  <2>1. CASE q = p
    <3>1. r # p /\ b2[r] = b[r] /\ b[r] > 0
      BY <2>1, <1>0, <1>2, <1>4
    <3>2. r + b[r] <= p \/ p + n <= r
      BY <3>1, <1>0
    <3> QED BY <3>1, <3>2, <2>1, <1>0, <1>2, <1>4
  <2>2. CASE r = p
    <3>1. q # p /\ b2[q] = b[q] /\ b[q] > 0
      BY <2>2, <1>0, <1>2, <1>4
    <3>2. q + b[q] <= p \/ p + n <= q
      BY <3>1, <1>0
    <3> QED BY <3>1, <3>2, <2>2, <1>0, <1>2, <1>4
  <2>3. CASE q # p /\ r # p
    BY <2>3, <1>2, <1>4 DEF BlocksGood
  <2> QED BY <2>1, <2>2, <2>3
<1> QED BY <1>2, <1>3, <1>4 DEF BlocksGood

(* Blocks given back. *)
LEMMA BlocksBack ==
  ASSUME NEW b \in [Page -> 0..NumPages], BlocksGood(b), NEW b2 \in [Page -> 0..NumPages],
         \A q \in Page : b2[q] = b[q] \/ b2[q] = 0
  PROVE  BlocksGood(b2)
BY DEF BlocksGood

(* Of two free blocks the one is still free when the other is taken.       *)
LEMMA StillFree ==
  ASSUME NEW b \in [Page -> 0..NumPages], NEW p, NEW q, NEW n, FreeAt(b, p, n), FreeAt(b, q, n), p # q,
         NEW b2, b2[p] = n, \A r \in Page : r # p => b2[r] = b[r]
  PROVE  FreeAt(b2, q, n)
<1>1. p \in Page /\ q \in Page /\ p \in Nat /\ q \in Nat /\ n \in Nat /\ n > 0 /\ p % n = 0 /\ q % n = 0
  BY PageIs DEF FreeAt
<1>2. p < q => p + n <= q
  BY <1>1, MultipleGap
<1>3. q < p => q + n <= p
  BY <1>1, MultipleGap
<1> QED BY <1>1, <1>2, <1>3 DEF FreeAt

-----------------------------------------------------------------------------
(* What a change of the memory leaves alone. *)
Same(T, h, b, lv, fr, h2, b2, lv2, fr2) ==
  \A q \in Page \ T : h2[q] = h[q] /\ b2[q] = b[q] /\ (q \in lv2 <=> q \in lv) /\ (q \in fr2 <=> q \in fr)

(* Which pages are given out depends on those pages alone.                 *)
LEMMA GivenSame ==
  ASSUME NEW h, NEW b, NEW lv, NEW fr, NEW h2, NEW b2, NEW lv2, NEW fr2, NEW T,
         Same(T, h, b, lv, fr, h2, b2, lv2, fr2), NEW q \in Page, q \notin T
  PROVE  q \in Given(h2, b2, lv2, fr2) <=> q \in Given(h, b, lv, fr)
BY DEF Same, Given

(* A part that nobody touched is as good as it was.                        *)
LEMMA PartStays ==
  ASSUME NEW h, NEW b, NEW lv, NEW fr, NEW h2, NEW b2, NEW lv2, NEW fr2, NEW p, NEW r,
         PartGood(h, b, lv, fr, p, r), h2[r] = h[r], h2[p].size = h[p].size, b2[r] = b[r],
         \A q : Inside(h, r, q) => (q \in Given(h2, b2, lv2, fr2) <=> q \in Given(h, b, lv, fr))
  PROVE  PartGood(h2, b2, lv2, fr2, p, r)
<1>1. GivenIn(h2, b2, lv2, fr2, r) = GivenIn(h, b, lv, fr, r)
  BY DEF GivenIn, Inside
<1>2. EndOf(h2, r) = EndOf(h, r)
  BY DEF EndOf
<1> QED BY <1>1, <1>2 DEF PartGood

(* A heap whose list stays keeps its parts.                                *)
LEMMA PartsSame ==
  ASSUME NEW h, NEW lv, NEW h2, NEW lv2, NEW p, p \in Compounds(h, lv), p \in lv2,
         h2[p].kind = h[p].kind, h2[p].expand = h[p].expand
  PROVE  /\ p \in Compounds(h2, lv2) /\ Parts(h2, p) = Parts(h, p)
         /\ \A r : IsPart(h2, lv2, p, r) <=> IsPart(h, lv, p, r)
BY DEF Compounds, Parts, IsPart

(* A compound heap whose parts are good, and whose list stays, is good.    *)
LEMMA CompoundKept ==
  ASSUME NEW h, NEW b, NEW lv, NEW ow, NEW fr, MemGood(h, b, lv, ow, fr), NEW h2, NEW b2, NEW lv2, NEW fr2,
         NEW p, p \in Compounds(h, lv), p \in lv2,
         h2[p].kind = h[p].kind, h2[p].expand = h[p].expand, h2[p].max = h[p].max, h2[p].space = h[p].space,
         \A r : IsPart(h, lv, p, r) => PartGood(h2, b2, lv2, fr2, p, r),
         Moved(h, p) => SpaceGood(h2, b2, lv2, h[p].space)
  PROVE  p \in Compounds(h2, lv2) /\ CompoundGood(h2, b2, lv2, fr2, p)
<1>1. p \in Compounds(h2, lv2) /\ Parts(h2, p) = Parts(h, p)
  BY PartsSame
<1>2. CompoundGood(h, b, lv, fr, p)
  BY DEF MemGood
<1>3. \A i \in DOMAIN Parts(h, p) : PartGood(h2, b2, lv2, fr2, p, Parts(h, p)[i])
  BY DEF IsPart
<1>4. Moved(h2, p) => SpaceGood(h2, b2, lv2, h2[p].space)
  BY DEF Moved
<1> QED BY <1>1, <1>2, <1>3, <1>4 DEF CompoundGood

(* A compound heap none of whose blocks is touched, but for pages that     *)
(* stay what they were.                                                    *)
LEMMA CompoundClear ==
  ASSUME NEW h, NEW b, NEW lv, NEW ow, NEW fr, MemGood(h, b, lv, ow, fr),
         NEW h2, NEW b2, NEW lv2, NEW fr2, NEW T, fr2 \subseteq Page, lv2 \subseteq Page,
         Same(T, h, b, lv, fr, h2, b2, lv2, fr2),
         NEW p, p \in Compounds(h, lv),
         \A r : IsPart(h, lv, p, r) =>
           /\ r \notin T
           /\ \A q \in T : Inside(h, r, q) => (q \in Given(h2, b2, lv2, fr2) <=> q \in Given(h, b, lv, fr)),
         Moved(h, p) => h[p].space \notin T
  PROVE  /\ p \in Compounds(h2, lv2) /\ CompoundGood(h2, b2, lv2, fr2, p)
         /\ h2[p] = h[p] /\ \A r : IsPart(h, lv, p, r) => IsPart(h2, lv2, p, r) /\ h2[r] = h[r]
<1>0. p \in lv /\ h[p].kind = "compound" /\ lv \in SUBSET Page /\ fr \in SUBSET Page
  BY MemTyped DEF Compounds
<1>1. IsPart(h, lv, p, p) /\ p \in Page
  BY <1>0, FirstIsPart
<1>2. h2[p] = h[p] /\ p \in lv2
  BY <1>0, <1>1 DEF Same
<1>3. ASSUME NEW r, IsPart(h, lv, p, r) PROVE PartGood(h2, b2, lv2, fr2, p, r)
  <2>1. r \in Page /\ PartGood(h, b, lv, fr, p, r)
    BY <1>3, PartFacts
  <2>2. r \notin T /\ h2[r] = h[r] /\ b2[r] = b[r]
    BY <1>3, <2>1 DEF Same
  <2>3. ASSUME NEW q, Inside(h, r, q) PROVE q \in Given(h2, b2, lv2, fr2) <=> q \in Given(h, b, lv, fr)
    <3>1. CASE q \in T
      BY <3>1, <2>3, <1>3
    <3>2. CASE q \in Page /\ q \notin T
      BY <3>2, GivenSame
    <3>3. CASE q \notin Page
      BY <3>3, <1>0 DEF Given
    <3> QED BY <3>1, <3>2, <3>3
  <2> QED BY <2>1, <2>2, <2>3, <1>2, PartStays
<1>4. ASSUME Moved(h, p) PROVE SpaceGood(h2, b2, lv2, h[p].space)
  <2>1. SpaceGood(h, b, lv, h[p].space)
    BY <1>0, <1>4 DEF MemGood, CompoundGood
  <2> QED BY <2>1, <1>4 DEF SpaceGood, Same
<1>5. p \in Compounds(h2, lv2) /\ CompoundGood(h2, b2, lv2, fr2, p)
  BY <1>2, <1>3, <1>4, CompoundKept
<1>6. ASSUME NEW r, IsPart(h, lv, p, r) PROVE IsPart(h2, lv2, p, r) /\ h2[r] = h[r]
  <2>1. r \in Page /\ r \notin T
    BY <1>6, PartFacts
  <2>2. IsPart(h2, lv2, p, r)
    BY <1>2, <1>6, PartsSame
  <2> QED BY <2>1, <2>2 DEF Same
<1> QED BY <1>2, <1>5, <1>6

(* A page given out that stays one.                                        *)
LEMMA PageStays ==
  ASSUME NEW h, NEW b, NEW lv, NEW ow, NEW fr, MemGood(h, b, lv, ow, fr),
         NEW h2, NEW b2, NEW lv2,
         NEW q \in Given(h, b, lv, fr), h2[q] = h[q], b2[q] = b[q], NEW r, r = h[q].base,
         h2[r].size = h[r].size, h2[r].base = h[r].base,
         NEW p, p = h[r].base,
         p \in lv2, h2[p].kind = h[p].kind, h2[p].expand = h[p].expand
  PROVE  PageGood(h2, b2, lv2, q)
<1>1. PageGood(h, b, lv, q) /\ IsPart(h, lv, p, r)
  BY GivenFacts DEF MemGood
<1>2. IsPart(h2, lv2, p, r)
  <2>1. p \in Compounds(h, lv)
    BY <1>1, PartFacts
  <2>2. p \in Compounds(h2, lv2) /\ Parts(h2, p) = Parts(h, p)
    BY <2>1 DEF Compounds, Parts
  <2> QED BY <1>1, <2>2 DEF IsPart
<1> QED BY <1>1, <1>2 DEF PageGood, Inside

(* A simple heap or stack that nobody touched is as good as it was.        *)
LEMMA SimpleStays ==
  ASSUME NEW h, NEW b, NEW lv, NEW ow, NEW fr, MemGood(h, b, lv, ow, fr),
         NEW h2, NEW b2, NEW ow2, NEW p \in lv, h2[p] = h[p], b2[p] = b[p],
         \A x : x.at >= Address(p) /\ x.at < EndOf(h, p) => (x \in ow2 <=> x \in ow)
  PROVE  LiveGood(h2, b2, p) /\ SimpleGood(h2, ow2, p) /\ EndOf(h2, p) = EndOf(h, p)
<1>1. EndOf(h2, p) = EndOf(h, p)
  BY DEF EndOf
<1>2. In(h2, ow2, p) = In(h, ow, p)
  BY <1>1 DEF In
<1> QED BY <1>1, <1>2, LiveFacts DEF LiveGood, SimpleGood

(* The same, where the list or the top of the heap has changed.            *)
LEMMA MoveSpaces ==
  ASSUME NEW h, NEW b, NEW lv, NEW ow, NEW fr, MemGood(h, b, lv, ow, fr), NEW h2, NEW lv2,
         \A p \in Compounds(h2, lv2) :
           \/ ~ Moved(h2, p)
           \/ /\ p \in Compounds(h, lv)
              /\ h2[p].expand = h[p].expand /\ h2[p].max = h[p].max /\ h2[p].space = h[p].space
  PROVE  SpacesApart(h2, lv2)
BY DEF MemGood, SpacesApart, Moved

-----------------------------------------------------------------------------
(* What the calls do to the memory.  A piece out of a simple heap, or back *)
(* into it.                                                                *)
LEMMA SimpleChanges ==
  ASSUME NEW h, NEW b, NEW lv, NEW ow, NEW fr, MemGood(h, b, lv, ow, fr),
         NEW p \in lv, h[p].kind \in {"heap", "stack"},
         NEW v \in HeaderType, v.kind = h[p].kind, v.size = h[p].size, v.base = h[p].base,
         NEW h2, h2 = [h EXCEPT ![p] = v],
         NEW ow2 \in SUBSET Pieces, \A x \in ow2 : x.size > 0,
         \A x : (x \in ow2 <=> x \in ow) \/ (x.at >= Address(p) /\ x.at < EndOf(h, p)),
         SimpleGood(h2, ow2, p)
  PROVE  MemGood(h2, b, lv, ow2, fr)
<1>0. /\ h \in [Page -> HeaderType] /\ b \in [Page -> 0..NumPages] /\ lv \in SUBSET Page /\ fr \in SUBSET Page
      /\ ow \in SUBSET Pieces /\ p \in Page
  BY MemTyped
<1>1. h2 \in [Page -> HeaderType] /\ h2[p] = v /\ \A q \in Page : q # p => h2[q] = h[q]
  BY <1>0
<1>2. MemType(h2, b, lv, ow2, fr)
  BY <1>0, <1>1 DEF MemType
<1>3. \A q \in Page : h2[q].kind = h[q].kind /\ h2[q].size = h[q].size /\ h2[q].base = h[q].base
  BY <1>1
<1>4. Given(h2, b, lv, fr) = Given(h, b, lv, fr)
  BY <1>0, <1>3 DEF Given
<1>5. EndOf(h2, p) = EndOf(h, p)
  BY <1>0, <1>3 DEF EndOf
<1>6. ASSUME NEW q \in lv PROVE LiveGood(h2, b, q) /\ SimpleGood(h2, ow2, q)
  <2>1. CASE q = p
    BY <2>1, <1>0, <1>3, LiveFacts DEF LiveGood
  <2>2. CASE q # p /\ h[q].kind = "compound"
    <3>1. h2[q] = h[q]
      BY <2>2, <1>0, <1>1
    <3> QED BY <2>2, <3>1, LiveFacts DEF LiveGood, SimpleGood
  <2>3. CASE q # p /\ h[q].kind # "compound"
    <3>1. h2[q] = h[q] /\ q \in Page
      BY <2>3, <1>0, <1>1
    <3>2. ASSUME NEW x, x \in ow \cup ow2, x.at >= Address(q), x.at < EndOf(h, q), x.at >= Address(p), x.at < EndOf(h, p)
          PROVE  FALSE
      <4>1. x \in In(h, {x}, q) /\ x \in In(h, {x}, p) /\ {x} \in SUBSET Pieces
        BY <3>2, <1>0 DEF In
      <4>2. /\ PageOf(x.at) \in Nat /\ p <= PageOf(x.at) /\ PageOf(x.at) < p + h[p].size
            /\ q <= PageOf(x.at) /\ PageOf(x.at) < q + h[q].size
        BY <4>1, <3>1, <1>0, InPages
      <4> QED BY <4>2, <2>3, SimpleApart
    <3>3. \A x : x.at >= Address(q) /\ x.at < EndOf(h, q) => (x \in ow2 <=> x \in ow)
      BY <3>2
    <3> QED BY <3>1, <3>3, SimpleStays
  <2> QED BY <2>1, <2>2, <2>3
<1>7. ASSUME NEW x \in ow2 PROVE \E q \in lv : Holder(h2, ow2, lv, x, q)
  <2>1. CASE x.at >= Address(p) /\ x.at < EndOf(h, p)
    <3>1. Holder(h2, ow2, lv, x, p)
      BY <2>1, <1>0, <1>3, <1>5 DEF Holder, In
    <3> QED BY <3>1
  <2>2. CASE ~ (x.at >= Address(p) /\ x.at < EndOf(h, p))
    <3>1. PICK q \in lv : Holder(h, ow, lv, x, q)
      BY <2>2 DEF MemGood
    <3>2. EndOf(h2, q) = EndOf(h, q)
      BY <1>0, <1>3 DEF EndOf
    <3>3. Holder(h2, ow2, lv, x, q)
      BY <3>1, <3>2, <1>0, <1>3 DEF Holder, In
    <3> QED BY <3>3
  <2> QED BY <2>1, <2>2
<1>8. ASSUME NEW q \in Given(h, b, lv, fr) PROVE PageGood(h2, b, lv, q)
  <2>1. PageGood(h, b, lv, q) /\ q \in Page
    BY GivenFacts DEF MemGood
  <2>2. PICK r \in Page : r = h[q].base /\ IsPart(h, lv, h[r].base, r) /\ Inside(h, r, q)
    BY GivenFacts
  <2>3. h[r].base \in Page /\ h[h[r].base].kind = "compound" /\ h[r].base \in lv
    BY <2>2, PartFacts
  <2>4. h2[h[r].base] = h[h[r].base]
    BY <2>3, <1>1
  <2>5. IsPart(h2, lv, h[r].base, r)
    <3>1. h[r].base \in Compounds(h, lv)
      BY <2>2, PartFacts
    <3>2. h[r].base \in Compounds(h2, lv) /\ Parts(h2, h[r].base) = Parts(h, h[r].base)
      BY <3>1, <2>3, <2>4 DEF Compounds, Parts
    <3> QED BY <3>2, <2>2 DEF IsPart
  <2> QED BY <2>1, <2>2, <2>5, <1>3 DEF PageGood, Inside
<1>9. ASSUME NEW q, q \in Compounds(h2, lv)
      PROVE  q \in Compounds(h, lv) /\ h2[q] = h[q] /\ CompoundGood(h2, b, lv, fr, q)
  <2>1. q \in Compounds(h, lv) /\ q \in Page /\ h2[q] = h[q] /\ h[q].kind = "compound" /\ q \in lv
    BY <1>0, <1>1, <1>9 DEF Compounds
  <2>2. ASSUME NEW r, IsPart(h, lv, q, r) PROVE PartGood(h2, b, lv, fr, q, r)
    <3>1. r \in Page /\ PartGood(h, b, lv, fr, q, r) /\ h[r].kind = "compound"
      BY <2>2, PartFacts
    <3>2. h2[r] = h[r]
      BY <3>1, <1>1
    <3> QED BY <3>1, <3>2, <2>1, <1>4, PartStays
  <2>3. Moved(h, q) => SpaceGood(h2, b, lv, h[q].space)
    BY <2>1, <1>1 DEF MemGood, CompoundGood, SpaceGood
  <2> QED BY <2>1, <2>2, <2>3, CompoundKept
<1>10. SpacesApart(h2, lv)
  <2>1. \A q \in Compounds(h2, lv) : q \in Compounds(h, lv) /\ h2[q] = h[q]
    BY <1>9
  <2> HIDE DEF Compounds
  <2>2. \A q \in Compounds(h2, lv) :
          /\ q \in Compounds(h, lv)
          /\ h2[q].expand = h[q].expand /\ h2[q].max = h[q].max /\ h2[q].space = h[q].space
    BY <2>1
  <2>3. SpacesApart(h, lv)
    BY DEF MemGood
  <2>4. \A q \in Compounds(h2, lv) : q \in Compounds(h, lv) /\ h2[q].space = h[q].space /\ (Moved(h2, q) <=> Moved(h, q))
    BY <2>2 DEF Moved
  <2> QED BY <2>3, <2>4 DEF SpacesApart
<1> QED BY <1>2, <1>4, <1>6, <1>7, <1>8, <1>9, <1>10 DEF MemGood

-----------------------------------------------------------------------------
(* A block is taken, and has a header: nobody has it yet.                  *)
Unused(h, b, lv, ow, fr, p, n) ==
  /\ p \in Page /\ n \in Nat /\ n >= 1 /\ b[p] = n /\ p \notin lv /\ p \notin fr
  /\ \A x \in ow : ~ (p <= PageOf(x.at) /\ PageOf(x.at) < p + n)
  /\ \A q \in Given(h, b, lv, fr) : ~ (p <= q /\ q < p + n)
  /\ \A c, r : IsPart(h, lv, c, r) => r # p
  /\ \A c \in Compounds(h, lv) : Moved(h, c) => h[c].space # p

(* A block is taken, and gets any header: the heaps do not see it.         *)
LEMMA BlockMade ==
  ASSUME NEW h, NEW b, NEW lv, NEW ow, NEW fr, MemGood(h, b, lv, ow, fr),
         NEW p, NEW n, FreeAt(b, p, n),
         NEW h2 \in [Page -> HeaderType], \A q \in Page : q # p => h2[q] = h[q],
         NEW b2 \in [Page -> 0..NumPages], b2[p] = n, \A q \in Page : q # p => b2[q] = b[q]
  PROVE  MemGood(h2, b2, lv, ow, fr) /\ Unused(h2, b2, lv, ow, fr, p, n)
<1>0. /\ h \in [Page -> HeaderType] /\ b \in [Page -> 0..NumPages] /\ lv \in SUBSET Page /\ fr \in SUBSET Page
      /\ ow \in SUBSET Pieces /\ \A x \in ow : x.size > 0
      /\ p \in Page /\ n \in Nat /\ n >= 1 /\ p \in Nat
  BY MemTyped, PageIs DEF FreeAt
<1>1. BlocksGood(b2)
  BY <1>0, BlockTaken DEF MemGood
<1>2. b2[p] = n /\ \A q \in Page : q # p => b2[q] = b[q]
  OBVIOUS
<1>3. MemType(h2, b2, lv, ow, fr)
  BY <1>0, <1>1 DEF MemType
<1>4. /\ \A q \in Page : p <= q /\ q < p + n => b[q] = 0 /\ q \notin lv /\ q \notin fr /\ q \notin Given(h, b, lv, fr)
      /\ \A c, r : IsPart(h, lv, c, r) => \A k \in Nat : p <= k /\ k < p + n => ~ (r <= k /\ k < r + h[r].size)
      /\ \A x \in ow : ~ (p <= PageOf(x.at) /\ PageOf(x.at) < p + n)
      /\ \A q : q \in Compounds(h, lv) /\ Moved(h, q) => h[q].space \in Page /\ b[h[q].space] > 0 /\ ~ (p <= h[q].space /\ h[q].space < p + n)
  BY FreeIsUnused
<1>5. p \notin lv /\ p \notin fr /\ b[p] = 0
  BY <1>0, <1>4
<1>6. ASSUME NEW c, NEW r, IsPart(h, lv, c, r) PROVE r # p
  <2>1. r \in Page /\ h[r].size \in Nat /\ h[r].size > 1
    BY <1>6, PartFacts
  <2>2. r <= r /\ r < r + h[r].size /\ r \in Nat
    BY <2>1, PageIs
  <2> QED BY <2>1, <2>2, <1>0, <1>4, <1>6
<1>7. Same({p}, h, b, lv, fr, h2, b2, lv, fr)
  BY <1>2 DEF Same
<1>8. Given(h2, b2, lv, fr) = Given(h, b, lv, fr)
  <2>1. p \notin Given(h2, b2, lv, fr) /\ p \notin Given(h, b, lv, fr)
    BY <1>5 DEF Given
  <2>2. \A q \in Page : q # p => (q \in Given(h2, b2, lv, fr) <=> q \in Given(h, b, lv, fr))
    BY <1>7, GivenSame
  <2>3. Given(h2, b2, lv, fr) \subseteq Page /\ Given(h, b, lv, fr) \subseteq Page
    BY <1>0 DEF Given
  <2> QED BY <2>1, <2>2, <2>3
<1>9. ASSUME NEW c, c \in Compounds(h, lv), Moved(h, c) PROVE h[c].space # p
  <2>1. h[c].space \in Page /\ ~ (p <= h[c].space /\ h[c].space < p + n)
    BY <1>4, <1>9
  <2> QED BY <2>1, <1>0
<1>10. \A q \in lv : q \in Page /\ h2[q] = h[q] /\ b2[q] = b[q]
  BY <1>0, <1>2, <1>5
<1>11. Compounds(h2, lv) = Compounds(h, lv)
  BY <1>10 DEF Compounds
<1>12. ASSUME NEW c, c \in Compounds(h, lv)
       PROVE  /\ h2[c] = h[c] /\ CompoundGood(h2, b2, lv, fr, c)
  <2>0. PICK T : T = {p}
    OBVIOUS
  <2>1. \A r : IsPart(h, lv, c, r) =>
          /\ r \notin T
          /\ \A q \in T : Inside(h, r, q) => (q \in Given(h2, b2, lv, fr) <=> q \in Given(h, b, lv, fr))
    BY <2>0, <1>6, <1>8
  <2>2. Moved(h, c) => h[c].space \notin T
    BY <2>0, <1>9, <1>12
  <2>3. Same(T, h, b, lv, fr, h2, b2, lv, fr) /\ lv \subseteq Page /\ fr \subseteq Page
    BY <2>0, <1>0, <1>7
  <2> QED BY ONLY <2>1, <2>2, <2>3, <1>12, CompoundClear, MemGood(h, b, lv, ow, fr)
<1>13. SpacesApart(h2, lv)
  BY <1>11, <1>12 DEF MemGood, SpacesApart, Moved
<1>14. ASSUME NEW q \in lv PROVE LiveGood(h2, b2, q) /\ SimpleGood(h2, ow, q) /\ EndOf(h2, q) = EndOf(h, q)
  BY <1>10, SimpleStays
<1>15. ASSUME NEW x \in ow PROVE \E q \in lv : Holder(h2, ow, lv, x, q)
  <2>1. PICK q \in lv : Holder(h, ow, lv, x, q)
    BY DEF MemGood
  <2> QED BY <2>1, <1>10, <1>14 DEF Holder, In
<1>16. ASSUME NEW q \in Given(h, b, lv, fr) PROVE PageGood(h2, b2, lv, q)
  <2>1. PICK r \in Page : r = h[q].base /\ IsPart(h, lv, h[r].base, r) /\ q \in Page
    BY GivenFacts
  <2>2. h[r].base \in lv /\ q # p /\ r # p
    BY <2>1, <1>4, <1>5, <1>0, <1>6, PartFacts
  <2>3. h2[q] = h[q] /\ b2[q] = b[q] /\ h2[r] = h[r] /\ h2[h[r].base] = h[h[r].base]
    BY <2>1, <2>2, <1>2, <1>10
  <2> QED BY <2>1, <2>2, <2>3, PageStays
<1>17. MemGood(h2, b2, lv, ow, fr)
  <2>1. lv \cap fr = {}
    BY DEF MemGood
  <2> QED BY <2>1, <1>1, <1>3, <1>8, <1>11, <1>12, <1>13, <1>14, <1>15, <1>16 DEF MemGood
<1>18. Unused(h2, b2, lv, ow, fr, p, n)
  <2>1. \A q \in Given(h2, b2, lv, fr) : ~ (p <= q /\ q < p + n)
    <3>1. \A q \in Given(h, b, lv, fr) : q \in Page
      BY GivenFacts
    <3> QED BY <3>1, <1>4, <1>8
  <2>2. \A c, r : IsPart(h2, lv, c, r) => r # p
    <3>1. ASSUME NEW c, NEW r, IsPart(h2, lv, c, r) PROVE IsPart(h, lv, c, r)
      <4>1. c \in Compounds(h, lv) /\ h2[c] = h[c]
        BY <3>1, <1>11, <1>12 DEF IsPart
      <4> QED BY <3>1, <4>1 DEF IsPart, Parts
    <3> QED BY <3>1, <1>6
  <2>3. \A c \in Compounds(h2, lv) : Moved(h2, c) => h2[c].space # p
    BY <1>9, <1>11, <1>12 DEF Moved
  <2> QED BY <2>1, <2>2, <2>3, <1>0, <1>2, <1>4, <1>5 DEF Unused
<1> QED BY <1>17, <1>18

(* A program has it: a simple heap, or a compound one of a single part.    *)
LEMMA LiveAdded ==
  ASSUME NEW h, NEW b, NEW lv, NEW ow, NEW fr, MemGood(h, b, lv, ow, fr),
         NEW p, NEW n, Unused(h, b, lv, ow, fr, p, n), h[p].size = n, h[p].kind \notin {"none", "queue"},
         SimpleGood(h, ow, p),
         h[p].kind = "compound" => PartGood(h, b, lv, fr, p, p) /\ Parts(h, p) = <<p>> /\ ~ Moved(h, p)
  PROVE  MemGood(h, b, lv \cup {p}, ow, fr)
<1> DEFINE lv2 == lv \cup {p}
<1>0. /\ h \in [Page -> HeaderType] /\ b \in [Page -> 0..NumPages] /\ lv \in SUBSET Page /\ fr \in SUBSET Page
      /\ ow \in SUBSET Pieces /\ \A x \in ow : x.size > 0
      /\ p \in Page /\ p \notin lv /\ p \notin fr /\ b[p] = n /\ n \in Nat /\ n >= 1
      /\ \A c, r : IsPart(h, lv, c, r) => r # p
      /\ \A c \in Compounds(h, lv) : Moved(h, c) => h[c].space # p
  BY MemTyped DEF Unused
<1>1. Given(h, b, lv2, fr) = Given(h, b, lv, fr)
  BY <1>0 DEF Given
<1>2. LiveGood(h, b, p)
  BY <1>0, HeaderIs DEF LiveGood
<1>3. \A q \in Compounds(h, lv2) : q \in Compounds(h, lv) \/ (q = p /\ h[p].kind = "compound")
  BY DEF Compounds
<1>4. Same({p}, h, b, lv, fr, h, b, lv2, fr) /\ lv2 \subseteq Page
  BY <1>0 DEF Same
<1> HIDE DEF lv2
<1>5. ASSUME NEW c, c \in Compounds(h, lv) PROVE CompoundGood(h, b, lv2, fr, c)
  <2>1. \A r : IsPart(h, lv, c, r) =>
          /\ r \notin {p}
          /\ \A q \in {p} : Inside(h, r, q) => (q \in Given(h, b, lv2, fr) <=> q \in Given(h, b, lv, fr))
    BY <1>0, <1>1
  <2>2. Moved(h, c) => h[c].space \notin {p}
    BY <1>0, <1>5
  <2> QED BY <2>1, <2>2, <1>0, <1>4, <1>5, CompoundClear
<1>6. ASSUME h[p].kind = "compound" PROVE CompoundGood(h, b, lv2, fr, p)
  <2>1. Parts(h, p) = <<p>> /\ Len(<<p>>) = 1 /\ DOMAIN <<p>> = 1..1 /\ <<p>>[1] = p
    BY <1>6
  <2>2. PartGood(h, b, lv2, fr, p, p)
    <3>1. GivenIn(h, b, lv2, fr, p) = GivenIn(h, b, lv, fr, p)
      BY <1>1 DEF GivenIn
    <3> QED BY <3>1, <1>6 DEF PartGood
  <2> QED BY <2>1, <2>2, <1>6 DEF CompoundGood
<1>7. \A c \in Compounds(h, lv2) : CompoundGood(h, b, lv2, fr, c)
  BY <1>3, <1>5, <1>6
<1>8. SpacesApart(h, lv2)
  <2>1. \A c \in Compounds(h, lv2) : Moved(h, c) => c \in Compounds(h, lv)
    BY <1>3
  <2>2. SpacesApart(h, lv)
    BY DEF MemGood
  <2> QED BY <2>1, <2>2 DEF SpacesApart
<1>9. ASSUME NEW q \in Given(h, b, lv, fr) PROVE PageGood(h, b, lv2, q)
  <2>1. PageGood(h, b, lv, q) /\ IsPart(h, lv, h[h[q].base].base, h[q].base)
    BY GivenFacts DEF MemGood
  <2>2. IsPart(h, lv2, h[h[q].base].base, h[q].base)
    BY <2>1 DEF IsPart, Compounds, lv2
  <2> QED BY <2>1, <2>2 DEF PageGood
<1>10. \A x \in ow : \E q \in lv2 : Holder(h, ow, lv2, x, q)
  BY DEF MemGood, Holder, lv2
<1>11. \A q \in lv2 : LiveGood(h, b, q) /\ SimpleGood(h, ow, q)
  BY <1>2, LiveFacts DEF lv2
<1>12. lv2 \cap fr = {}
  BY <1>0 DEF MemGood, lv2
<1>13. MemType(h, b, lv2, ow, fr) /\ BlocksGood(b)
  BY <1>0, <1>4 DEF MemType, MemGood
<1>14. MemGood(h, b, lv2, ow, fr)
  BY <1>1, <1>7, <1>8, <1>9, <1>10, <1>11, <1>12, <1>13 DEF MemGood
<1> QED BY <1>14 DEF lv2

(* The list of the parts of a heap, or where it is, is another.            *)
LEMMA LinksChange ==
  ASSUME NEW h, NEW b, NEW lv, NEW ow, NEW fr, MemGood(h, b, lv, ow, fr),
         NEW c, c \in Compounds(h, lv),
         NEW h2 \in [Page -> HeaderType], \A q \in Page : q # c => h2[q] = h[q],
         h2[c].kind = h[c].kind, h2[c].size = h[c].size, h2[c].base = h[c].base, h2[c].list = h[c].list,
         \A r : IsPart(h, lv, c, r) => IsPart(h2, lv, c, r),
         \A i \in DOMAIN Parts(h2, c) : PartGood(h, b, lv, fr, c, Parts(h2, c)[i]),
         Len(Parts(h2, c)) >= 1, Parts(h2, c)[1] = c,
         \A i, j \in DOMAIN Parts(h2, c) : Parts(h2, c)[i] = Parts(h2, c)[j] => i = j,
         Moved(h2, c) => SpaceGood(h, b, lv, h2[c].space),
         SpacesApart(h2, lv)
  PROVE  MemGood(h2, b, lv, ow, fr) /\ Given(h2, b, lv, fr) = Given(h, b, lv, fr)
<1>0. /\ h \in [Page -> HeaderType] /\ b \in [Page -> 0..NumPages] /\ lv \in SUBSET Page /\ fr \in SUBSET Page
      /\ ow \in SUBSET Pieces /\ \A x \in ow : x.size > 0
      /\ c \in Page /\ c \in lv /\ h[c].kind = "compound"
  BY MemTyped DEF Compounds
<1>1. \A q \in Page : /\ h2[q].kind = h[q].kind /\ h2[q].size = h[q].size /\ h2[q].base = h[q].base
                      /\ h2[q].list = h[q].list
  BY <1>0
<1>2. MemType(h2, b, lv, ow, fr)
  BY <1>0 DEF MemType
<1>3. Given(h2, b, lv, fr) = Given(h, b, lv, fr)
  BY <1>0, <1>1 DEF Given
<1>4. \A q \in Page : GivenIn(h2, b, lv, fr, q) = GivenIn(h, b, lv, fr, q) /\ EndOf(h2, q) = EndOf(h, q)
  BY <1>1, <1>3 DEF GivenIn, Inside, EndOf
<1>5. ASSUME NEW p \in Page, NEW r \in Page, PartGood(h, b, lv, fr, p, r) PROVE PartGood(h2, b, lv, fr, p, r)
  BY <1>1, <1>4, <1>5 DEF PartGood
<1>6. Compounds(h2, lv) = Compounds(h, lv)
  BY <1>0, <1>1 DEF Compounds
<1>7. \A s : SpaceGood(h, b, lv, s) => SpaceGood(h2, b, lv, s)
  BY <1>1 DEF SpaceGood
<1>8. ASSUME NEW p, p \in Compounds(h, lv), p # c PROVE h2[p] = h[p] /\ CompoundGood(h2, b, lv, fr, p)
  <2>1. p \in Page /\ p \in lv /\ h2[p] = h[p]
    BY <1>0, <1>8 DEF Compounds
  <2>2. \A r : IsPart(h, lv, p, r) => PartGood(h2, b, lv, fr, p, r)
    BY <2>1, <1>5, PartFacts
  <2>3. Moved(h, p) => SpaceGood(h2, b, lv, h[p].space)
    BY <1>7, <1>8 DEF MemGood, CompoundGood
  <2> QED BY <2>1, <2>2, <2>3, <1>8, CompoundKept
<1>9. CompoundGood(h2, b, lv, fr, c)
  <2>1. Parts(h2, c) \in Seq(Page)
    BY <1>0, HeaderIs DEF Parts
  <2>2. \A i \in DOMAIN Parts(h2, c) : Parts(h2, c)[i] \in Page
    BY <2>1
  <2>3. \A i \in DOMAIN Parts(h2, c) : PartGood(h2, b, lv, fr, c, Parts(h2, c)[i])
    BY <2>2, <1>0, <1>5
  <2> QED BY <2>3, <1>7 DEF CompoundGood
<1>10. ASSUME NEW q \in lv PROVE LiveGood(h2, b, q) /\ SimpleGood(h2, ow, q)
  <2>1. CASE q = c
    BY <2>1, <1>0, <1>1, LiveFacts DEF LiveGood, SimpleGood
  <2>2. CASE q # c
    <3>1. h2[q] = h[q]
      BY <2>2, <1>0
    <3> QED BY <3>1, SimpleStays
  <2> QED BY <2>1, <2>2
<1>11. ASSUME NEW x \in ow PROVE \E q \in lv : Holder(h2, ow, lv, x, q)
  <2>1. PICK q \in lv : Holder(h, ow, lv, x, q)
    BY DEF MemGood
  <2>2. q \in Page
    BY <1>0
  <2> QED BY <2>1, <2>2, <1>1, <1>4 DEF Holder, In
<1>12. ASSUME NEW q \in Given(h, b, lv, fr) PROVE PageGood(h2, b, lv, q)
  <2>1. PICK r \in Page : r = h[q].base /\ IsPart(h, lv, h[r].base, r) /\ q \in Page /\ PageGood(h, b, lv, q)
    BY GivenFacts DEF MemGood
  <2>2. IsPart(h2, lv, h[r].base, r)
    <3>1. CASE h[r].base = c
      BY <3>1, <2>1
    <3>2. CASE h[r].base # c
      <4>1. h[r].base \in Page /\ h[r].base \in Compounds(h, lv)
        BY <2>1, PartFacts
      <4>2. h2[h[r].base] = h[h[r].base]
        BY <4>1, <3>2
      <4> QED BY <4>1, <4>2, <2>1, <1>6 DEF IsPart, Parts
    <3> QED BY <3>1, <3>2
  <2> QED BY <2>1, <2>2, <1>1 DEF PageGood, Inside
<1>13. \A p \in Compounds(h2, lv) : CompoundGood(h2, b, lv, fr, p)
  BY <1>6, <1>8, <1>9
<1> QED BY <1>2, <1>3, <1>10, <1>11, <1>12, <1>13 DEF MemGood

(* A compound heap gets a further part.                                    *)
LEMMA PartLinked ==
  ASSUME NEW h, NEW b, NEW lv, NEW ow, NEW fr, MemGood(h, b, lv, ow, fr),
         NEW c, c \in Compounds(h, lv), h[c].expand # <<>>,
         NEW q, Unused(h, b, lv, ow, fr, q, h[c].size),
         h[q].kind = "compound", h[q].base = c, h[q].size = h[c].size, h[q].expand = <<>>, GoodList(h[q].list),
         Split(h[q].list, {}, Address(q) + PageSize, EndOf(h, q)),
         NEW h2 \in [Page -> HeaderType], \A r \in Page : r # c => h2[r] = h[r],
         h2[c] = [h[c] EXCEPT !.expand = Append(h[c].expand, q)]
  PROVE  /\ MemGood(h2, b, lv, ow, fr) /\ Given(h2, b, lv, fr) = Given(h, b, lv, fr)
         /\ c \in Compounds(h2, lv) /\ IsPart(h2, lv, c, q)
         /\ \A r : IsPart(h, lv, c, r) => IsPart(h2, lv, c, r)
<1>0. /\ h \in [Page -> HeaderType] /\ c \in Page /\ c \in lv /\ h[c].kind = "compound"
      /\ CompoundGood(h, b, lv, fr, c)
  BY MemTyped DEF MemGood, Compounds
<1>1. /\ h[c] \in HeaderType /\ h[c].expand \in Seq(Page) /\ q \in Page /\ q # c /\ b[q] = h[c].size
      /\ \A r : IsPart(h, lv, c, r) => r # q
      /\ IsPart(h, lv, c, c) /\ h[c].size > 1
  BY <1>0, HeaderIs, FirstIsPart, PartFacts DEF Unused
<1>2. /\ h2[c].kind = h[c].kind /\ h2[c].size = h[c].size /\ h2[c].base = h[c].base /\ h2[c].list = h[c].list
      /\ h2[c].max = h[c].max /\ h2[c].space = h[c].space /\ h2[c].expand = Append(h[c].expand, q)
  BY <1>1 DEF HeaderType
<1>3. PICK s \in Seq(Page) : s = h[c].expand /\ Parts(h, c) = s /\ s # <<>>
  BY <1>1 DEF Parts
<1>4. PICK u \in Seq(Page) : /\ u = Append(s, q) /\ u # <<>> /\ Len(u) = Len(s) + 1 /\ u[Len(s) + 1] = q
                             /\ \A i \in 1..Len(s) : u[i] = s[i]
  <2>1. q \in Page
    BY <1>1
  <2>2. /\ Append(s, q) \in Seq(Page) /\ Append(s, q) # <<>> /\ Len(Append(s, q)) = Len(s) + 1
        /\ Append(s, q)[Len(s) + 1] = q /\ \A i \in 1..Len(s) : Append(s, q)[i] = s[i]
    BY <2>1, AppendProperties
  <2> QED BY <2>2
<1>5. Parts(h2, c) = u
  BY <1>2, <1>3, <1>4 DEF Parts
<1>6. /\ Len(s) \in Nat /\ DOMAIN s = 1..Len(s) /\ DOMAIN u = 1..Len(s)+1
      /\ \A i \in DOMAIN u : i \in DOMAIN s \/ i = Len(s) + 1
  BY <1>4
<1>7. Compounds(h2, lv) = Compounds(h, lv)
  <2>1. \A p \in lv : h2[p].kind = h[p].kind
    BY <1>0, <1>2, MemTyped
  <2> QED BY <2>1 DEF Compounds
<1>8. IsPart(h2, lv, c, q)
  BY <1>4, <1>5, <1>6, <1>7 DEF IsPart
<1>9. \A r : IsPart(h, lv, c, r) => IsPart(h2, lv, c, r)
  BY <1>3, <1>4, <1>5, <1>6, <1>7 DEF IsPart
<1>10. PartGood(h, b, lv, fr, c, q)
  <2>1. GivenIn(h, b, lv, fr, q) = {}
    <3>1. \A r \in Given(h, b, lv, fr) : ~ (q <= r /\ r < q + h[q].size)
      BY DEF Unused
    <3>2. \A r \in Given(h, b, lv, fr) : r \in Nat
      BY GivenFacts
    <3>3. q \in Nat
      BY <1>1, PageIs
    <3> QED BY <3>1, <3>2, <3>3 DEF GivenIn, Inside
  <2>2. PagePieces(GivenIn(h, b, lv, fr, q)) = {}
    BY <2>1 DEF PagePieces
  <2> QED BY <2>2, <1>1 DEF PartGood
<1>11. \A i \in DOMAIN u : PartGood(h, b, lv, fr, c, u[i])
  <2>1. \A i \in DOMAIN s : PartGood(h, b, lv, fr, c, s[i])
    BY <1>0, <1>3 DEF CompoundGood
  <2> QED BY <2>1, <1>4, <1>6, <1>10
<1>12. \A i, j \in DOMAIN u : u[i] = u[j] => i = j
  <2>1. \A i, j \in DOMAIN s : s[i] = s[j] => i = j
    BY <1>0, <1>3 DEF CompoundGood
  <2>2. \A i \in DOMAIN s : s[i] # q
    BY <1>1, <1>3 DEF IsPart
  <2> QED BY <2>1, <2>2, <1>4, <1>6
<1>13. Len(u) >= 1 /\ u[1] = c
  <2>1. Len(s) >= 1 /\ s[1] = c
    BY <1>0, <1>3 DEF CompoundGood
  <2> QED BY <2>1, <1>4, <1>6
<1>14. Moved(h2, c) <=> Moved(h, c)
  BY <1>2, <1>4, <1>3 DEF Moved
<1>15. Moved(h2, c) => SpaceGood(h, b, lv, h2[c].space)
  BY <1>0, <1>2, <1>14 DEF CompoundGood
<1>16. SpacesApart(h2, lv)
  <2>1. \A p \in Compounds(h, lv) : h2[p].space = h[p].space /\ (Moved(h2, p) <=> Moved(h, p))
    <3>1. ASSUME NEW p \in Compounds(h, lv), p # c PROVE h2[p] = h[p]
      BY <3>1, MemTyped DEF Compounds
    <3> QED BY <3>1, <1>2, <1>14 DEF Moved
  <2>2. SpacesApart(h, lv)
    BY DEF MemGood
  <2> QED BY <2>1, <2>2, <1>7 DEF SpacesApart
<1>17. MemGood(h2, b, lv, ow, fr) /\ Given(h2, b, lv, fr) = Given(h, b, lv, fr)
  <2>1. /\ \A i \in DOMAIN Parts(h2, c) : PartGood(h, b, lv, fr, c, Parts(h2, c)[i])
        /\ Len(Parts(h2, c)) >= 1 /\ Parts(h2, c)[1] = c
        /\ \A i, j \in DOMAIN Parts(h2, c) : Parts(h2, c)[i] = Parts(h2, c)[j] => i = j
    BY <1>5, <1>11, <1>12, <1>13
  <2> QED BY ONLY <2>1, <1>2, <1>9, <1>15, <1>16, LinksChange, MemGood(h, b, lv, ow, fr), c \in Compounds(h, lv),
                  h2 \in [Page -> HeaderType], \A r \in Page : r # c => h2[r] = h[r]
<1> QED BY <1>7, <1>8, <1>9, <1>17

(* ... or its list moves to a space of its own.                            *)
SpaceLink(h, b, lv, ow, fr, c, s, n, h2) ==
  /\ Unused(h, b, lv, ow, fr, s, n) /\ h[s].kind = "space"
  /\ h2[c] = [h[c] EXCEPT !.space = s, !.max = SpaceMax]

(* The list of the parts moves to a space of its own.                      *)
LEMMA SpaceLinked ==
  ASSUME NEW h, NEW b, NEW lv, NEW ow, NEW fr, MemGood(h, b, lv, ow, fr),
         NEW c, c \in Compounds(h, lv), h[c].expand # <<>>,
         NEW s, NEW n,
         NEW h2 \in [Page -> HeaderType], \A r \in Page : r # c => h2[r] = h[r],
         SpaceLink(h, b, lv, ow, fr, c, s, n, h2)
  PROVE  /\ MemGood(h2, b, lv, ow, fr) /\ Given(h2, b, lv, fr) = Given(h, b, lv, fr)
         /\ c \in Compounds(h2, lv) /\ h2[c].expand = h[c].expand
         /\ \A r : IsPart(h, lv, c, r) => IsPart(h2, lv, c, r)
<1>0. /\ h \in [Page -> HeaderType] /\ c \in Page /\ c \in lv /\ h[c].kind = "compound"
      /\ CompoundGood(h, b, lv, fr, c)
  BY MemTyped DEF MemGood, Compounds
<1>1. /\ h[c] \in HeaderType /\ s \in Page /\ b[s] > 0 /\ s \notin lv
      /\ \A p \in Compounds(h, lv) : Moved(h, p) => h[p].space # s
  BY <1>0, HeaderIs DEF Unused, SpaceLink
<1>2. /\ h2[c].kind = h[c].kind /\ h2[c].size = h[c].size /\ h2[c].base = h[c].base /\ h2[c].list = h[c].list
      /\ h2[c].max = SpaceMax /\ h2[c].space = s /\ h2[c].expand = h[c].expand
  BY <1>1 DEF HeaderType, SpaceLink
<1>3. Parts(h2, c) = Parts(h, c)
  BY <1>2 DEF Parts
<1>4. Compounds(h2, lv) = Compounds(h, lv)
  <2>1. \A p \in lv : h2[p].kind = h[p].kind
    BY <1>0, <1>2, MemTyped
  <2> QED BY <2>1 DEF Compounds
<1>5. \A r : IsPart(h, lv, c, r) => IsPart(h2, lv, c, r)
  BY <1>3, <1>4 DEF IsPart
<1>6. SpaceGood(h, b, lv, s)
  BY <1>1 DEF SpaceGood, SpaceLink
<1>7. SpacesApart(h2, lv)
  <2>1. \A p \in Compounds(h, lv) : p # c => h2[p] = h[p]
    BY MemTyped DEF Compounds
  <2>2. \A p \in Compounds(h, lv) : p # c => h2[p].space = h[p].space /\ (Moved(h2, p) <=> Moved(h, p))
    BY <2>1 DEF Moved
  <2>3. SpacesApart(h, lv)
    BY DEF MemGood
  <2> QED BY <2>2, <2>3, <1>1, <1>2, <1>4 DEF SpacesApart
<1>8. MemGood(h2, b, lv, ow, fr) /\ Given(h2, b, lv, fr) = Given(h, b, lv, fr)
  <2>1. /\ \A i \in DOMAIN Parts(h2, c) : PartGood(h, b, lv, fr, c, Parts(h2, c)[i])
        /\ Len(Parts(h2, c)) >= 1 /\ Parts(h2, c)[1] = c
        /\ \A i, j \in DOMAIN Parts(h2, c) : Parts(h2, c)[i] = Parts(h2, c)[j] => i = j
    BY <1>0, <1>3 DEF CompoundGood
  <2>2. Moved(h2, c) => SpaceGood(h, b, lv, h2[c].space)
    BY <1>2, <1>6
  <2> QED BY ONLY <2>1, <2>2, <1>2, <1>5, <1>7, LinksChange, MemGood(h, b, lv, ow, fr), c \in Compounds(h, lv),
                  h2 \in [Page -> HeaderType], \A r \in Page : r # c => h2[r] = h[r]
<1> QED BY <1>2, <1>4, <1>5, <1>8

-----------------------------------------------------------------------------
(* Pages of compound heaps. *)
LEMMA RoundMultiple ==
  ASSUME NEW n \in Nat, n % NodeAlign = 0
  PROVE  Round(n) = n
<1>1. Round(n) \in Nat /\ Round(n) >= n /\ Round(n) < n + NodeAlign /\ Round(n) % NodeAlign = 0
  BY RoundGives
<1>2. PICK d \in Int : d = Round(n) - n
  BY <1>1
<1>3. d % NodeAlign = 0
  BY <1>1, <1>2, MultiplesAdd
<1>4. d \in 0..NodeAlign-1
  BY <1>1, <1>2, NodeAlignAssumption
<1>5. d % NodeAlign = d
  BY <1>4, NodeAlignAssumption
<1> QED BY <1>1, <1>2, <1>3, <1>5

(* A page in a part is not a block. *)
LEMMA InsideFacts ==
  ASSUME NEW h, NEW b, NEW lv, NEW ow, NEW fr, MemGood(h, b, lv, ow, fr),
         NEW p, NEW r, IsPart(h, lv, p, r), NEW q \in Page, Inside(h, r, q)
  PROVE  /\ b[q] = 0 /\ q # r /\ \A c, k : IsPart(h, lv, c, k) => k # q
         /\ \A c \in Compounds(h, lv) : c # q /\ (Moved(h, c) => h[c].space # q)
         /\ \A c, k : IsPart(h, lv, c, k) /\ Inside(h, k, q) => k = r /\ c = p
<1>0. /\ b \in [Page -> 0..NumPages] /\ BlocksGood(b) /\ q \in Nat /\ b[q] \in Nat
      /\ r \in Page /\ r \in Nat /\ b[r] = h[r].size /\ h[r].size \in Nat /\ h[r].size > 1 /\ r < q /\ q < r + h[r].size
  BY MemTyped, PartFacts, PageIs DEF MemGood, Inside
<1>1. b[q] = 0
  <2> SUFFICES ASSUME b[q] > 0 PROVE FALSE
    BY <1>0
  <2>1. q <= q /\ q < q + b[q] /\ r <= q /\ q < r + b[r] /\ b[r] > 0
    BY <1>0
  <2>2. q = r
    BY <2>1, <1>0, UsedApart
  <2> QED BY <2>2, <1>0
<1>2. ASSUME NEW c, NEW k, IsPart(h, lv, c, k) PROVE k # q /\ (Inside(h, k, q) => k = r /\ c = p)
  <2>1. k \in Page /\ b[k] = h[k].size /\ h[k].size > 1 /\ h[k].size \in Nat /\ k \in Nat
    BY <1>2, PartFacts, PageIs
  <2>2. k # q
    BY <2>1, <1>1
  <2>3. Inside(h, k, q) => k <= q /\ q < k + h[k].size /\ r <= q /\ q < r + h[r].size
    BY <2>1, <1>0 DEF Inside
  <2> QED BY <2>2, <2>3, <1>0, <1>2, InOnePart
<1>3. ASSUME NEW c \in Compounds(h, lv) PROVE c # q /\ (Moved(h, c) => h[c].space # q)
  <2>1. IsPart(h, lv, c, c)
    BY FirstIsPart DEF Compounds
  <2>2. Moved(h, c) => SpaceGood(h, b, lv, h[c].space)
    BY DEF MemGood, CompoundGood
  <2> QED BY <2>1, <2>2, <1>1, <1>2 DEF SpaceGood
<1> QED BY <1>0, <1>1, <1>2, <1>3

(* A page q of part r goes to the programs, or comes back. *)
MovesPage(h, b, lv, ow, fr, h2, lv2, fr2, r, q) ==
  /\ q \in Page /\ Inside(h, r, q) /\ q \notin lv
  /\ h2 \in [Page -> HeaderType] /\ \A k \in Page : k # r /\ k # q => h2[k] = h[k]
  /\ h2[r].kind = h[r].kind /\ h2[r].size = h[r].size /\ h2[r].base = h[r].base
  /\ h2[r].expand = h[r].expand /\ h2[r].max = h[r].max /\ h2[r].space = h[r].space
  /\ lv2 \in SUBSET Page /\ fr2 \in SUBSET Page /\ lv2 \cap fr2 = {}
  /\ \A k \in Page : k # q => (k \in lv2 <=> k \in lv) /\ (k \in fr2 <=> k \in fr)
  /\ GoodList(h2[r].list)
  /\ Split(h2[r].list, PagePieces(GivenIn(h2, b, lv2, fr2, r)), Address(r) + PageSize, EndOf(h, r))
  /\ q \in lv2 => LiveGood(h2, b, q) /\ SimpleGood(h2, ow, q)
  /\ q \in Given(h2, b, lv2, fr2) => h2[q].kind \in {"heap", "queue"} /\ h2[q].size = 1 /\ h2[q].base = r

(* A page of a part is given out, or comes back.                           *)
LEMMA PageMoves ==
  ASSUME NEW h, NEW b, NEW lv, NEW ow, NEW fr, MemGood(h, b, lv, ow, fr),
         NEW p, NEW r, IsPart(h, lv, p, r), NEW h2, NEW lv2, NEW fr2, NEW q,
         MovesPage(h, b, lv, ow, fr, h2, lv2, fr2, r, q)
  PROVE  /\ MemGood(h2, b, lv2, ow, fr2) /\ Compounds(h2, lv2) = Compounds(h, lv)
         /\ \A c, k : IsPart(h2, lv2, c, k) <=> IsPart(h, lv, c, k)
<1> USE DEF MovesPage
<1>0. /\ h \in [Page -> HeaderType] /\ b \in [Page -> 0..NumPages] /\ lv \in SUBSET Page /\ fr \in SUBSET Page
      /\ ow \in SUBSET Pieces /\ \A x \in ow : x.size > 0
      /\ \A k \in Page : b[k] \in Nat
      /\ r \in Page /\ h[r].kind = "compound" /\ h[r].base = p /\ p \in Page /\ h[r].size = h[p].size
      /\ b[r] = h[p].size /\ h[p].size > 1
  BY MemTyped, PartFacts
<1>1. /\ b[q] = 0 /\ q # r /\ \A c, k : IsPart(h, lv, c, k) => k # q
      /\ \A c \in Compounds(h, lv) : c # q /\ (Moved(h, c) => h[c].space # q)
      /\ \A c, k : IsPart(h, lv, c, k) /\ Inside(h, k, q) => k = r /\ c = p
  BY InsideFacts
<1>2. \A k \in Page : k # q => /\ h2[k].kind = h[k].kind /\ h2[k].size = h[k].size /\ h2[k].base = h[k].base
                               /\ h2[k].expand = h[k].expand /\ h2[k].max = h[k].max /\ h2[k].space = h[k].space
                               /\ (k # r => h2[k] = h[k])
  OBVIOUS
<1>3. MemType(h2, b, lv2, ow, fr2)
  BY <1>0 DEF MemType
<1>4. \A k \in Page : k # q => (k \in Given(h2, b, lv2, fr2) <=> k \in Given(h, b, lv, fr))
  BY <1>2 DEF Given
<1>5. Given(h2, b, lv2, fr2) \subseteq Page /\ Given(h, b, lv, fr) \subseteq Page
  BY <1>0 DEF Given
<1>6. r \notin Given(h, b, lv, fr)
  BY <1>0, GivenFacts
<1>7. Compounds(h2, lv2) = Compounds(h, lv)
  <2>1. q \in lv2 => h2[q].kind # "compound"
    BY <1>1 DEF LiveGood
  <2>2. \A k \in Page : k \in Compounds(h2, lv2) <=> k \in Compounds(h, lv)
    BY <2>1, <1>2 DEF Compounds
  <2>3. Compounds(h2, lv2) \subseteq Page /\ Compounds(h, lv) \subseteq Page
    BY <1>0 DEF Compounds
  <2> QED BY <2>2, <2>3
<1>8. \A c \in Compounds(h, lv) : c \in Page /\ c \in lv /\ c \in lv2 /\ c # q
  BY <1>0, <1>1, <1>7 DEF Compounds
<1>9. \A c, k : IsPart(h2, lv2, c, k) <=> IsPart(h, lv, c, k)
  BY <1>2, <1>7, <1>8 DEF IsPart, Parts
<1>10. ASSUME NEW k \in lv2 PROVE LiveGood(h2, b, k) /\ SimpleGood(h2, ow, k)
  <2>1. CASE k = q
    BY <2>1, <1>10
  <2>2. CASE k = r
    <3>1. LiveGood(h, b, r)
      BY <2>2, <1>0, <1>1, <1>10, LiveFacts
    <3> QED BY <2>2, <3>1, <1>0 DEF LiveGood, SimpleGood
  <2>3. CASE k # q /\ k # r
    <3>1. h2[k] = h[k] /\ k \in lv
      BY <2>3
    <3> QED BY <3>1, SimpleStays
  <2> QED BY <2>1, <2>2, <2>3
<1>11. ASSUME NEW x \in ow PROVE \E k \in lv2 : Holder(h2, ow, lv2, x, k)
  <2>1. PICK k \in lv : Holder(h, ow, lv, x, k)
    BY DEF MemGood
  <2>2. k \in Page /\ k # q /\ k # r
    BY <2>1, <1>0 DEF Holder
  <2>3. h2[k] = h[k] /\ k \in lv2
    BY <2>1, <2>2
  <2>4. EndOf(h2, k) = EndOf(h, k)
    BY <2>3 DEF EndOf
  <2>5. Holder(h2, ow, lv2, x, k)
    BY <2>1, <2>3, <2>4 DEF Holder, In
  <2> QED BY <2>5, <2>3
<1>12. ASSUME NEW k \in Given(h2, b, lv2, fr2) PROVE PageGood(h2, b, lv2, k)
  <2>1. CASE k = q
    <3>1. IsPart(h2, lv2, p, r) /\ Inside(h2, r, q) /\ h2[r].base = p
      BY <1>0, <1>9 DEF Inside
    <3> QED BY <2>1, <3>1, <1>0, <1>1, <1>12 DEF PageGood
  <2>2. CASE k # q
    <3>1. k \in Given(h, b, lv, fr) /\ k \in Page /\ k # r
      BY <2>2, <1>4, <1>5, <1>6, <1>12
    <3>2. PICK j \in Page : j = h[k].base /\ IsPart(h, lv, h[j].base, j) /\ PageGood(h, b, lv, k)
      BY <3>1, GivenFacts DEF MemGood
    <3>3. h2[k] = h[k] /\ j # q /\ IsPart(h2, lv2, h[j].base, j)
      BY <3>1, <3>2, <1>1, <1>9, <2>2
    <3> QED BY <3>2, <3>3, <1>2 DEF PageGood, Inside
  <2> QED BY <2>1, <2>2
<1>13. ASSUME NEW c \in Compounds(h, lv) PROVE CompoundGood(h2, b, lv2, fr2, c)
  <2>1. ASSUME NEW k, IsPart(h, lv, c, k) PROVE PartGood(h2, b, lv2, fr2, c, k)
    <3>1. k \in Page /\ k # q /\ PartGood(h, b, lv, fr, c, k) /\ c # q /\ c \in Page /\ h[k].base = c
      BY <2>1, <1>1, <1>8, PartFacts
    <3>2. CASE k = r
      <4>1. EndOf(h2, r) = EndOf(h, r)
        BY DEF EndOf
      <4>2. c = p
        BY <3>1, <3>2, <1>0
      <4>3. h2[c].size = h[c].size
        BY <3>1, <1>2
      <4> QED BY <3>1, <3>2, <4>1, <4>2, <4>3, <1>0 DEF PartGood
    <3>3. CASE k # r
      <4>1. h2[k] = h[k] /\ h2[c].size = h[c].size
        BY <3>1, <3>3, <1>2
      <4>2. ASSUME NEW j, Inside(h, k, j) PROVE j \in Given(h2, b, lv2, fr2) <=> j \in Given(h, b, lv, fr)
        <5>1. j # q
          BY <4>2, <2>1, <3>3, <1>1
        <5> QED BY <5>1, <1>4, <1>5
      <4> QED BY <4>1, <4>2, <3>1, PartStays
    <3> QED BY <3>2, <3>3
  <2>2. ASSUME Moved(h, c) PROVE SpaceGood(h2, b, lv2, h[c].space)
    <3>1. SpaceGood(h, b, lv, h[c].space)
      BY <2>2 DEF MemGood, CompoundGood
    <3>2. h[c].space \in Page /\ h[c].space # q
      BY <3>1, <2>2, <1>1 DEF SpaceGood
    <3> QED BY <3>1, <3>2, <1>2 DEF SpaceGood
  <2>3. /\ c \in lv2 /\ h2[c].kind = h[c].kind /\ h2[c].expand = h[c].expand /\ h2[c].max = h[c].max
        /\ h2[c].space = h[c].space
    BY <1>2, <1>8
  <2> QED BY ONLY <2>1, <2>2, <2>3, MemGood(h, b, lv, ow, fr), c \in Compounds(h, lv), CompoundKept
<1>14. SpacesApart(h2, lv2)
  <2>1. \A c \in Compounds(h, lv) : h2[c].space = h[c].space /\ (Moved(h2, c) <=> Moved(h, c))
    BY <1>2, <1>8 DEF Moved
  <2>2. SpacesApart(h, lv)
    BY DEF MemGood
  <2> QED BY <2>1, <2>2, <1>7 DEF SpacesApart
<1>15. BlocksGood(b)
  BY DEF MemGood
<1>16. MemGood(h2, b, lv2, ow, fr2)
  BY <1>3, <1>7, <1>10, <1>11, <1>12, <1>13, <1>14, <1>15 DEF MemGood
<1> QED BY <1>7, <1>9, <1>16

(* No program has a piece in a page that is not given out.                 *)
LEMMA NoPieces ==
  ASSUME NEW h, NEW b, NEW lv, NEW ow, NEW fr, MemGood(h, b, lv, ow, fr),
         NEW p, NEW r, IsPart(h, lv, p, r), NEW q \in Page, Inside(h, r, q), q \notin lv, NEW x \in ow
  PROVE  PageOf(x.at) # q
<1>0. /\ b \in [Page -> 0..NumPages] /\ BlocksGood(b) /\ h \in [Page -> HeaderType] /\ ow \in SUBSET Pieces
      /\ lv \in SUBSET Page
      /\ q \in Nat /\ r \in Page /\ r \in Nat /\ b[r] = h[r].size /\ h[r].size \in Nat /\ h[r].size > 1
      /\ r < q /\ q < r + h[r].size /\ h[r].kind = "compound"
  BY MemTyped, PartFacts, PageIs DEF MemGood, Inside
<1>1. PICK k \in lv : h[k].kind \in {"heap", "stack"} /\ x \in In(h, ow, k)
  BY DEF MemGood, Holder
<1>2. k \in Page /\ PageOf(x.at) \in Nat /\ k <= PageOf(x.at) /\ PageOf(x.at) < k + h[k].size
  BY <1>0, <1>1, InPages
<1> SUFFICES ASSUME PageOf(x.at) = q PROVE FALSE
  OBVIOUS
<1>3. CASE b[k] > 0
  <2>1. b[k] = h[k].size
    BY <1>3, LiveFacts
  <2>2. k = r
    <3>1. k <= q /\ q < k + b[k] /\ r <= q /\ q < r + b[r] /\ b[r] > 0
      BY <2>1, <1>0, <1>2
    <3> QED BY <3>1, <1>0, <1>2, <1>3, UsedApart
  <2> QED BY <2>2, <1>0, <1>1
<1>4. CASE b[k] = 0
  <2>1. h[k].size = 1 /\ k \in Nat
    BY <1>4, LiveFacts
  <2>2. k = q
    BY <2>1, <1>0, <1>2
  <2> QED BY <2>2, <1>1
<1>5. b[k] \in Nat
  BY LiveFacts
<1> QED BY <1>3, <1>4, <1>5

(* The length of some pages. *)
LEMMA PagesLong ==
  ASSUME NEW n \in Nat, n >= 1
  PROVE  n * PageSize \in Nat /\ n * PageSize >= PageSize /\ (n * PageSize) % NodeAlign = 0
<1>1. n * PageSize \in Nat
  BY PageFacts
<1>2. 0 * PageSize + PageSize <= n * PageSize
  BY Products
<1>3. PICK k \in Nat : PageSize = NodeAlign * k
  BY PageFacts, MultipleOf
<1>4. n * PageSize = (n * k) * NodeAlign /\ n * k \in Int
  BY <1>3, PageFacts
<1>5. (n * PageSize) % NodeAlign = 0
  BY <1>4, NodeMultiple
<1>6. 0 * PageSize = 0
  BY PageFacts
<1> QED BY <1>1, <1>2, <1>5, <1>6, PageFacts

(* A new heap or stack, of which nothing is given out. *)
LEMMA NewGood ==
  ASSUME NEW h \in [Page -> HeaderType], NEW ow, NEW p \in Page, In(h, ow, p) = {}, NEW n \in Nat, h[p].size = n, n >= 1,
         h[p].kind = "heap" => h[p].list = <<Piece(Address(p) + HeapOffset, n * PageSize - HeapOffset)>>,
         h[p].kind = "stack" => h[p].list = <<>> /\ h[p].next = Address(p) + PageSize
  PROVE  SimpleGood(h, ow, p)
<1>0. p \in Nat
  BY PageIs
<1>1. /\ Address(p) \in Nat /\ n * PageSize \in Nat
      /\ EndOf(h, p) = Address(p) + n * PageSize
  <2>1. Address(p) \in Nat
    BY <1>0, Addresses
  <2>2. n * PageSize \in Nat
    BY ONLY n \in Nat, PageFacts
  <2> QED BY <2>1, <2>2 DEF EndOf
<1>2. n * PageSize >= PageSize /\ (n * PageSize) % NodeAlign = 0
  BY PagesLong
<1>3. ASSUME h[p].kind = "heap" PROVE SimpleGood(h, ow, p)
  <2>1. PICK m \in Nat : m = n * PageSize - HeapOffset /\ m > 0 /\ m % NodeAlign = 0
    <3>1. (n * PageSize - HeapOffset) % NodeAlign = 0
      BY <1>1, <1>2, PageFacts, MultiplesAdd
    <3>2. n * PageSize - HeapOffset \in Nat /\ n * PageSize - HeapOffset > 0
      BY <1>1, <1>2, PageFacts
    <3> QED BY <3>1, <3>2
  <2>2. PICK at \in Nat : at = Address(p) + HeapOffset
    BY <1>1, PageFacts
  <2>3. EndOf(h, p) = at + m
    BY <2>1, <2>2, <1>1, PageFacts
  <2>4. h[p].list = <<Piece(at, m)>>
    BY <2>1, <2>2, <1>3
  <2>5. GoodList(h[p].list) /\ Split(h[p].list, {}, at, EndOf(h, p))
    BY <2>1, <2>3, <2>4, SplitNew
  <2> QED BY <2>2, <2>5, <1>3 DEF SimpleGood
<1>4. ASSUME h[p].kind = "stack" PROVE SimpleGood(h, ow, p)
  <2>1. PICK at \in Nat : at = Address(p) + PageSize /\ at <= EndOf(h, p)
    BY <1>1, <1>2, PageFacts
  <2>2. Split(<<>>, {}, at, at)
    BY <2>1, NothingFree, SplitMembers
  <2> QED BY <2>1, <2>2, <1>4 DEF SimpleGood
<1>5. ASSUME h[p].kind \notin {"heap", "stack"} PROVE SimpleGood(h, ow, p)
  BY <1>5 DEF SimpleGood
<1> QED BY <1>3, <1>4, <1>5

(* A page of a part is given out. *)
IsNewPage(v, q, r) ==
  /\ v \in HeaderType /\ v.kind \in {"heap", "queue"} /\ v.size = 1 /\ v.base = r
  /\ v.kind = "heap" => v.list = <<Piece(Address(q) + HeapOffset, 1 * PageSize - HeapOffset)>>

(* What a part is made of.                                                 *)
LEMMA PagesOfPart ==
  ASSUME NEW h, NEW b, NEW lv, NEW ow, NEW fr, MemGood(h, b, lv, ow, fr), NEW p, NEW r, IsPart(h, lv, p, r)
  PROVE  /\ r \in Nat /\ h[r].size \in Nat /\ h[r].size > 1 /\ r + h[r].size <= NumPages
         /\ Address(r) + PageSize = Address(r + 1) /\ EndOf(h, r) = Address(r + h[r].size)
         /\ GoodList(h[r].list)
         /\ Split(h[r].list, PagePieces(GivenIn(h, b, lv, fr, r)), Address(r + 1), Address(r + h[r].size))
         /\ GivenIn(h, b, lv, fr, r) \in SUBSET Nat /\ GivenIn(h, b, lv, fr, r) \subseteq Given(h, b, lv, fr)
<1>1. r \in Page /\ PartGood(h, b, lv, fr, p, r) /\ h[r].size = h[p].size /\ b[r] = h[r].size /\ h[p].size > 1 /\ h[p].size \in Nat
  BY PartFacts
<1>2. r \in Nat /\ h[r].size \in Nat
  BY <1>1, PageIs
<1>3. Address(r) + PageSize = Address(r + 1) /\ EndOf(h, r) = Address(r + h[r].size)
  BY <1>2, Addresses, EndIs
<1>4. r + h[r].size <= NumPages
  <2>1. BlocksGood(b) /\ b[r] > 0
    BY <1>1, <1>2 DEF MemGood
  <2> QED BY <2>1, <1>1 DEF BlocksGood
<1>5. \A q \in Given(h, b, lv, fr) : q \in Nat
  BY GivenFacts
<1> QED BY <1>1, <1>2, <1>3, <1>4, <1>5 DEF PartGood, GivenIn

GivesPage(h, h2, r, i, q, v) == h2 = [h EXCEPT ![r].list = AllocNode(@, i, PageSize), ![q] = v]

PageWent(h, b, lv, ow, fr, r, q, h2) ==
  /\ q \in Page /\ Inside(h, r, q) /\ q # r /\ q \notin lv /\ q \notin fr
  /\ h2 \in [Page -> HeaderType] /\ MemGood(h2, b, lv \cup {q}, ow, fr)
  /\ Compounds(h2, lv \cup {q}) = Compounds(h, lv)
  /\ \A c, k : IsPart(h2, lv \cup {q}, c, k) <=> IsPart(h, lv, c, k)
  /\ \A k \in Page : k # q => h2[k] = [h[k] EXCEPT !.list = h2[k].list]

(* A page off the free list of a part.                                     *)
LEMMA PageOut ==
  ASSUME NEW h, NEW b, NEW lv, NEW ow, NEW fr, MemGood(h, b, lv, ow, fr),
         NEW p, NEW r, IsPart(h, lv, p, r),
         NEW i \in 1..Len(h[r].list), NEW q, q = PageOf(h[r].list[i].at),
         NEW v, IsNewPage(v, q, r), NEW h2, GivesPage(h, h2, r, i, q, v)
  PROVE  PageWent(h, b, lv, ow, fr, r, q, h2)
<1> USE DEF PageWent
<1> USE DEF GivesPage
<1>0. /\ h \in [Page -> HeaderType] /\ lv \in SUBSET Page /\ fr \in SUBSET Page /\ ow \in SUBSET Pieces
      /\ b \in [Page -> 0..NumPages] /\ r \in Page /\ h[r].kind = "compound"
  BY MemTyped, PartFacts
<1>1. /\ r \in Nat /\ h[r].size \in Nat /\ h[r].size > 1 /\ r + h[r].size <= NumPages
      /\ Address(r) + PageSize = Address(r + 1) /\ EndOf(h, r) = Address(r + h[r].size)
      /\ GoodList(h[r].list)
      /\ Split(h[r].list, PagePieces(GivenIn(h, b, lv, fr, r)), Address(r + 1), Address(r + h[r].size))
      /\ GivenIn(h, b, lv, fr, r) \in SUBSET Nat
  BY PagesOfPart
<1>2. /\ q \in Nat /\ q >= r + 1 /\ q < r + h[r].size /\ q \notin GivenIn(h, b, lv, fr, r)
      /\ Piece(h[r].list[i].at, PageSize) = PagePiece(q) /\ LongEnough(h[r].list[i], PageSize)
  <2>1. r + 1 \in Nat /\ r + h[r].size \in Nat
    BY <1>1
  <2> QED BY <2>1, <1>1, SplitAligned
<1>3. q \in Page /\ Inside(h, r, q) /\ q # r
  BY <1>1, <1>2, PageIs DEF Inside
<1>4. q \notin Given(h, b, lv, fr) /\ q \notin fr /\ b[q] = 0 /\ q \notin lv
  <2>1. q \notin Given(h, b, lv, fr)
    BY <1>2, <1>3 DEF GivenIn
  <2>2. b[q] = 0
    BY <1>3, InsideFacts
  <2> QED BY <2>1, <2>2, LiveFacts DEF Given
<1>5. PICK lv2 \in SUBSET Page : lv2 = lv \cup {q}
  BY <1>0, <1>3
<1>6. PICK new : new = AllocNode(h[r].list, i, PageSize)
  OBVIOUS
<1>7. /\ GoodList(new)
      /\ Split(new, PagePieces(GivenIn(h, b, lv, fr, r)) \cup {PagePiece(q)}, Address(r + 1), Address(r + h[r].size))
  <2>1. PICK Q : Q = PagePieces(GivenIn(h, b, lv, fr, r))
    OBVIOUS
  <2>2. PICK list : list = h[r].list
    OBVIOUS
  <2>3. /\ GoodList(list) /\ Split(list, Q, Address(r + 1), Address(r + h[r].size)) /\ i \in 1..Len(list)
        /\ LongEnough(list[i], PageSize) /\ new = AllocNode(list, i, PageSize) /\ PagePiece(q) = Piece(list[i].at, PageSize)
    BY <2>1, <2>2, <1>1, <1>2, <1>6
  <2>4. PageSize \in Nat /\ PageSize > 0 /\ PageSize % NodeAlign = 0
    BY PageFacts
  <2>5. GoodList(new) /\ Split(new, Q \cup {PagePiece(q)}, Address(r + 1), Address(r + h[r].size))
    BY ONLY <2>3, <2>4, SplitTake
  <2> QED BY <2>1, <2>5
<1>8. new \in Seq(Pieces)
  BY <1>7, ListFacts
<1>9. /\ h2 \in [Page -> HeaderType] /\ h2[q] = v /\ \A k \in Page : k # r /\ k # q => h2[k] = h[k]
      /\ h2[r] = [h[r] EXCEPT !.list = new]
  <2>1. [h[r] EXCEPT !.list = new] \in HeaderType
    BY <1>0, <1>8 DEF HeaderType
  <2> QED BY <2>1, <1>0, <1>3, <1>6 DEF IsNewPage
<1>10. /\ h2[r].kind = h[r].kind /\ h2[r].size = h[r].size /\ h2[r].base = h[r].base /\ h2[r].list = new
       /\ h2[r].expand = h[r].expand /\ h2[r].max = h[r].max /\ h2[r].space = h[r].space
  <2>1. h[r] \in HeaderType
    BY <1>0
  <2> QED BY ONLY <2>1, <1>9 DEF HeaderType
<1>11. GivenIn(h2, b, lv2, fr, r) = GivenIn(h, b, lv, fr, r) \cup {q}
  <2>1. q \in GivenIn(h2, b, lv2, fr, r)
    BY <1>3, <1>4, <1>5, <1>9, <1>10 DEF GivenIn, Given, Inside, IsNewPage
  <2>2. \A k \in Page : k # q /\ k # r => (k \in Given(h2, b, lv2, fr) <=> k \in Given(h, b, lv, fr))
    BY <1>5, <1>9 DEF Given
  <2>3. \A k : k \in GivenIn(h2, b, lv2, fr, r) \cup GivenIn(h, b, lv, fr, r) => k \in Page /\ k # r
    BY <1>0, <1>1, <1>10 DEF Given, GivenIn, Inside
  <2>4. \A k : k # q => (k \in GivenIn(h2, b, lv2, fr, r) <=> k \in GivenIn(h, b, lv, fr, r))
    BY <2>2, <2>3, <1>10 DEF GivenIn, Inside
  <2> QED BY <2>1, <2>4
<1>12. PagePieces(GivenIn(h2, b, lv2, fr, r)) = PagePieces(GivenIn(h, b, lv, fr, r)) \cup {PagePiece(q)}
  BY <1>11 DEF PagePieces
<1>13. In(h2, ow, q) = {}
  <2> SUFFICES ASSUME NEW x, x \in In(h2, ow, q) PROVE FALSE
    OBVIOUS
  <2>1. h2[q].size = 1
    BY <1>9 DEF IsNewPage
  <2>2. x \in ow /\ PageOf(x.at) \in Nat /\ q <= PageOf(x.at) /\ PageOf(x.at) < q + 1
    <3>1. h2 \in [Page -> HeaderType] /\ ow \in SUBSET Pieces /\ q \in Page
      BY <1>0, <1>3, <1>9
    <3> QED BY ONLY <3>1, <2>1, x \in In(h2, ow, q), InPages
  <2>3. PageOf(x.at) = q
    BY <2>2, <1>2
  <2> QED BY <2>2, <2>3, <1>3, <1>4, NoPieces
<1>14. LiveGood(h2, b, q) /\ SimpleGood(h2, ow, q)
  <2>1. SimpleGood(h2, ow, q)
    <3>1. h2[q].size = 1 /\ h2[q].kind # "stack"
      BY <1>9 DEF IsNewPage
    <3>2. h2[q].kind = "heap" => h2[q].list = <<Piece(Address(q) + HeapOffset, 1 * PageSize - HeapOffset)>>
      BY <1>9 DEF IsNewPage
    <3>3. h2 \in [Page -> HeaderType]
      BY <1>9
    <3> QED BY ONLY <3>1, <3>2, <3>3, <1>3, <1>13, NewGood
  <2> QED BY <2>1, <1>4, <1>9 DEF LiveGood, IsNewPage
<1>15. /\ MemGood(h2, b, lv2, ow, fr) /\ Compounds(h2, lv2) = Compounds(h, lv)
       /\ \A c, k : IsPart(h2, lv2, c, k) <=> IsPart(h, lv, c, k)
  <2>1. lv2 \cap fr = {} /\ \A k \in Page : k # q => (k \in lv2 <=> k \in lv) /\ (k \in fr <=> k \in fr)
    BY <1>4, <1>5 DEF MemGood
  <2>2. Split(h2[r].list, PagePieces(GivenIn(h2, b, lv2, fr, r)), Address(r) + PageSize, EndOf(h, r)) /\ GoodList(h2[r].list)
    BY <1>1, <1>7, <1>10, <1>12
  <2>3. h2[q].kind \in {"heap", "queue"} /\ h2[q].size = 1 /\ h2[q].base = r
    BY <1>9 DEF IsNewPage
  <2>4. h2 \in [Page -> HeaderType] /\ (\A k \in Page : k # r /\ k # q => h2[k] = h[k]) /\ fr \in SUBSET Page
    BY <1>0, <1>9
  <2>5. MovesPage(h, b, lv, ow, fr, h2, lv2, fr, r, q)
    BY ONLY <2>1, <2>2, <2>3, <2>4, <1>3, <1>4, <1>10, <1>14, lv2 \in SUBSET Page DEF MovesPage
  <2> QED BY ONLY <2>5, PageMoves, MemGood(h, b, lv, ow, fr), IsPart(h, lv, p, r)
<1>16. \A k \in Page : k # q => h2[k] = [h[k] EXCEPT !.list = h2[k].list]
  <2>1. ASSUME NEW k \in Page, k # q PROVE h2[k] = [h[k] EXCEPT !.list = h2[k].list]
    <3>1. CASE k = r
      BY <3>1, <1>9, <1>10
    <3>2. CASE k # r
      <4>1. h2[k] = h[k] /\ h[k] \in HeaderType
        BY <2>1, <3>2, <1>0, <1>9
      <4> QED BY <4>1 DEF HeaderType
    <3> QED BY <3>1, <3>2
  <2> QED BY <2>1
<1> QED BY <1>3, <1>4, <1>5, <1>9, <1>15, <1>16

(* ... and comes back. *)
LEMMA NoHeaderTyped == NoHeader \in HeaderType
<1>1. <<>> \in Seq(Pieces) /\ <<>> \in Seq(Page)
  OBVIOUS
<1> QED BY <1>1, PageFacts DEF NoHeader, Header, HeaderType, Kind, NoPage

PageReturned(h, q, r, h2) == h2 = [h EXCEPT ![q] = NoHeader, ![r].list = DeallocSpace(@, Address(q), PageSize)]

PageCame(h, b, lv, ow, fr, q, h2) ==
  /\ h2 \in [Page -> HeaderType] /\ MemGood(h2, b, lv, ow, fr \ {q}) /\ q \notin lv
  /\ Compounds(h2, lv) = Compounds(h, lv)
  /\ \A c, k : IsPart(h2, lv, c, k) <=> IsPart(h, lv, c, k)
  /\ \A k \in Page : k # q => h2[k] = [h[k] EXCEPT !.list = h2[k].list]
  /\ h2[q] = NoHeader

(* A page that was given up goes back on the list.                         *)
LEMMA PageBack ==
  ASSUME NEW h, NEW b, NEW lv, NEW ow, NEW fr, MemGood(h, b, lv, ow, fr),
         NEW q \in fr, NEW r, r = h[q].base,
         NEW h2, PageReturned(h, q, r, h2)
  PROVE  PageCame(h, b, lv, ow, fr, q, h2)
<1>00. h2 = [h EXCEPT ![q] = NoHeader, ![r].list = DeallocSpace(@, Address(q), PageSize)]
  BY DEF PageReturned
<1>0. /\ h \in [Page -> HeaderType] /\ lv \in SUBSET Page /\ fr \in SUBSET Page /\ ow \in SUBSET Pieces
      /\ b \in [Page -> 0..NumPages] /\ lv \cap fr = {}
  BY MemTyped DEF MemGood
<1>1. /\ q \in Page /\ q \in Nat /\ r \in Page /\ IsPart(h, lv, h[r].base, r) /\ Inside(h, r, q)
      /\ q \in GivenIn(h, b, lv, fr, r) /\ q \notin lv
  <2>1. q \in Given(h, b, lv, fr)
    BY DEF Given
  <2> QED BY <2>1, <1>0, GivenFacts
<1>2. PICK p : p = h[r].base /\ IsPart(h, lv, p, r)
  BY <1>1
<1>3. /\ r \in Nat /\ h[r].size \in Nat /\ h[r].size > 1 /\ r + h[r].size <= NumPages
      /\ Address(r) + PageSize = Address(r + 1) /\ EndOf(h, r) = Address(r + h[r].size)
      /\ GoodList(h[r].list)
      /\ Split(h[r].list, PagePieces(GivenIn(h, b, lv, fr, r)), Address(r + 1), Address(r + h[r].size))
      /\ GivenIn(h, b, lv, fr, r) \in SUBSET Nat /\ h[r].kind = "compound"
  BY <1>2, PagesOfPart, PartFacts
<1>4. q # r
  BY <1>2, <1>1, InsideFacts
<1>5. PICK fr2 \in SUBSET Page : fr2 = fr \ {q}
  BY <1>0
<1>6. PICK new : new = DeallocSpace(h[r].list, Address(q), PageSize)
  OBVIOUS
<1>7. /\ GoodList(new)
      /\ Split(new, PagePieces(GivenIn(h, b, lv, fr, r)) \ {PagePiece(q)}, Address(r + 1), Address(r + h[r].size))
  <2>1. PICK Q : Q = PagePieces(GivenIn(h, b, lv, fr, r))
    OBVIOUS
  <2>2. PICK list : list = h[r].list
    OBVIOUS
  <2>3. /\ PagePiece(q) \in Q /\ PagePiece(q) \in Pieces /\ PagePiece(q).at = Address(q) /\ PagePiece(q).size = PageSize
    BY <2>1, <1>1, PagePieceIs DEF PagePieces, GoodPiece
  <2>4. /\ GoodList(list) /\ Split(list, Q, Address(r + 1), Address(r + h[r].size))
        /\ new = DeallocSpace(list, PagePiece(q).at, PageSize)
    BY <2>1, <2>2, <2>3, <1>3, <1>6
  <2>5. PageSize \in Nat /\ PageSize > 0 /\ Round(PageSize) = PagePiece(q).size
    BY <2>3, PageFacts, RoundMultiple
  <2>6. GoodList(new) /\ Split(new, Q \ {PagePiece(q)}, Address(r + 1), Address(r + h[r].size))
    BY ONLY <2>3, <2>4, <2>5, SplitPut
  <2> QED BY <2>1, <2>6
<1>8. new \in Seq(Pieces)
  BY <1>7, ListFacts
<1>9. /\ h2 \in [Page -> HeaderType] /\ h2[q] = NoHeader /\ \A k \in Page : k # r /\ k # q => h2[k] = h[k]
      /\ h2[r] = [h[r] EXCEPT !.list = new]
  <2>1. [h[r] EXCEPT !.list = new] \in HeaderType
    BY <1>0, <1>1, <1>8 DEF HeaderType
  <2> QED BY <1>00, <2>1, <1>0, <1>1, <1>4, <1>6, NoHeaderTyped
<1>10. /\ h2[r].kind = h[r].kind /\ h2[r].size = h[r].size /\ h2[r].base = h[r].base /\ h2[r].list = new
       /\ h2[r].expand = h[r].expand /\ h2[r].max = h[r].max /\ h2[r].space = h[r].space
  <2>1. h[r] \in HeaderType
    BY <1>0, <1>1
  <2> QED BY ONLY <2>1, <1>9 DEF HeaderType
<1>11. GivenIn(h2, b, lv, fr2, r) = GivenIn(h, b, lv, fr, r) \ {q}
  <2>1. q \notin GivenIn(h2, b, lv, fr2, r)
    BY <1>1, <1>5 DEF GivenIn, Given
  <2>2. \A k \in Page : k # q /\ k # r => (k \in Given(h2, b, lv, fr2) <=> k \in Given(h, b, lv, fr))
    BY <1>5, <1>9 DEF Given
  <2>3. \A k : k \in GivenIn(h2, b, lv, fr2, r) \cup GivenIn(h, b, lv, fr, r) => k \in Page /\ k # r
    <3>1. ASSUME NEW k, k \in GivenIn(h2, b, lv, fr2, r) PROVE k \in Page /\ k # r
      <4>1. k \in lv \cup fr2 /\ k > r
        BY ONLY <3>1 DEF Given, GivenIn, Inside
      <4> QED BY ONLY <4>1, <1>0, <1>1, <1>3, <1>5
    <3>2. ASSUME NEW k, k \in GivenIn(h, b, lv, fr, r) PROVE k \in Page /\ k # r
      <4>1. k \in lv \cup fr /\ k > r
        BY ONLY <3>2 DEF Given, GivenIn, Inside
      <4> QED BY ONLY <4>1, <1>0, <1>1, <1>3
    <3> QED BY ONLY <3>1, <3>2
  <2>4. \A k : k # q => (k \in GivenIn(h2, b, lv, fr2, r) <=> k \in GivenIn(h, b, lv, fr, r))
    BY <2>2, <2>3, <1>10 DEF GivenIn, Inside
  <2> QED BY <2>1, <2>4
<1>12. PagePieces(GivenIn(h2, b, lv, fr2, r)) = PagePieces(GivenIn(h, b, lv, fr, r)) \ {PagePiece(q)}
  <2>1. \A k \in GivenIn(h, b, lv, fr, r) : PagePiece(k) = PagePiece(q) => k = q
    <3>1. ASSUME NEW k \in Nat, PagePiece(k) = PagePiece(q) PROVE k = q
      <4>1. Address(k) = Address(q)
        BY <3>1, <1>1, PagePieceIs
      <4> QED BY <4>1, <1>1, Addresses
    <3> QED BY <3>1, <1>3
  <2> QED BY <2>1, <1>11 DEF PagePieces
<1>13. /\ MemGood(h2, b, lv, ow, fr2) /\ Compounds(h2, lv) = Compounds(h, lv)
       /\ \A c, k : IsPart(h2, lv, c, k) <=> IsPart(h, lv, c, k)
  <2>1. lv \cap fr2 = {} /\ \A k \in Page : k # q => (k \in lv <=> k \in lv) /\ (k \in fr2 <=> k \in fr)
    BY <1>0, <1>5
  <2>2. Split(h2[r].list, PagePieces(GivenIn(h2, b, lv, fr2, r)), Address(r) + PageSize, EndOf(h, r)) /\ GoodList(h2[r].list)
    BY <1>3, <1>7, <1>10, <1>12
  <2>3. q \notin Given(h2, b, lv, fr2)
    BY <1>1, <1>5 DEF Given
  <2>5. MovesPage(h, b, lv, ow, fr, h2, lv, fr2, r, q)
    BY ONLY <2>1, <2>2, <2>3, <1>0, <1>1, <1>9, <1>10, fr2 \in SUBSET Page DEF MovesPage
  <2> QED BY ONLY <2>5, PageMoves, MemGood(h, b, lv, ow, fr), <1>2
<1>14. \A k \in Page : k # q => h2[k] = [h[k] EXCEPT !.list = h2[k].list]
  <2>1. ASSUME NEW k \in Page, k # q PROVE h2[k] = [h[k] EXCEPT !.list = h2[k].list]
    <3>1. CASE k = r
      BY <3>1, <1>9, <1>10
    <3>2. CASE k # r
      <4>1. h2[k] = h[k] /\ h[k] \in HeaderType
        BY <2>1, <3>2, <1>0, <1>9
      <4> QED BY <4>1 DEF HeaderType
    <3> QED BY <3>1, <3>2
  <2> QED BY <2>1
<1> QED BY <1>1, <1>5, <1>9, <1>13, <1>14 DEF PageCame

-----------------------------------------------------------------------------
(* Heaps and pages that the programs let go of. *)
LetsGo(h, b, lv, ow, fr, b2, lv2, ow2, fr2) ==
  /\ b2 \in [Page -> 0..NumPages] /\ \A q \in Page : b2[q] = b[q] \/ b2[q] = 0
  /\ lv2 \subseteq lv /\ fr2 \subseteq Page /\ ow2 \subseteq ow /\ lv2 \cap fr2 = {}
  /\ \A q \in lv2 : b2[q] = b[q]
  /\ \A q \in lv2 : h[q].kind # "compound" => \A x \in In(h, ow, q) : x \in ow2
  /\ \A x \in ow2 : \E q \in lv2 : Holder(h, ow, lv, x, q)
  /\ Given(h, b2, lv2, fr2) \subseteq Given(h, b, lv, fr)
  /\ \A q \in Given(h, b2, lv2, fr2) : h[h[q].base].base \in lv2
  /\ \A p \in Compounds(h, lv) \cap lv2 :
       /\ \A r : IsPart(h, lv, p, r) => /\ b2[r] = b[r]
                                        /\ \A q \in Given(h, b, lv, fr) : Inside(h, r, q) => q \in Given(h, b2, lv2, fr2)
       /\ Moved(h, p) => b2[h[p].space] = b[h[p].space]

(* Heaps go with their blocks and pieces; the others stay what they are.   *)
LEMMA HeapsGo ==
  ASSUME NEW h, NEW b, NEW lv, NEW ow, NEW fr, MemGood(h, b, lv, ow, fr),
         NEW b2, NEW lv2, NEW ow2, NEW fr2, LetsGo(h, b, lv, ow, fr, b2, lv2, ow2, fr2)
  PROVE  /\ MemGood(h, b2, lv2, ow2, fr2) /\ Compounds(h, lv2) = Compounds(h, lv) \cap lv2
         /\ \A c, k : IsPart(h, lv2, c, k) <=> IsPart(h, lv, c, k) /\ c \in lv2
<1> USE DEF LetsGo
<1>0. /\ h \in [Page -> HeaderType] /\ lv \in SUBSET Page /\ ow \in SUBSET Pieces /\ \A x \in ow : x.size > 0
      /\ b \in [Page -> 0..NumPages] /\ BlocksGood(b)
  BY MemTyped DEF MemGood
<1>1. MemType(h, b2, lv2, ow2, fr2)
  BY <1>0 DEF MemType
<1>2. BlocksGood(b2)
  BY <1>0, BlocksBack
<1>3. ASSUME NEW q \in lv2 PROVE LiveGood(h, b2, q) /\ SimpleGood(h, ow2, q)
  <2>1. LiveGood(h, b, q) /\ SimpleGood(h, ow, q)
    BY LiveFacts
  <2>2. LiveGood(h, b2, q)
    BY <2>1 DEF LiveGood
  <2>3. h[q].kind # "compound" => In(h, ow2, q) = In(h, ow, q)
    BY DEF In
  <2> QED BY <2>1, <2>2, <2>3 DEF SimpleGood
<1>4. ASSUME NEW x \in ow2 PROVE \E q \in lv2 : Holder(h, ow2, lv2, x, q)
  BY DEF Holder, In
<1>5. Compounds(h, lv2) = Compounds(h, lv) \cap lv2
  BY DEF Compounds
<1>6. \A c, k : IsPart(h, lv2, c, k) <=> IsPart(h, lv, c, k) /\ c \in lv2
  BY <1>5 DEF IsPart
<1>7. ASSUME NEW q \in Given(h, b2, lv2, fr2) PROVE PageGood(h, b2, lv2, q)
  <2>1. PageGood(h, b, lv, q) /\ q \in Page
    BY GivenFacts DEF MemGood
  <2>2. b2[q] = 0
    BY <2>1 DEF PageGood
  <2> QED BY <2>1, <2>2, <1>6 DEF PageGood
<1>8. ASSUME NEW p \in Compounds(h, lv2) PROVE CompoundGood(h, b2, lv2, fr2, p)
  <2>1. p \in Compounds(h, lv) /\ p \in lv2 /\ CompoundGood(h, b, lv, fr, p)
    BY <1>5 DEF MemGood
  <2>2. ASSUME NEW r, IsPart(h, lv, p, r) PROVE PartGood(h, b2, lv2, fr2, p, r)
    <3>1. PartGood(h, b, lv, fr, p, r)
      BY <2>2, PartFacts
    <3>2. b2[r] = b[r]
      BY <2>1, <2>2
    <3>3. \A q : Inside(h, r, q) => (q \in Given(h, b2, lv2, fr2) <=> q \in Given(h, b, lv, fr))
      BY <2>1, <2>2
    <3>4. GivenIn(h, b2, lv2, fr2, r) = GivenIn(h, b, lv, fr, r)
      BY <3>3 DEF GivenIn
    <3> QED BY <3>1, <3>2, <3>4 DEF PartGood
  <2>3. Moved(h, p) => SpaceGood(h, b2, lv2, h[p].space)
    BY <2>1 DEF CompoundGood, SpaceGood
  <2> QED BY <2>1, <2>2, <2>3, CompoundKept
<1>9. SpacesApart(h, lv2)
  <2>1. SpacesApart(h, lv)
    BY DEF MemGood
  <2> QED BY <2>1, <1>5 DEF SpacesApart
<1> QED BY <1>1, <1>2, <1>3, <1>4, <1>5, <1>6, <1>7, <1>8, <1>9 DEF MemGood

(* Pages whose blocks went back lose their headers: nobody sees it.        *)
LEMMA HeadersCleared ==
  ASSUME NEW h, NEW b, NEW lv, NEW ow, NEW fr, MemGood(h, b, lv, ow, fr),
         NEW h2 \in [Page -> HeaderType],
         \A q \in Page : h2[q] = h[q] \/ (b[q] = 0 /\ q \notin lv /\ q \notin fr)
  PROVE  /\ MemGood(h2, b, lv, ow, fr) /\ Compounds(h2, lv) = Compounds(h, lv)
         /\ \A c, k : IsPart(h2, lv, c, k) <=> IsPart(h, lv, c, k)
         /\ \A c \in Compounds(h, lv) : h2[c] = h[c]
         /\ \A q \in Given(h, b, lv, fr) : h2[q] = h[q] /\ h2[h[q].base] = h[h[q].base]
<1>0. /\ h \in [Page -> HeaderType] /\ b \in [Page -> 0..NumPages] /\ lv \in SUBSET Page /\ fr \in SUBSET Page
      /\ ow \in SUBSET Pieces /\ \A x \in ow : x.size > 0
      /\ BlocksGood(b) /\ lv \cap fr = {}
  BY MemTyped DEF MemGood
<1>1. PICK T : T = {q \in Page : h2[q] # h[q]}
  OBVIOUS
<1>2. \A q \in T : b[q] = 0 /\ q \notin lv /\ q \notin fr
  BY <1>1
<1>3. Same(T, h, b, lv, fr, h2, b, lv, fr)
  BY <1>1 DEF Same
<1>4. \A q \in lv : q \in Page /\ h2[q] = h[q]
  BY <1>0
<1>5. Given(h2, b, lv, fr) = Given(h, b, lv, fr)
  BY <1>4 DEF Given
<1>6. Compounds(h2, lv) = Compounds(h, lv) /\ \A c \in Compounds(h, lv) : h2[c] = h[c]
  BY <1>4 DEF Compounds
<1>7. \A c, k : IsPart(h2, lv, c, k) <=> IsPart(h, lv, c, k)
  <2>1. ASSUME NEW c \in Compounds(h, lv) PROVE Parts(h2, c) = Parts(h, c)
    BY <1>6 DEF Parts
  <2> QED BY <2>1, <1>6 DEF IsPart
<1>8. \A r \in Page : b[r] > 0 => r \notin T /\ h2[r] = h[r]
  BY <1>1, <1>2
<1>9. ASSUME NEW c \in Compounds(h, lv) PROVE CompoundGood(h2, b, lv, fr, c)
  <2>1. ASSUME NEW r, IsPart(h, lv, c, r) PROVE r \notin T
    <3>1. r \in Page /\ b[r] > 0
      BY <2>1, PartFacts
    <3> QED BY <3>1, <1>8
  <2>2. \A r : IsPart(h, lv, c, r) =>
          /\ r \notin T
          /\ \A q \in T : Inside(h, r, q) => (q \in Given(h2, b, lv, fr) <=> q \in Given(h, b, lv, fr))
    BY <2>1, <1>5
  <2>3. Moved(h, c) => h[c].space \notin T
    BY <1>8 DEF MemGood, CompoundGood, SpaceGood
  <2>4. lv \subseteq Page /\ fr \subseteq Page
    BY <1>0
  <2> QED BY ONLY <2>2, <2>3, <2>4, <1>3, <1>9, CompoundClear, MemGood(h, b, lv, ow, fr)
<1>10. SpacesApart(h2, lv)
  BY <1>6 DEF MemGood, SpacesApart, Moved
<1>11. ASSUME NEW q \in lv PROVE LiveGood(h2, b, q) /\ SimpleGood(h2, ow, q) /\ EndOf(h2, q) = EndOf(h, q)
  BY <1>4, SimpleStays
<1>12. ASSUME NEW x \in ow PROVE \E q \in lv : Holder(h2, ow, lv, x, q)
  <2>1. PICK q \in lv : Holder(h, ow, lv, x, q)
    BY DEF MemGood
  <2> QED BY <2>1, <1>4, <1>11 DEF Holder, In
<1>13. ASSUME NEW q \in Given(h, b, lv, fr)
       PROVE  PageGood(h2, b, lv, q) /\ h2[q] = h[q] /\ h2[h[q].base] = h[h[q].base]
  <2>1. PICK r \in Page : r = h[q].base /\ IsPart(h, lv, h[r].base, r) /\ q \in Page
    BY GivenFacts
  <2>2. h[r].base \in lv /\ b[r] > 0
    BY <2>1, PartFacts
  <2>3. h2[q] = h[q] /\ h2[r] = h[r] /\ h2[h[r].base] = h[h[r].base]
    <3>1. q \in lv \/ q \in fr
      BY DEF Given
    <3> QED BY <3>1, <2>1, <2>2, <1>2, <1>1, <1>4, <1>8
  <2> QED BY <2>1, <2>2, <2>3, PageStays
<1>14. MemType(h2, b, lv, ow, fr)
  BY <1>0 DEF MemType
<1>15. MemGood(h2, b, lv, ow, fr)
  BY <1>0, <1>5, <1>6, <1>9, <1>10, <1>11, <1>12, <1>13, <1>14 DEF MemGood
<1> QED BY <1>6, <1>7, <1>13, <1>15

(* Each page is in one heap. *)
LEMMA GivenHeap ==
  ASSUME NEW h, NEW b, NEW lv, NEW ow, NEW fr, MemGood(h, b, lv, ow, fr), NEW q \in Given(h, b, lv, fr)
  PROVE  h[h[q].base].base \in Compounds(h, lv) /\ h[h[q].base].base \in lv /\ h[h[h[q].base].base].kind = "compound"
<1>1. IsPart(h, lv, h[h[q].base].base, h[q].base)
  BY GivenFacts
<1> QED BY <1>1, PartFacts

(* The pieces of a heap that goes are no other heap's.                     *)
LEMMA OthersKeep ==
  ASSUME NEW h, NEW b, NEW lv, NEW ow, NEW fr, MemGood(h, b, lv, ow, fr),
         NEW p \in lv, h[p].kind # "compound", NEW ow2, ow2 = ow \ In(h, ow, p)
  PROVE  /\ ow2 \subseteq ow
         /\ \A q \in lv \ {p} : h[q].kind # "compound" => \A x \in In(h, ow, q) : x \in ow2
         /\ \A x \in ow2 : \E q \in lv \ {p} : Holder(h, ow, lv, x, q)
<1>1. ASSUME NEW q \in lv \ {p}, h[q].kind # "compound", NEW x \in In(h, ow, q) PROVE x \in ow2
  <2>1. x \notin In(h, ow, p)
    BY <1>1, OneHolder
  <2> QED BY <2>1, <1>1 DEF In
<1>2. ASSUME NEW x \in ow2 PROVE \E q \in lv \ {p} : Holder(h, ow, lv, x, q)
  <2>1. PICK q \in lv : Holder(h, ow, lv, x, q)
    BY DEF MemGood
  <2>2. q # p
    BY <2>1 DEF Holder
  <2> QED BY <2>1, <2>2
<1> QED BY <1>1, <1>2

(* A program gives a page up, to free it.                                  *)
LEMMA PageLet ==
  ASSUME NEW h, NEW b, NEW lv, NEW ow, NEW fr, MemGood(h, b, lv, ow, fr), NEW q \in lv, b[q] = 0
  PROVE  /\ MemGood(h, b, lv \ {q}, ow \ In(h, ow, q), fr \cup {q}) /\ q \notin fr
         /\ Compounds(h, lv \ {q}) = Compounds(h, lv)
         /\ \A c, k : IsPart(h, lv \ {q}, c, k) <=> IsPart(h, lv, c, k)
<1>0. /\ h \in [Page -> HeaderType] /\ lv \in SUBSET Page /\ fr \in SUBSET Page /\ lv \cap fr = {}
      /\ b \in [Page -> 0..NumPages] /\ q \in Page
  BY MemTyped DEF MemGood
<1>1. h[q].kind \in {"heap", "queue"}
  BY LiveFacts
<1>2. PICK lv2 : lv2 = lv \ {q}
  OBVIOUS
<1>3. PICK fr2 : fr2 = fr \cup {q}
  OBVIOUS
<1>4. PICK ow2 : ow2 = ow \ In(h, ow, q)
  OBVIOUS
<1>5. Given(h, b, lv2, fr2) = Given(h, b, lv, fr)
  BY <1>0, <1>1, <1>2, <1>3 DEF Given
<1>6. /\ ow2 \subseteq ow
      /\ \A k \in lv2 : h[k].kind # "compound" => \A x \in In(h, ow, k) : x \in ow2
      /\ \A x \in ow2 : \E k \in lv2 : Holder(h, ow, lv, x, k)
  BY <1>1, <1>2, <1>4, OthersKeep
<1>7. \A k \in Given(h, b, lv, fr) : h[h[k].base].base \in lv2
  BY <1>1, <1>2, GivenHeap
<1>8. LetsGo(h, b, lv, ow, fr, b, lv2, ow2, fr2)
  BY <1>0, <1>2, <1>3, <1>5, <1>6, <1>7 DEF LetsGo
<1>9. /\ MemGood(h, b, lv2, ow2, fr2) /\ Compounds(h, lv2) = Compounds(h, lv) \cap lv2
      /\ \A c, k : IsPart(h, lv2, c, k) <=> IsPart(h, lv, c, k) /\ c \in lv2
  BY <1>8, HeapsGo
<1>10. \A c \in Compounds(h, lv) : c \in lv2
  BY <1>1, <1>2 DEF Compounds
<1>11. \A c, k : IsPart(h, lv, c, k) => c \in lv2
  BY <1>10 DEF IsPart
<1>12. Compounds(h, lv2) = Compounds(h, lv)
  BY <1>9, <1>10
<1> QED BY <1>0, <1>2, <1>3, <1>4, <1>9, <1>11, <1>12

(* A simple heap, stack or space is destroyed.                             *)
LEMMA GoneSimple ==
  ASSUME NEW h, NEW b, NEW lv, NEW ow, NEW fr, MemGood(h, b, lv, ow, fr),
         NEW p \in lv, b[p] > 0, h[p].kind # "compound",
         NEW b2, b2 = [b EXCEPT ![p] = 0]
  PROVE  /\ MemGood(h, b2, lv \ {p}, ow \ In(h, ow, p), fr)
         /\ Compounds(h, lv \ {p}) = Compounds(h, lv)
         /\ \A c, k : IsPart(h, lv \ {p}, c, k) <=> IsPart(h, lv, c, k)
<1>0. /\ h \in [Page -> HeaderType] /\ lv \in SUBSET Page /\ fr \in SUBSET Page /\ lv \cap fr = {}
      /\ b \in [Page -> 0..NumPages] /\ p \in Page
  BY MemTyped DEF MemGood
<1>1. /\ b2 \in [Page -> 0..NumPages] /\ b2[p] = 0 /\ \A q \in Page : q # p => b2[q] = b[q]
  BY <1>0, PageFacts
<1>2. PICK lv2 : lv2 = lv \ {p}
  OBVIOUS
<1>4. PICK ow2 : ow2 = ow \ In(h, ow, p)
  OBVIOUS
<1>5. Given(h, b2, lv2, fr) = Given(h, b, lv, fr)
  <2>1. \A q \in lv : q # p => b2[q] = b[q]
    BY <1>0, <1>1
  <2> QED BY <2>1, <1>2 DEF Given
<1>6. /\ ow2 \subseteq ow
      /\ \A k \in lv2 : h[k].kind # "compound" => \A x \in In(h, ow, k) : x \in ow2
      /\ \A x \in ow2 : \E k \in lv2 : Holder(h, ow, lv, x, k)
  BY <1>2, <1>4, OthersKeep
<1>7. \A k \in Given(h, b, lv, fr) : h[h[k].base].base \in lv2
  BY <1>2, GivenHeap
<1>8. \A c, r : IsPart(h, lv, c, r) => b2[r] = b[r]
  <2>1. ASSUME NEW c, NEW r, IsPart(h, lv, c, r) PROVE r # p /\ r \in Page
    BY <2>1, PartFacts
  <2> QED BY <2>1, <1>1
<1>9. ASSUME NEW c \in Compounds(h, lv), Moved(h, c) PROVE b2[h[c].space] = b[h[c].space]
  <2>1. SpaceGood(h, b, lv, h[c].space)
    BY <1>9 DEF MemGood, CompoundGood
  <2> QED BY <2>1, <1>1 DEF SpaceGood
<1>10. LetsGo(h, b, lv, ow, fr, b2, lv2, ow2, fr)
  <2>1. \A q \in lv2 : b2[q] = b[q]
    BY <1>0, <1>1, <1>2
  <2>2. lv2 \subseteq lv /\ fr \subseteq Page /\ lv2 \cap fr = {} /\ \A q \in Page : b2[q] = b[q] \/ b2[q] = 0
    BY <1>0, <1>1, <1>2
  <2> QED BY ONLY <2>1, <2>2, <1>1, <1>5, <1>6, <1>7, <1>8, <1>9 DEF LetsGo
<1>11. /\ MemGood(h, b2, lv2, ow2, fr) /\ Compounds(h, lv2) = Compounds(h, lv) \cap lv2
       /\ \A c, k : IsPart(h, lv2, c, k) <=> IsPart(h, lv, c, k) /\ c \in lv2
  BY <1>10, HeapsGo
<1>12. \A c \in Compounds(h, lv) : c \in lv2
  BY <1>2 DEF Compounds
<1>13. \A c, k : IsPart(h, lv, c, k) => c \in lv2
  BY <1>12 DEF IsPart
<1>14. Compounds(h, lv2) = Compounds(h, lv)
  BY <1>11, <1>12
<1> QED BY <1>2, <1>4, <1>11, <1>13, <1>14

(* A compound heap goes with its parts, the space S of its list and the    *)
(* pages it gave out.                                                      *)
CompoundGoes(h, b, lv, ow, fr, p, S, b2, lv2, ow2) ==
  /\ p \in Compounds(h, lv) /\ \A q \in fr : h[h[q].base].base # p
  /\ S = {} \/ (Moved(h, p) /\ S = {h[p].space})
  /\ b2 \in [Page -> 0..NumPages]
  /\ \A q \in Page : IsPart(h, lv, p, q) \/ q \in S => b2[q] = 0
  /\ \A q \in Page : ~ IsPart(h, lv, p, q) /\ q \notin S => b2[q] = b[q]
  /\ \A q : q \in lv2 <=> q \in lv /\ q # p
                          /\ ~ (h[q].kind \in {"heap", "queue"} /\ b[q] = 0 /\ IsPart(h, lv, p, h[q].base))
  /\ \A x : x \in ow2 <=> x \in ow /\ \A q \in lv : q \notin lv2 /\ h[q].kind # "compound" => x \notin In(h, ow, q)

(* A compound heap is destroyed, with its parts and their pages.           *)
LEMMA GoneCompound ==
  ASSUME NEW h, NEW b, NEW lv, NEW ow, NEW fr, MemGood(h, b, lv, ow, fr),
         NEW p, NEW S, NEW b2, NEW lv2, NEW ow2, CompoundGoes(h, b, lv, ow, fr, p, S, b2, lv2, ow2)
  PROVE  /\ MemGood(h, b2, lv2, ow2, fr) /\ Compounds(h, lv2) = Compounds(h, lv) \ {p}
         /\ \A c, k : IsPart(h, lv2, c, k) <=> IsPart(h, lv, c, k) /\ c # p
<1>0. /\ h \in [Page -> HeaderType] /\ b \in [Page -> 0..NumPages] /\ lv \in SUBSET Page /\ fr \in SUBSET Page
      /\ lv \cap fr = {} /\ \A q \in Page : b[q] \in Nat
  BY MemTyped DEF MemGood
<1>1. p \in lv /\ h[p].kind = "compound" /\ p \in Page
  BY <1>0 DEF CompoundGoes, Compounds
<1>2. \A r : IsPart(h, lv, p, r) => r \in Page /\ h[r].kind = "compound" /\ h[r].base = p /\ b[r] > 0
  <2>1. ASSUME NEW r, IsPart(h, lv, p, r) PROVE r \in Page /\ h[r].kind = "compound" /\ h[r].base = p /\ b[r] > 0
    BY <2>1, PartFacts
  <2> QED BY <2>1
<1>3. \A s \in S : s \in Page /\ h[s].kind = "space" /\ b[s] > 0 /\ s \notin lv /\ Moved(h, p) /\ s = h[p].space
  BY <1>1 DEF CompoundGoes, MemGood, CompoundGood, SpaceGood
<1>4. \A q \in lv : q # p => ~ IsPart(h, lv, p, q)
  BY LivePart
<1>5. \A q \in lv2 : q \in lv /\ b2[q] = b[q]
  BY <1>0, <1>3, <1>4 DEF CompoundGoes
<1>6. ASSUME NEW q \in lv2, h[q].kind # "compound", NEW x \in In(h, ow, q) PROVE x \in ow2
  <2>1. ASSUME NEW k \in lv, k \notin lv2, h[k].kind # "compound", x \in In(h, ow, k) PROVE FALSE
    <3>1. k = q
      BY <1>5, <1>6, <2>1, OneHolder
    <3> QED BY <3>1, <2>1
  <2>2. x \in ow
    BY DEF In
  <2> QED BY <2>1, <2>2 DEF CompoundGoes
<1>7. ASSUME NEW x \in ow2 PROVE \E q \in lv2 : Holder(h, ow, lv, x, q)
  <2>1. x \in ow
    BY DEF CompoundGoes
  <2>2. PICK q \in lv : Holder(h, ow, lv, x, q)
    BY <2>1 DEF MemGood
  <2>3. h[q].kind # "compound" /\ x \in In(h, ow, q)
    BY <2>2 DEF Holder
  <2>4. q \in lv2
    BY <2>3 DEF CompoundGoes
  <2> QED BY <2>2, <2>4
<1>8. \A q \in lv : q \in lv2 <=> q # p /\ ~ (h[q].kind \in {"heap", "queue"} /\ b[q] = 0 /\ IsPart(h, lv, p, h[q].base))
  BY DEF CompoundGoes
<1>9. Given(h, b2, lv2, fr) \subseteq Given(h, b, lv, fr)
  BY <1>5 DEF Given
<1>10. ASSUME NEW q \in Given(h, b2, lv2, fr) PROVE h[h[q].base].base \in lv2
  <2>1. PICK r : r = h[q].base
    OBVIOUS
  <2>2. PICK c : c = h[r].base
    OBVIOUS
  <2>3. q \in Given(h, b, lv, fr)
    BY <1>9
  <2>4. IsPart(h, lv, c, r)
    BY <2>1, <2>2, <2>3, GivenFacts
  <2>5. c \in lv /\ h[c].kind = "compound"
    BY <2>4, PartFacts
  <2>6. c # p
    <3>1. CASE q \in fr
      BY <2>1, <2>2, <3>1 DEF CompoundGoes
    <3>2. CASE q \notin fr
      <4>1. q \in lv2 /\ q \in lv /\ h[q].kind \in {"heap", "queue"} /\ b2[q] = 0
        BY <3>2, <1>5 DEF Given
      <4>2. ~ IsPart(h, lv, p, h[q].base)
        BY <4>1, <1>5, <1>8
      <4> QED BY <4>2, <2>1, <2>4
    <3> QED BY <3>1, <3>2
  <2>7. c \in lv2
    BY <2>5, <2>6, <1>8
  <2> QED BY <2>1, <2>2, <2>7
<1>11. ASSUME NEW c \in Compounds(h, lv) \cap lv2
       PROVE  /\ \A r : IsPart(h, lv, c, r) =>
                   /\ b2[r] = b[r]
                   /\ \A q \in Given(h, b, lv, fr) : Inside(h, r, q) => q \in Given(h, b2, lv2, fr)
              /\ Moved(h, c) => b2[h[c].space] = b[h[c].space]
  <2>1. c # p
    BY <1>8 DEF CompoundGoes
  <2>2. ASSUME NEW r, IsPart(h, lv, c, r) PROVE b2[r] = b[r]
    <3>1. r \in Page /\ h[r].kind = "compound" /\ h[r].base = c
      BY <2>2, PartFacts
    <3>2. ~ IsPart(h, lv, p, r) /\ r \notin S
      BY <3>1, <1>2, <1>3, <2>1
    <3> QED BY <3>1, <3>2 DEF CompoundGoes
  <2>3. ASSUME NEW r, IsPart(h, lv, c, r), NEW q \in Given(h, b, lv, fr), Inside(h, r, q)
        PROVE  q \in Given(h, b2, lv2, fr)
    <3>1. q \in Nat /\ q \in Page /\ r \in Nat /\ h[r].kind = "compound" /\ h[r].base = c /\ h[q].kind \in {"heap", "queue"} /\ b[q] = 0
      BY <2>3, GivenFacts, PartFacts, PageIs
    <3>2. r <= q /\ q < r + h[r].size
      BY <2>3, <3>1 DEF Inside
    <3>3. h[q].base = r
      BY <2>3, <3>2, GivenBase
    <3>4. CASE q \in fr
      BY <3>4 DEF Given
    <3>5. CASE q \notin fr
      <4>1. q \in lv
        BY <3>5 DEF Given
      <4>2. q # p /\ ~ IsPart(h, lv, p, h[q].base)
        BY <1>2, <1>1, <2>1, <3>1, <3>3
      <4>3. q \in lv2 /\ b2[q] = 0
        BY <4>1, <4>2, <1>8, <1>5, <3>1
      <4> QED BY <4>3, <3>1 DEF Given
    <3> QED BY <3>4, <3>5
  <2>4. ASSUME Moved(h, c) PROVE b2[h[c].space] = b[h[c].space]
    <3>1. h[c].space \in Page /\ h[h[c].space].kind = "space"
      BY <2>4 DEF MemGood, CompoundGood, SpaceGood
    <3>2. ~ IsPart(h, lv, p, h[c].space)
      BY <3>1, <1>2
    <3>3. h[c].space \notin S
      <4>1. ASSUME h[c].space \in S PROVE FALSE
        <5>1. Moved(h, p) /\ h[p].space = h[c].space /\ p \in Compounds(h, lv) /\ c \in Compounds(h, lv)
          BY <4>1, <1>3 DEF CompoundGoes
        <5> QED BY <5>1, <2>1, <2>4 DEF MemGood, SpacesApart
      <4> QED BY <4>1
    <3> QED BY <3>1, <3>2, <3>3 DEF CompoundGoes
  <2> QED BY <2>2, <2>3, <2>4
<1>12. LetsGo(h, b, lv, ow, fr, b2, lv2, ow2, fr)
  <2>1. b2 \in [Page -> 0..NumPages] /\ \A q \in Page : b2[q] = b[q] \/ b2[q] = 0
    BY DEF CompoundGoes
  <2>2. lv2 \subseteq lv /\ ow2 \subseteq ow /\ lv2 \cap fr = {} /\ fr \subseteq Page
    BY <1>0, <1>5 DEF CompoundGoes
  <2> QED BY ONLY <2>1, <2>2, <1>5, <1>6, <1>7, <1>9, <1>10, <1>11 DEF LetsGo
<1>13. /\ MemGood(h, b2, lv2, ow2, fr) /\ Compounds(h, lv2) = Compounds(h, lv) \cap lv2
       /\ \A c, k : IsPart(h, lv2, c, k) <=> IsPart(h, lv, c, k) /\ c \in lv2
  BY ONLY <1>12, HeapsGo, MemGood(h, b, lv, ow, fr)
<1>14. \A c \in Compounds(h, lv) : c \in lv2 <=> c # p
  BY <1>8 DEF Compounds
<1>15. \A c, k : IsPart(h, lv, c, k) => c \in Compounds(h, lv)
  BY DEF IsPart
<1> QED BY <1>13, <1>14, <1>15 DEF CompoundGoes

(* A block that is no heap, no part and no space goes back.                *)
Returns(h, b, lv, q, h2, b2) ==
  /\ q \in Page /\ b[q] > 0 /\ q \notin lv /\ h[q].kind \notin {"compound", "space"}
  /\ b2 = [b EXCEPT ![q] = 0] /\ h2 = [h EXCEPT ![q] = NoHeader]

(* It was in nobody's heap: the memory stays good.                         *)
LEMMA BlockReturned ==
  ASSUME NEW h, NEW b, NEW lv, NEW ow, NEW fr, MemGood(h, b, lv, ow, fr),
         NEW q, NEW h2, NEW b2, Returns(h, b, lv, q, h2, b2)
  PROVE  /\ MemGood(h2, b2, lv, ow, fr) /\ Compounds(h2, lv) = Compounds(h, lv)
         /\ \A c, k : IsPart(h2, lv, c, k) <=> IsPart(h, lv, c, k)
         /\ \A c \in Compounds(h, lv) : h2[c] = h[c]
         /\ \A k \in Given(h, b, lv, fr) : h2[k] = h[k] /\ h2[h[k].base] = h[h[k].base]
<1>00. /\ q \in Page /\ b[q] > 0 /\ q \notin lv /\ h[q].kind \notin {"compound", "space"}
       /\ b2 = [b EXCEPT ![q] = 0] /\ h2 = [h EXCEPT ![q] = NoHeader]
  BY DEF Returns
<1>0. /\ h \in [Page -> HeaderType] /\ lv \in SUBSET Page /\ fr \in SUBSET Page /\ lv \cap fr = {}
      /\ b \in [Page -> 0..NumPages] /\ q \in Page
  BY <1>00, MemTyped DEF MemGood
<1>1. /\ b2 \in [Page -> 0..NumPages] /\ b2[q] = 0 /\ \A k \in Page : k # q => b2[k] = b[k]
  BY <1>00, <1>0, PageFacts
<1>2. \A k \in lv : b2[k] = b[k] /\ k # q
  BY <1>00, <1>0, <1>1
<1>3. Given(h, b2, lv, fr) = Given(h, b, lv, fr)
  BY <1>2 DEF Given
<1>4. \A k \in Given(h, b, lv, fr) : h[h[k].base].base \in lv /\ k # q
  <2>1. ASSUME NEW k \in Given(h, b, lv, fr) PROVE h[h[k].base].base \in lv /\ k # q
    <3>1. b[k] = 0
      BY GivenFacts
    <3> QED BY <3>1, <1>00, GivenHeap
  <2> QED BY <2>1
<1>5. \A c, r : IsPart(h, lv, c, r) => b2[r] = b[r] /\ r # q
  <2>1. ASSUME NEW c, NEW r, IsPart(h, lv, c, r) PROVE r # q /\ r \in Page
    BY <2>1, <1>00, PartFacts
  <2> QED BY <2>1, <1>1
<1>6. ASSUME NEW c \in Compounds(h, lv), Moved(h, c) PROVE b2[h[c].space] = b[h[c].space]
  <2>1. SpaceGood(h, b, lv, h[c].space)
    BY <1>6 DEF MemGood, CompoundGood
  <2> QED BY <2>1, <1>00, <1>1 DEF SpaceGood
<1>7. \A x \in ow : \E k \in lv : Holder(h, ow, lv, x, k)
  BY DEF MemGood
<1>8. \A k : \A x \in In(h, ow, k) : x \in ow
  BY DEF In
<1>9. LetsGo(h, b, lv, ow, fr, b2, lv, ow, fr)
  <2>1. lv \subseteq lv /\ fr \subseteq Page /\ ow \subseteq ow /\ lv \cap fr = {} /\ \A k \in Page : b2[k] = b[k] \/ b2[k] = 0
    BY <1>0, <1>1
  <2> QED BY ONLY <2>1, <1>1, <1>2, <1>3, <1>4, <1>5, <1>6, <1>7, <1>8 DEF LetsGo
<1>10. MemGood(h, b2, lv, ow, fr)
  BY <1>9, HeapsGo
<1>11. /\ h2 \in [Page -> HeaderType]
       /\ \A k \in Page : h2[k] = h[k] \/ (b2[k] = 0 /\ k \notin lv /\ k \notin fr)
  <2>1. q \notin fr
    BY <1>4 DEF Given
  <2> QED BY <2>1, <1>00, <1>0, <1>1, NoHeaderTyped
<1> QED BY ONLY <1>3, <1>10, <1>11, HeadersCleared

-----------------------------------------------------------------------------
(* What a step leaves to the calls under way: their heaps, with the parts  *)
(* these have, and where the pages come from that they give back.          *)
HeapKept(h, lv, h2, lv2, c) ==
  /\ c \in Compounds(h2, lv2)
  /\ \A r : IsPart(h, lv, c, r) => IsPart(h2, lv2, c, r)
  /\ h[c].expand # <<>> => h2[c].expand # <<>>
  /\ Len(h[c].expand) <= Len(h2[c].expand)
  /\ \A i \in DOMAIN Parts(h, c) : i \in DOMAIN Parts(h2, c)

HeapOf(h, q) == h[h[q].base].base

Grown(h, lv, fr, h2, lv2) ==
  /\ \A c \in Compounds(h, lv) : HeapKept(h, lv, h2, lv2, c)
  /\ \A q \in fr : HeapOf(h2, q) = HeapOf(h, q)

(* A call's heap whose list stays is kept.                                 *)
LEMMA KeptWhenSame ==
  ASSUME NEW h \in [Page -> HeaderType], NEW lv \in SUBSET Page, NEW h2, NEW lv2, NEW c, c \in Compounds(h, lv), c \in lv2,
         h2[c].kind = h[c].kind, h2[c].expand = h[c].expand
  PROVE  HeapKept(h, lv, h2, lv2, c)
<1>1. /\ c \in Compounds(h2, lv2) /\ Parts(h2, c) = Parts(h, c)
      /\ \A r : IsPart(h2, lv2, c, r) <=> IsPart(h, lv, c, r)
  BY PartsSame
<1>2. c \in Page
  BY DEF Compounds
<1>3. h[c].expand \in Seq(Page)
  BY <1>2, HeaderIs
<1>4. Len(h[c].expand) \in Nat
  BY <1>3
<1> QED BY <1>1, <1>4 DEF HeapKept

(* Heaps that only grow, twice, only grow.                                 *)
LEMMA GrownTwice ==
  ASSUME NEW h, NEW lv, NEW fr, NEW h2, NEW lv2, NEW h3, NEW lv3,
         h \in [Page -> HeaderType], h2 \in [Page -> HeaderType], h3 \in [Page -> HeaderType], lv \in SUBSET Page,
         Grown(h, lv, fr, h2, lv2), Grown(h2, lv2, fr, h3, lv3)
  PROVE  Grown(h, lv, fr, h3, lv3)
<1>1. ASSUME NEW c \in Compounds(h, lv) PROVE HeapKept(h, lv, h3, lv3, c)
  <2>1. HeapKept(h, lv, h2, lv2, c)
    BY DEF Grown
  <2>2. HeapKept(h2, lv2, h3, lv3, c)
    BY <2>1 DEF Grown, HeapKept
  <2>3. c \in Page
    BY DEF Compounds
  <2>4. h[c].expand \in Seq(Page) /\ h2[c].expand \in Seq(Page) /\ h3[c].expand \in Seq(Page)
    BY <2>3, HeaderIs
  <2>5. Len(h[c].expand) \in Nat /\ Len(h2[c].expand) \in Nat /\ Len(h3[c].expand) \in Nat
    BY <2>4
  <2> QED BY <2>1, <2>2, <2>5 DEF HeapKept
<1> QED BY <1>1 DEF Grown

(* What the programs of a behaviour do. *)
LEMMA UseFacts ==
  ASSUME StateType
  PROVE  /\ use \in Uses /\ use.threads \subseteq Thread /\ use.ops \subseteq Op
         /\ use.pages \subseteq 1..NumPages /\ use.sizes \subseteq Nat /\ use.calls \in Nat
BY HeapsAssumption DEF StateType

(* A thread at rest has a call, too.                                       *)
LEMMA NoCallTyped == NoCall \in CallType
BY PageIs DEF NoCall, CallType

(* The other calls are good as long as their heaps are kept.               *)
LEMMA CallsKept ==
  ASSUME MemInv, use' = use, NEW t,
         \A u \in Thread : u # t => pc'[u] = pc[u] /\ call'[u] = call[u],
         \A u \in Thread : u # t /\ ~ AtRest(u) => HeapKept(hdr, live, hdr', live', call[u].heap),
         \A u \in Thread : u # t /\ Frees(u) => HeapOf(hdr', call[u].page) = HeapOf(hdr, call[u].page),
         hdr' \in [Page -> HeaderType]
  PROVE  \A u \in Thread : u # t => CallGood(u)'
<1> SUFFICES ASSUME NEW u \in Thread, u # t PROVE CallGood(u)'
  OBVIOUS
<1>1. pc'[u] = pc[u] /\ call'[u] = call[u]
  OBVIOUS
<1>2. CASE AtRest(u)
  BY <1>1, <1>2 DEF CallGood, AtRest
<1>3. CASE ~ AtRest(u)
  <2>1. CallGood(u) /\ call[u] \in CallType /\ hdr \in [Page -> HeaderType]
    BY DEF MemInv, StateType, MemGood, MemType
  <2>2. PICK c : c = call[u]
    OBVIOUS
  <2>3. HeapKept(hdr, live, hdr', live', c.heap) /\ c.heap \in Heaps
    BY <1>3, <2>1, <2>2 DEF CallGood
  <2>4. c.heap \in Heaps'
    BY <2>3 DEF HeapKept, Heaps, Compounds
  <2>5. Frees(u) => HeapOf(hdr', c.page) = HeapOf(hdr, c.page)
    BY <2>2
  <2>6. c.heap \in Page
    BY <2>3 DEF Heaps, MemInv, MemGood, MemType
  <2>7. hdr[c.heap].expand \in Seq(Page) /\ hdr'[c.heap].expand \in Seq(Page)
    BY <2>1, <2>6, HeaderIs
  <2>8. Len(hdr[c.heap].expand) \in Nat /\ Len(hdr'[c.heap].expand) \in Nat /\ c.i \in Nat
    BY <2>7, <2>1, <2>2 DEF CallType
  <2>9. Parts(hdr, c.heap) \in Seq(Page) /\ Parts(hdr', c.heap) \in Seq(Page)
    BY <2>6, <2>7 DEF Parts
  <2>10. /\ Len(Parts(hdr, c.heap)) \in Nat /\ Len(Parts(hdr', c.heap)) \in Nat
         /\ DOMAIN Parts(hdr, c.heap) = 1..Len(Parts(hdr, c.heap))
         /\ DOMAIN Parts(hdr', c.heap) = 1..Len(Parts(hdr', c.heap))
    BY <2>9
  <2>11. Len(Parts(hdr, c.heap)) <= Len(Parts(hdr', c.heap))
    BY <2>3, <2>10 DEF HeapKept
  <2>12. IsExpanding(c.heap) => IsExpanding(c.heap)'
    BY <2>3 DEF HeapKept, IsExpanding
  <2>13. \A r : IsPart(hdr, live, c.heap, r) => IsPart(hdr', live', c.heap, r)
    BY <2>3 DEF HeapKept
  <2>14. Len(hdr[c.heap].expand) <= Len(hdr'[c.heap].expand)
    BY <2>3 DEF HeapKept
  <2>15. ~ AtRest(u)' /\ u \in use'.threads
    BY <1>1, <1>3, <2>1 DEF AtRest, CallGood
  <2>16. /\ c.near # NoPage => IsPart(hdr', live', c.heap, c.near) /\ "nearalloc" \in use'.ops
         /\ pc'[u] = "near" => c.near # NoPage
         /\ pc'[u] \in {"sum", "freefirst", "freescan"} => c.near = NoPage
         /\ pc'[u] \in {"last", "pick"} \cup Looking =>
              IsExpanding(c.heap)' /\ IsPart(hdr', live', c.heap, c.last)
         /\ pc'[u] = "last" => c.last # c.heap
    BY <1>1, <1>3, <2>1, <2>2, <2>12, <2>13 DEF CallGood
  <2>17. pc'[u] \in Looking => c.i >= 1 /\ c.i <= Len(hdr'[c.heap].expand)
    BY <1>1, <1>3, <2>1, <2>2, <2>8, <2>14 DEF CallGood
  <2>18. pc'[u] = "sum" => c.i >= 2 /\ c.i <= Len(Parts(hdr', c.heap)) + 1
    BY <1>1, <1>3, <2>1, <2>2, <2>8, <2>10, <2>11 DEF CallGood
  <2>19. pc'[u] = "freescan" => c.i \in DOMAIN Parts(hdr', c.heap)
    BY <1>1, <1>3, <2>1, <2>2, <2>3 DEF CallGood, HeapKept
  <2>20. Frees(u)' => /\ "free" \in use'.ops /\ c.page \in Page /\ c.i >= 1
                      /\ hdr'[hdr'[c.page].base].base = c.heap
                      /\ pc'[u] = "freefirst" => c.i = 1
    BY <1>1, <1>3, <2>1, <2>2, <2>5 DEF CallGood, Frees, HeapOf
  <2> QED BY <1>1, <2>2, <2>4, <2>15, <2>16, <2>17, <2>18, <2>19, <2>20 DEF CallGood
<1> QED BY <1>2, <1>3

(* A step of thread t that leaves to the others what they go by. *)
Moves(t, place, c) ==
  /\ t \in Thread /\ use' = use
  /\ pc' = [pc EXCEPT ![t] = place] /\ call' = [call EXCEPT ![t] = c]
  /\ place \in Place /\ c \in CallType /\ (place = "idle" => c = NoCall)

FreeingPlaces == {"freefirst", "freescan"}

(* A thread goes to a place with a call.                                   *)
LEMMA MovesTo ==
  ASSUME StateType, NEW t, NEW place, NEW c, Moves(t, place, c)
  PROVE  /\ StateType' /\ use' = use /\ pc'[t] = place /\ call'[t] = c
         /\ \A u \in Thread : u # t => pc'[u] = pc[u] /\ call'[u] = call[u]
BY DEF StateType, Moves, AtRest

(* The pages that frees under way have.                                    *)
LEMMA FreedMembers ==
  \A q : q \in Freed <=> \E u \in Thread : Frees(u) /\ q = call[u].page
BY DEF Freed, Frees

(* The pages that are being given back stay the same. *)
LEMMA FreedSame ==
  ASSUME MemInv, NEW t, NEW place, NEW c, Moves(t, place, c),
         pc[t] \in FreeingPlaces <=> place \in FreeingPlaces,
         place \in FreeingPlaces => c.page = call[t].page
  PROVE  Freed' = Freed /\ FreesApart'
<1>1. /\ pc'[t] = place /\ call'[t] = c
      /\ \A u \in Thread : u # t => pc'[u] = pc[u] /\ call'[u] = call[u]
  BY MovesTo DEF MemInv
<1>2. \A u \in Thread : Frees(u)' <=> Frees(u)
  BY <1>1 DEF Frees, FreeingPlaces
<1>3. \A u \in Thread : Frees(u) => call'[u].page = call[u].page
  BY <1>1 DEF Frees, FreeingPlaces
<1>4. Freed' = Freed
  BY <1>2, <1>3 DEF Freed, Frees
<1>5. FreesApart'
  BY <1>2, <1>3 DEF MemInv, FreesApart
<1> QED BY <1>4, <1>5

(* A step of one call, to be shown for that call and the memory.           *)
LEMMA CallStep ==
  ASSUME MemInv, NEW t, NEW place, NEW c, Moves(t, place, c),
         MemGood(hdr', blocks', live', owned', Freed'), FreesApart',
         \A u \in Thread : u # t /\ ~ AtRest(u) => HeapKept(hdr, live, hdr', live', call[u].heap),
         \A u \in Thread : u # t /\ Frees(u) => HeapOf(hdr', call[u].page) = HeapOf(hdr, call[u].page),
         CallGood(t)', NearInv', ExpandInv'
  PROVE  MemInv'
<1>1. /\ StateType' /\ use' = use
      /\ \A u \in Thread : u # t => pc'[u] = pc[u] /\ call'[u] = call[u]
  BY MovesTo DEF MemInv
<1>2. hdr' \in [Page -> HeaderType]
  BY MemTyped
<1>3. \A u \in Thread : u # t => CallGood(u)'
  BY ONLY <1>1, <1>2, CallsKept, MemInv,
          \A u \in Thread : u # t /\ ~ AtRest(u) => HeapKept(hdr, live, hdr', live', call[u].heap),
          \A u \in Thread : u # t /\ Frees(u) => HeapOf(hdr', call[u].page) = HeapOf(hdr, call[u].page)
<1>4. \A u \in Thread : CallGood(u)'
  BY <1>3
<1> QED BY <1>1, <1>4 DEF MemInv

(* Where heaps only grow, the heaps of calls are kept.                     *)
LEMMA GrownKeeps ==
  ASSUME MemInv, NEW h2, NEW lv2, Grown(hdr, live, Freed, h2, lv2)
  PROVE  \A u \in Thread : /\ ~ AtRest(u) => HeapKept(hdr, live, h2, lv2, call[u].heap)
                           /\ Frees(u) => HeapOf(h2, call[u].page) = HeapOf(hdr, call[u].page)
<1> SUFFICES ASSUME NEW u \in Thread
             PROVE  /\ ~ AtRest(u) => HeapKept(hdr, live, h2, lv2, call[u].heap)
                    /\ Frees(u) => HeapOf(h2, call[u].page) = HeapOf(hdr, call[u].page)
  OBVIOUS
<1>1. ~ AtRest(u) => call[u].heap \in Compounds(hdr, live)
  BY DEF MemInv, CallGood, Heaps, Compounds
<1>2. Frees(u) => call[u].page \in Freed
  BY FreedMembers
<1> QED BY <1>1, <1>2 DEF Grown

(* A step of a call that needs no other. *)
LEMMA RestStep ==
  ASSUME MemInv, use' = use, pc' = pc, call' = call,
         MemGood(hdr', blocks', live', owned', Freed),
         \A u \in Thread : ~ AtRest(u) => HeapKept(hdr, live, hdr', live', call[u].heap),
         \A u \in Thread : Frees(u) => HeapOf(hdr', call[u].page) = HeapOf(hdr, call[u].page),
         NearInv', ExpandInv'
  PROVE  MemInv'
<1>1. Freed' = Freed
  BY DEF Freed
<1>2. FreesApart' /\ StateType'
  BY DEF MemInv, FreesApart, Frees, StateType, AtRest
<1>3. hdr' \in [Page -> HeaderType]
  BY MemTyped
<1>4. \A u \in Thread : CallGood(u)'
  <2>1. \A u \in Thread : u # NoThread
    BY HeapsAssumption
  <2>2. \A u \in Thread : u # NoThread => CallGood(u)'
    BY ONLY <1>3, CallsKept, MemInv, use' = use, pc' = pc, call' = call,
          \A u \in Thread : ~ AtRest(u) => HeapKept(hdr, live, hdr', live', call[u].heap),
          \A u \in Thread : Frees(u) => HeapOf(hdr', call[u].page) = HeapOf(hdr, call[u].page)
  <2> QED BY <2>1, <2>2
<1> QED BY <1>1, <1>2, <1>4 DEF MemInv

(* Where programs make near calls of simple heaps there are no compound ones. *)
LEMMA NoCompound ==
  ASSUME MemInv, "near" \in use.ops
  PROVE  /\ Compounds(hdr, live) = {} /\ Heaps = {} /\ Pages = {}
         /\ Given(hdr, blocks, live, Freed) = {}
         /\ \A u \in Thread : AtRest(u) /\ call[u] = NoCall
<1>0. MemGood(hdr, blocks, live, owned, Freed) /\ hdr \in [Page -> HeaderType] /\ live \in SUBSET Page
  BY DEF MemInv, MemGood, MemType
<1>1. \A p \in Page : hdr[p].kind # "compound"
  BY DEF MemInv, NearInv
<1>2. Compounds(hdr, live) = {} /\ Heaps = {}
  BY <1>0, <1>1 DEF Compounds, Heaps
<1>3. Given(hdr, blocks, live, Freed) = {}
  <2>1. ASSUME NEW q \in Given(hdr, blocks, live, Freed) PROVE FALSE
    <3>1. hdr[hdr[q].base].base \in Compounds(hdr, live)
      BY <1>0, GivenHeap
    <3> QED BY <3>1, <1>2
  <2> QED BY <2>1
<1>4. Pages = {}
  BY <1>3 DEF Pages, Given
<1>5. \A u \in Thread : AtRest(u)
  BY <1>2 DEF MemInv, CallGood
<1> QED BY <1>2, <1>3, <1>4, <1>5 DEF MemInv, StateType

(* An address of a page is the page's, and its header is found. *)
LEMMA FindPage ==
  ASSUME NEW q \in Page, hdr[q].kind # "none"
  PROVE  FindHeader(Address(q)) = q
<1>1. q \in Nat /\ PageOf(Address(q)) = q
  BY PageIs, PageOfAddress
<1>2. \A n \in ProbedSizes : n \in Nat /\ n > 0
  BY HeapsAssumption
<1>3. \A n \in ProbedSizes : (q \div n) * n \in Int /\ (q \div n) * n <= q
  <2>1. ASSUME NEW n \in ProbedSizes PROVE (q \div n) * n \in Int /\ (q \div n) * n <= q
    <3>1. n \in Nat /\ n > 0
      BY <1>2
    <3>2. PICK k : k = q \div n
      OBVIOUS
    <3>3. k \in Int /\ n * k <= q
      BY <1>1, <3>1, <3>2
    <3>4. k * n = n * k
      BY <3>1, <3>3
    <3> QED BY <3>1, <3>2, <3>3, <3>4
  <2> QED BY <2>1
<1>4. (q \div 1) * 1 = q /\ 1 \in ProbedSizes
  BY <1>1, HeapsAssumption
<1>5. PICK found : found = {p \in Probes(Address(q)) : hdr[p].kind # "none"}
  OBVIOUS
<1>6. q \in found
  BY <1>1, <1>4, <1>5 DEF Probes
<1>7. \A p \in found : p \in Int /\ p <= q
  BY <1>1, <1>3, <1>5 DEF Probes
<1>8. FindHeader(Address(q)) = CHOOSE p \in found : \A r \in found : r <= p
  BY <1>5, <1>6 DEF FindHeader
<1>9. \A p \in found : (\A r \in found : r <= p) => p = q
  BY <1>6, <1>7, <1>1
<1>10. \A r \in found : r <= q
  BY <1>7
<1> QED BY <1>6, <1>8, <1>9, <1>10

-----------------------------------------------------------------------------
(* Pieces of simple heaps and stacks. *)
LEMMA SameLinks ==
  ASSUME NEW h, NEW b, NEW lv, NEW ow, NEW fr, MemGood(h, b, lv, ow, fr),
         NEW h2, NEW lv2, lv \subseteq lv2,
         \A k \in Page : h2[k].kind = h[k].kind /\ h2[k].base = h[k].base /\ h2[k].expand = h[k].expand
  PROVE  Grown(h, lv, fr, h2, lv2)
<1>0. h \in [Page -> HeaderType] /\ lv \in SUBSET Page /\ fr \in SUBSET Page
  BY MemTyped
<1>1. ASSUME NEW c \in Compounds(h, lv) PROVE HeapKept(h, lv, h2, lv2, c)
  <2>1. c \in Page /\ c \in lv2
    BY <1>0 DEF Compounds
  <2> QED BY <1>0, <2>1, KeptWhenSame
<1>2. ASSUME NEW q \in fr PROVE HeapOf(h2, q) = HeapOf(h, q)
  <2>1. q \in Given(h, b, lv, fr)
    BY DEF Given
  <2>2. q \in Page /\ h[q].base \in Page
    BY <2>1, GivenFacts
  <2> QED BY <2>2 DEF HeapOf
<1> QED BY <1>1, <1>2 DEF Grown

(* A step that touches free lists and tops of stacks only.                 *)
LEMMA PieceStep ==
  ASSUME MemInv, use' = use, pc' = pc, call' = call, blocks' = blocks, live' = live,
         MemGood(hdr', blocks, live, owned', Freed),
         \A k \in Page : /\ hdr'[k].kind = hdr[k].kind /\ hdr'[k].size = hdr[k].size
                         /\ hdr'[k].base = hdr[k].base /\ hdr'[k].expand = hdr[k].expand
  PROVE  MemInv'
<1>1. Grown(hdr, live, Freed, hdr', live')
  BY SameLinks DEF MemInv
<1>2. NearInv' /\ ExpandInv'
  BY DEF MemInv, NearInv, ExpandInv
<1>3. MemGood(hdr', blocks', live', owned', Freed)
  OBVIOUS
<1> QED BY <1>1, <1>2, <1>3, GrownKeeps, RestStep

(* A step that touches locks only.                                         *)
LEMMA NothingMoves ==
  ASSUME MemInv, use' = use, pc' = pc, call' = call, blocks' = blocks, live' = live, hdr' = hdr, owned' = owned
  PROVE  MemInv'
<1>1. MemGood(hdr', blocks, live, owned', Freed)
  BY DEF MemInv
<1> QED BY <1>1, PieceStep

(* The pieces in a heap, as the model and the layout have them.            *)
LEMMA PiecesInIs ==
  ASSUME NEW p
  PROVE  PiecesIn(p) = In(hdr, owned, p) /\ HeapEnd(p) = EndOf(hdr, p)
BY DEF PiecesIn, HeapEnd, In, EndOf

(* What is asked for is rounded to whole nodes, and is not nothing.        *)
LEMMA RoundPositive ==
  ASSUME NEW n \in Nat, n # 0
  PROVE  Round(n) \in Nat /\ Round(n) > 0 /\ Round(n) % NodeAlign = 0
BY RoundGives

(* The list of a heap, or the top of a stack, and the pieces change.       *)
LEMMA HeaderMoves ==
  ASSUME MemInv, use' = use, pc' = pc, call' = call, blocks' = blocks, live' = live,
         NEW p \in live, hdr[p].kind \in {"heap", "stack"},
         NEW list \in Seq(Pieces), NEW top \in Nat,
         hdr' = [hdr EXCEPT ![p] = [hdr[p] EXCEPT !.list = list, !.next = top]],
         owned' \in SUBSET Pieces, \A x \in owned' : x.size > 0,
         \A x : (x \in owned' <=> x \in owned) \/ (x.at >= Address(p) /\ x.at < EndOf(hdr, p)),
         SimpleGood(hdr', owned', p)
  PROVE  MemInv'
<1>1. PICK v : v = [hdr[p] EXCEPT !.list = list, !.next = top]
  OBVIOUS
<1>2. MemGood(hdr, blocks, live, owned, Freed) /\ p \in Page /\ hdr \in [Page -> HeaderType]
  BY MemTyped DEF MemInv
<1>3. /\ v \in HeaderType /\ v.kind = hdr[p].kind /\ v.size = hdr[p].size /\ v.base = hdr[p].base /\ v.expand = hdr[p].expand
  <2>1. hdr[p] \in HeaderType
    BY <1>2
  <2> QED BY <2>1, <1>1 DEF HeaderType
<1>4. hdr' = [hdr EXCEPT ![p] = v]
  BY <1>1
<1>5. MemGood(hdr', blocks, live, owned', Freed)
  BY ONLY <1>2, <1>3, <1>4, SimpleChanges, p \in live, hdr[p].kind \in {"heap", "stack"},
         owned' \in SUBSET Pieces, \A x \in owned' : x.size > 0,
         \A x : (x \in owned' <=> x \in owned) \/ (x.at >= Address(p) /\ x.at < EndOf(hdr, p)),
         SimpleGood(hdr', owned', p)
<1>6. \A k \in Page : /\ hdr'[k].kind = hdr[k].kind /\ hdr'[k].size = hdr[k].size
                      /\ hdr'[k].base = hdr[k].base /\ hdr'[k].expand = hdr[k].expand
  BY <1>2, <1>3, <1>4
<1> QED BY ONLY <1>5, <1>6, PieceStep, MemInv, use' = use, pc' = pc, call' = call, blocks' = blocks, live' = live

(* ... where the pieces that are added or go are p's own. *)
LEMMA MovesList ==
  ASSUME MemInv, use' = use, pc' = pc, call' = call, blocks' = blocks, live' = live,
         NEW p \in live, hdr[p].kind = "heap", NEW list, GoodList(list),
         hdr' = [hdr EXCEPT ![p].list = list],
         owned' \in SUBSET Pieces, \A x \in owned' : x.size > 0,
         \A x : (x \in owned' <=> x \in owned) \/ (x.at >= Address(p) /\ x.at < EndOf(hdr, p)),
         Split(list, In(hdr, owned', p), Address(p) + HeapOffset, EndOf(hdr, p))
  PROVE  MemInv'
<1>1. p \in Page /\ hdr \in [Page -> HeaderType] /\ hdr[p] \in HeaderType
  BY MemTyped, HeaderIs DEF MemInv
<1>2. hdr[p].next \in Nat /\ list \in Seq(Pieces)
  BY <1>1, HeaderIs, ListFacts
<1>3. hdr' = [hdr EXCEPT ![p] = [hdr[p] EXCEPT !.list = list, !.next = hdr[p].next]]
  <2>1. [hdr[p] EXCEPT !.list = list, !.next = hdr[p].next] = [hdr[p] EXCEPT !.list = list]
    BY ONLY <1>1 DEF HeaderType
  <2> QED BY <2>1, <1>1
<1>4. hdr'[p].kind = "heap" /\ hdr'[p].list = list /\ hdr'[p].size = hdr[p].size
  <2>1. hdr'[p] = [hdr[p] EXCEPT !.list = list]
    BY <1>1
  <2> QED BY <2>1, <1>1 DEF HeaderType
<1>5. EndOf(hdr', p) = EndOf(hdr, p) /\ In(hdr', owned', p) = In(hdr, owned', p)
  BY <1>4 DEF EndOf, In
<1>6. SimpleGood(hdr', owned', p)
  BY <1>4, <1>5 DEF SimpleGood
<1>7. hdr[p].kind \in {"heap", "stack"}
  OBVIOUS
<1> QED BY ONLY <1>2, <1>3, <1>6, <1>7, HeaderMoves, MemInv, use' = use, pc' = pc, call' = call, blocks' = blocks, live' = live,
         p \in live, owned' \in SUBSET Pieces, \A x \in owned' : x.size > 0,
         \A x : (x \in owned' <=> x \in owned) \/ (x.at >= Address(p) /\ x.at < EndOf(hdr, p))

(* The top of a stack moves.                                               *)
LEMMA MovesTop ==
  ASSUME MemInv, use' = use, pc' = pc, call' = call, blocks' = blocks, live' = live,
         NEW p \in live, hdr[p].kind = "stack", NEW top \in Nat,
         Address(p) + PageSize <= top, top <= EndOf(hdr, p),
         hdr' = [hdr EXCEPT ![p].next = top],
         owned' \in SUBSET Pieces, \A x \in owned' : x.size > 0,
         \A x : (x \in owned' <=> x \in owned) \/ (x.at >= Address(p) /\ x.at < EndOf(hdr, p)),
         Split(<<>>, In(hdr, owned', p), Address(p) + PageSize, top)
  PROVE  MemInv'
<1>0. p \in Page /\ hdr \in [Page -> HeaderType] /\ hdr[p] \in HeaderType /\ SimpleGood(hdr, owned, p)
  BY MemTyped, HeaderIs DEF MemInv, MemGood
<1>1. hdr[p].list = <<>> /\ hdr[p].list \in Seq(Pieces)
  BY <1>0, HeaderIs DEF SimpleGood
<1>3. hdr' = [hdr EXCEPT ![p] = [hdr[p] EXCEPT !.list = <<>>, !.next = top]]
  <2>1. [hdr[p] EXCEPT !.list = <<>>, !.next = top] = [hdr[p] EXCEPT !.next = top]
    BY ONLY <1>0, <1>1 DEF HeaderType
  <2> QED BY <2>1, <1>0
<1>4. hdr'[p].kind = "stack" /\ hdr'[p].list = <<>> /\ hdr'[p].next = top /\ hdr'[p].size = hdr[p].size
  <2>1. hdr'[p] = [hdr[p] EXCEPT !.next = top]
    BY <1>0
  <2> QED BY <2>1, <1>0, <1>1 DEF HeaderType
<1>5. EndOf(hdr', p) = EndOf(hdr, p) /\ In(hdr', owned', p) = In(hdr, owned', p)
  BY <1>4 DEF EndOf, In
<1>6. SimpleGood(hdr', owned', p)
  BY <1>4, <1>5 DEF SimpleGood
<1>7. hdr[p].kind \in {"heap", "stack"} /\ <<>> \in Seq(Pieces)
  BY <1>1
<1> QED BY ONLY <1>3, <1>6, <1>7, HeaderMoves, MemInv, use' = use, pc' = pc, call' = call, blocks' = blocks, live' = live,
         p \in live, top \in Nat, owned' \in SUBSET Pieces, \A x \in owned' : x.size > 0,
         \A x : (x \in owned' <=> x \in owned) \/ (x.at >= Address(p) /\ x.at < EndOf(hdr, p))

(* A piece is taken from a heap, or put back. *)
LEMMA Takes ==
  ASSUME MemInv, use' = use, pc' = pc, call' = call, blocks' = blocks, live' = live,
         NEW p \in live, hdr[p].kind \in {"heap", "stack"}, NEW n \in Nat, n # 0, TakePiece(p, n)
  PROVE  MemInv'
<1>0. /\ p \in Page /\ hdr \in [Page -> HeaderType] /\ SimpleGood(hdr, owned, p) /\ p \in Nat
      /\ owned \in SUBSET Pieces /\ (\A x \in owned : x.size > 0) /\ hdr[p].size \in Nat
  BY MemTyped, HeaderIs, PageIs DEF MemInv, MemGood
<1>1. PICK list : list = hdr[p].list
  OBVIOUS
<1>2. PICK m : m = Round(n)
  OBVIOUS
<1>3. PICK i : i = FirstFit(list, m)
  OBVIOUS
<1>4. CASE i = 0
  <2>1. hdr' = hdr /\ owned' = owned
    BY <1>1, <1>2, <1>3, <1>4 DEF TakePiece, Gives
  <2> QED BY <2>1, NothingMoves
<1>5. CASE i # 0
  <2>1. GoodList(list)
    <3>1. CASE hdr[p].kind = "heap"
      BY <3>1, <1>0, <1>1 DEF SimpleGood
    <3>2. CASE hdr[p].kind = "stack"
      <4>1. list = <<>>
        BY <3>2, <1>0, <1>1 DEF SimpleGood
      <4>2. <<>> \in Seq(Pieces) /\ Len(<<>>) = 0
        OBVIOUS
      <4> QED BY <4>1, <4>2 DEF GoodList
    <3> QED BY <3>1, <3>2
  <2>2. i \in 1..Len(list) /\ LongEnough(list[i], m)
    BY <2>1, <1>3, <1>5, FirstFitGives
  <2>3. hdr[p].kind = "heap"
    <3>1. ASSUME hdr[p].kind = "stack" PROVE FALSE
      <4>1. list = <<>>
        BY <3>1, <1>0, <1>1 DEF SimpleGood
      <4> QED BY <4>1, <2>2
    <3> QED BY <3>1
  <2>4. PICK new : new = AllocNode(list, i, m)
    OBVIOUS
  <2>5. PICK x : x = Piece(list[i].at, m)
    OBVIOUS
  <2>6. hdr' = [hdr EXCEPT ![p].list = new] /\ owned' = owned \cup {x}
    <3>1. i = Gives(p, n) /\ m = Round(n) /\ list = hdr[p].list
      BY <1>1, <1>2, <1>3 DEF Gives
    <3> QED BY ONLY <3>1, <2>4, <2>5, <1>5, TakePiece(p, n) DEF TakePiece
  <2>7. Split(list, In(hdr, owned, p), Address(p) + HeapOffset, EndOf(hdr, p))
    BY <2>3, <1>0, <1>1 DEF SimpleGood
  <2>8. m \in Nat /\ m > 0 /\ m % NodeAlign = 0
    BY <1>2, RoundPositive
  <2>9. /\ GoodList(new) /\ Split(new, In(hdr, owned, p) \cup {x}, Address(p) + HeapOffset, EndOf(hdr, p))
        /\ GoodPiece(x) /\ Covers(x) \subseteq Address(p) + HeapOffset .. EndOf(hdr, p) - 1
    <3>1. PICK Q : Q = In(hdr, owned, p)
      OBVIOUS
    <3>2. PICK from : from = Address(p) + HeapOffset
      OBVIOUS
    <3>3. PICK to : to = EndOf(hdr, p)
      OBVIOUS
    <3>4. Split(list, Q, from, to)
      BY <2>7, <3>1, <3>2, <3>3
    <3>5. GoodList(new) /\ Split(new, Q \cup {x}, from, to) /\ GoodPiece(x) /\ Covers(x) \subseteq from .. to - 1
      <4>1. GoodList(new) /\ Split(new, Q \cup {x}, from, to)
        BY ONLY <2>1, <2>2, <2>4, <2>5, <2>8, <3>4, SplitTake
      <4>2. GoodPiece(x)
        BY ONLY <4>1, <2>1, <2>2, <2>4, <2>5, <2>8, <3>4, SplitTake
      <4>3. Covers(x) \subseteq from .. to - 1
        BY ONLY <4>1, <2>1, <2>2, <2>4, <2>5, <2>8, <3>4, SplitTake
      <4> QED BY <4>1, <4>2, <4>3
    <3> QED BY ONLY <3>1, <3>2, <3>3, <3>5
  <2>10. /\ x \in Pieces /\ x.size > 0 /\ x.at >= Address(p) /\ x.at < EndOf(hdr, p)
    <3>1. Address(p) \in Nat /\ EndOf(hdr, p) \in Nat /\ HeapOffset \in Nat
      BY <1>0, EndIs, PageFacts
    <3>2. x.at \in Nat /\ x.size \in Nat /\ x.size > 0 /\ x \in Pieces
      BY <2>9, PieceFacts
    <3>3. x.at \in Covers(x)
      BY <3>2, CoversMembers
    <3> QED BY <3>1, <3>2, <3>3, <2>9
  <2>11. In(hdr, owned', p) = In(hdr, owned, p) \cup {x}
    BY <2>6, <2>10 DEF In
  <2>12. /\ owned' \in SUBSET Pieces /\ \A y \in owned' : y.size > 0
         /\ \A y : (y \in owned' <=> y \in owned) \/ (y.at >= Address(p) /\ y.at < EndOf(hdr, p))
    BY <1>0, <2>6, <2>10
  <2> QED BY ONLY <2>3, <2>6, <2>9, <2>11, <2>12, MovesList, MemInv, use' = use, pc' = pc, call' = call,
                  blocks' = blocks, live' = live, p \in live
<1> QED BY <1>4, <1>5

(* A piece goes back to its simple heap.                                   *)
LEMMA Puts ==
  ASSUME MemInv, use' = use, pc' = pc, call' = call, blocks' = blocks, live' = live,
         NEW p \in live, hdr[p].kind = "heap", NEW x, x \in In(hdr, owned, p),
         NEW n \in Nat, n # 0, Round(n) = x.size, PutPiece(p, x, n)
  PROVE  MemInv'
<1>0. /\ p \in Page /\ hdr \in [Page -> HeaderType] /\ SimpleGood(hdr, owned, p)
      /\ owned \in SUBSET Pieces /\ (\A y \in owned : y.size > 0)
  BY MemTyped DEF MemInv, MemGood
<1>1. PICK list : list = hdr[p].list
  OBVIOUS
<1>2. PICK new : new = DeallocSpace(list, x.at, n)
  OBVIOUS
<1>3. hdr' = [hdr EXCEPT ![p].list = new] /\ owned' = owned \ {x}
  BY <1>1, <1>2 DEF PutPiece
<1>4. GoodList(list) /\ Split(list, In(hdr, owned, p), Address(p) + HeapOffset, EndOf(hdr, p))
  BY <1>0, <1>1 DEF SimpleGood
<1>5. x \in Pieces /\ x \in owned /\ x.at >= Address(p) /\ x.at < EndOf(hdr, p)
  BY <1>0 DEF In
<1>6. GoodList(new) /\ Split(new, In(hdr, owned, p) \ {x}, Address(p) + HeapOffset, EndOf(hdr, p))
  <2>1. n > 0
    OBVIOUS
  <2> QED BY ONLY <2>1, <1>2, <1>4, <1>5, SplitPut, x \in In(hdr, owned, p), n \in Nat, Round(n) = x.size
<1>7. In(hdr, owned', p) = In(hdr, owned, p) \ {x}
  BY <1>3 DEF In
<1>8. /\ owned' \in SUBSET Pieces /\ \A y \in owned' : y.size > 0
      /\ \A y : (y \in owned' <=> y \in owned) \/ (y.at >= Address(p) /\ y.at < EndOf(hdr, p))
  BY <1>0, <1>3, <1>5
<1> QED BY ONLY <1>3, <1>6, <1>7, <1>8, MovesList, MemInv, use' = use, pc' = pc, call' = call,
                blocks' = blocks, live' = live, p \in live, hdr[p].kind = "heap"

(* ... and of a stack. *)
LEMMA Pushes ==
  ASSUME MemInv, use' = use, pc' = pc, call' = call,
         NEW t, NEW p \in live, hdr[p].kind = "stack", NEW n \in Nat, n # 0, Push(t, p, n)
  PROVE  MemInv'
<1>0. /\ p \in Page /\ hdr \in [Page -> HeaderType] /\ SimpleGood(hdr, owned, p) /\ p \in Nat
      /\ owned \in SUBSET Pieces /\ (\A x \in owned : x.size > 0) /\ hdr[p].size \in Nat
  BY MemTyped, HeaderIs, PageIs DEF MemInv, MemGood
<1>1. blocks' = blocks /\ live' = live
  BY DEF Push
<1>2. CASE ~ StackFits(p, n)
  BY <1>1, <1>2, NothingMoves DEF Push
<1>3. CASE StackFits(p, n)
  <2>1. PICK top : top = hdr[p].next + Round(n)
    OBVIOUS
  <2>2. PICK x : x = Piece(hdr[p].next, Round(n))
    OBVIOUS
  <2>3. hdr' = [hdr EXCEPT ![p].next = top] /\ owned' = owned \cup {x}
    BY <1>3, <2>1, <2>2, <1>0 DEF Push
  <2>4. /\ Address(p) + PageSize <= hdr[p].next /\ hdr[p].next <= EndOf(hdr, p)
        /\ Split(<<>>, In(hdr, owned, p), Address(p) + PageSize, hdr[p].next)
    BY <1>0 DEF SimpleGood
  <2>5. /\ Address(p) \in Nat /\ EndOf(hdr, p) \in Nat /\ PageSize \in Nat /\ PageSize > 0 /\ hdr[p].next \in Nat
    BY <1>0, EndIs, PageFacts, HeaderIs
  <2>6. Round(n) \in Nat /\ Round(n) > 0
    BY RoundPositive
  <2>7. top \in Nat /\ Address(p) + PageSize <= top /\ top <= EndOf(hdr, p)
    <3>1. HeapEnd(p) = EndOf(hdr, p)
      BY PiecesInIs
    <3> QED BY <1>3, <2>1, <2>4, <2>5, <2>6, <3>1 DEF StackFits
  <2>8. Split(<<>>, In(hdr, owned, p) \cup {x}, Address(p) + PageSize, top)
    <3>1. PICK from \in Int : from = Address(p) + PageSize
      BY <2>5
    <3>2. PICK to \in Int : to = hdr[p].next
      BY <2>5
    <3>3. PICK m \in Nat : m = Round(n)
      BY <2>6
    <3>4. m > 0 /\ to \in Nat /\ from <= to /\ Split(<<>>, In(hdr, owned, p), from, to) /\ x = Piece(to, m) /\ top = to + m
      BY <3>1, <3>2, <3>3, <2>1, <2>2, <2>4, <2>5, <2>6
    <3>5. Split(<<>>, In(hdr, owned, p) \cup {x}, from, top)
      BY ONLY <3>4, SplitPush, from \in Int, to \in Int, m \in Nat
    <3> QED BY <3>1, <3>5
  <2>9. x \in Pieces /\ x.size > 0 /\ x.at >= Address(p) /\ x.at < EndOf(hdr, p)
    BY <2>1, <2>2, <2>4, <2>5, <2>6, <2>7 DEF Piece, Pieces
  <2>10. In(hdr, owned', p) = In(hdr, owned, p) \cup {x}
    BY <2>3, <2>9 DEF In
  <2>11. /\ owned' \in SUBSET Pieces /\ \A y \in owned' : y.size > 0
         /\ \A y : (y \in owned' <=> y \in owned) \/ (y.at >= Address(p) /\ y.at < EndOf(hdr, p))
    BY <1>0, <2>3, <2>9
  <2> QED BY ONLY <2>3, <2>7, <2>8, <2>10, <2>11, <1>1, MovesTop, MemInv, use' = use, pc' = pc, call' = call,
                p \in live, hdr[p].kind = "stack"
<1> QED BY <1>2, <1>3

(* A stack goes back to a piece.                                           *)
LEMMA Pops ==
  ASSUME MemInv, use' = use, pc' = pc, call' = call, blocks' = blocks, live' = live,
         NEW p \in live, hdr[p].kind = "stack", NEW x, x \in In(hdr, owned, p),
         hdr' = [hdr EXCEPT ![p].next = x.at],
         owned' = {y \in owned : y \notin PiecesIn(p) \/ y.at < x.at}
  PROVE  MemInv'
<1>0. /\ p \in Page /\ hdr \in [Page -> HeaderType] /\ SimpleGood(hdr, owned, p) /\ p \in Nat
      /\ owned \in SUBSET Pieces /\ (\A y \in owned : y.size > 0) /\ hdr[p].size \in Nat
  BY MemTyped, HeaderIs, PageIs DEF MemInv, MemGood
<1>1. PICK top : top = x.at
  OBVIOUS
<1>2. PICK Q : Q = In(hdr, owned, p)
  OBVIOUS
<1>3. Q \in SUBSET Pieces /\ (\A y \in Q : y.size > 0) /\ x \in Q /\ x \in Pieces
  BY <1>0, <1>2 DEF In
<1>4. /\ Split(<<>>, Q, Address(p) + PageSize, hdr[p].next) /\ hdr[p].next <= EndOf(hdr, p)
      /\ Address(p) \in Int /\ PageSize \in Int /\ hdr[p].next \in Int /\ EndOf(hdr, p) \in Int
  <2>1. Split(<<>>, Q, Address(p) + PageSize, hdr[p].next) /\ hdr[p].next <= EndOf(hdr, p)
    BY <1>0, <1>2 DEF SimpleGood
  <2>2. Address(p) \in Int /\ EndOf(hdr, p) \in Int
    BY <1>0, EndIs
  <2>3. PageSize \in Int /\ hdr[p].next \in Int
    BY <1>0, PageFacts, HeaderIs
  <2> QED BY <2>1, <2>2, <2>3
<1>5. /\ Split(<<>>, {y \in Q : y.at < x.at}, Address(p) + PageSize, top)
      /\ Address(p) + PageSize <= top /\ top <= hdr[p].next
  <2>1. PICK from \in Int : from = Address(p) + PageSize
    BY <1>4
  <2>2. PICK to \in Int : to = hdr[p].next
    BY <1>4
  <2>3. Split(<<>>, {y \in Q : y.at < x.at}, from, top) /\ from <= top /\ top <= to
    BY ONLY <2>1, <2>2, <1>1, <1>3, <1>4, SplitPop
  <2> QED BY <2>1, <2>2, <2>3
<1>6. top \in Nat /\ Address(p) + PageSize <= top /\ top <= EndOf(hdr, p)
  BY <1>1, <1>3, <1>4, <1>5 DEF Pieces
<1>7. In(hdr, owned', p) = {y \in Q : y.at < x.at}
  BY <1>2, PiecesInIs DEF In
<1>8. /\ owned' \in SUBSET Pieces /\ \A y \in owned' : y.size > 0
      /\ \A y : (y \in owned' <=> y \in owned) \/ (y.at >= Address(p) /\ y.at < EndOf(hdr, p))
  BY <1>0, PiecesInIs DEF In
<1>9. hdr' = [hdr EXCEPT ![p].next = top]
  BY <1>1
<1> QED BY ONLY <1>5, <1>6, <1>7, <1>8, <1>9, MovesTop, MemInv, use' = use, pc' = pc, call' = call,
                p \in live, hdr[p].kind = "stack", blocks' = blocks, live' = live

(* The multiple of n that is not above k. *)
LEMMA MultipleBelow ==
  ASSUME NEW n \in Nat, n > 0, NEW k \in Nat, NEW m \in Nat, m % n = 0, m <= k, k < m + n
  PROVE  (k \div n) * n = m
<1>1. PICK j \in Nat : m = n * j
  BY MultipleOf
<1>2. PICK q : q = k \div n
  OBVIOUS
<1>3. PICK r : r = k % n
  OBVIOUS
<1>4. k = (n * q) + r /\ q \in Nat /\ r \in Nat /\ r < n
  BY <1>2, <1>3
<1>5. ASSUME NEW a \in Nat, NEW b \in Nat, a < b PROVE n * a + n <= n * b
  <2>1. b - a - 1 \in Nat
    BY <1>5
  <2>2. PICK d \in Nat : b = a + 1 + d
    BY <2>1
  <2>3. n * b = n * a + n + n * d
    BY <2>2
  <2>4. n * a \in Nat /\ n * b \in Nat /\ n * d \in Nat
    OBVIOUS
  <2> QED BY <2>3, <2>4
<1>6. n * j \in Nat /\ n * q \in Nat
  BY <1>1, <1>4
<1>7. ~ j < q
  <2>1. ASSUME j < q PROVE FALSE
    <3>1. n * j + n <= n * q
      BY <1>4, <1>5, <2>1
    <3> QED BY <3>1, <1>1, <1>4, <1>6
  <2> QED BY <2>1
<1>8. ~ q < j
  <2>1. ASSUME q < j PROVE FALSE
    <3>1. n * q + n <= n * j
      BY <1>4, <1>5, <2>1
    <3> QED BY <3>1, <1>1, <1>4, <1>6
  <2> QED BY <2>1
<1>9. q = j
  BY <1>4, <1>7, <1>8
<1> QED BY <1>1, <1>2, <1>9

(* A near call finds the heap that the piece is of. *)
LEMMA NearHeader ==
  ASSUME MemInv, SafeUses, "near" \in use.ops, NEW x \in owned, NEW p, p = FindHeader(x.at)
  PROVE  /\ p \in live /\ x \in In(hdr, owned, p) /\ hdr[p].kind \in {"heap", "stack"}
         /\ p = ContainerOf(x)
<1>0. /\ MemGood(hdr, blocks, live, owned, Freed) /\ hdr \in [Page -> HeaderType] /\ live \in SUBSET Page
      /\ owned \in SUBSET Pieces
  BY MemTyped DEF MemInv
<1>1. PICK c \in live : Holder(hdr, owned, live, x, c)
  BY <1>0 DEF MemGood
<1>2. hdr[c].kind \in {"heap", "stack"} /\ x \in In(hdr, owned, c) /\ c \in Page /\ c \in Nat
  BY <1>0, <1>1, PageIs DEF Holder
<1>3. PICK k : k = PageOf(x.at)
  OBVIOUS
<1>4. k \in Nat /\ c <= k /\ k < c + hdr[c].size
  BY <1>0, <1>2, <1>3, InPages
<1>5. PICK n \in ProbedSizes : use.pages \subseteq {n}
  BY DEF SafeUses, MemInv, StateType
<1>6. n \in Nat /\ n > 0
  BY HeapsAssumption
<1>7. \A r \in Page : hdr[r].kind # "none" => hdr[r].size = n /\ r % n = 0 /\ r \in Nat
  BY <1>5, PageIs DEF MemInv, NearInv
<1>8. hdr[c].size = n /\ c % n = 0
  BY <1>2, <1>7
<1>9. PICK found : found = {r \in Probes(x.at) : hdr[r].kind # "none"}
  OBVIOUS
<1>10. c \in found
  <2>1. (k \div n) * n = c
    BY <1>2, <1>4, <1>6, <1>8, MultipleBelow
  <2> QED BY <2>1, <1>2, <1>3, <1>9 DEF Probes
<1>11. c + n <= NumPages
  <2>1. blocks[c] = hdr[c].size /\ blocks[c] > 0
    <3>1. c \notin Given(hdr, blocks, live, Freed)
      BY NoCompound
    <3> QED BY <3>1, <1>0, <1>2, LiveFacts
  <2> QED BY <2>1, <1>0, <1>2, <1>8 DEF MemGood, BlocksGood
<1>12. ASSUME NEW r \in found PROVE r \in Nat /\ r <= c
  <2>1. PICK m \in ProbedSizes : r = (k \div m) * m
    BY <1>3, <1>9 DEF Probes
  <2>2. m \in Nat /\ m > 0
    BY HeapsAssumption
  <2>3. r \in Nat /\ r <= k
    <3>1. PICK d : d = k \div m
      OBVIOUS
    <3>2. d \in Nat /\ m * d <= k
      BY <3>1, <1>4, <2>2
    <3>3. d * m = m * d /\ d * m \in Nat
      BY <3>2, <2>2
    <3> QED BY <2>1, <3>1, <3>2, <3>3
  <2>4. r \in Page
    BY <2>3, <1>2, <1>4, <1>8, <1>11, <1>6, PageIs
  <2>5. r % n = 0
    BY <2>4, <1>7, <1>9
  <2>6. c < r => c + n <= r
    BY <2>3, <2>5, <1>2, <1>6, <1>8, MultipleGap
  <2> QED BY <2>3, <2>6, <1>2, <1>4, <1>6, <1>8
<1>13. p = c
  <2>1. p = CHOOSE r \in found : \A s \in found : s <= r
    BY <1>9, <1>10 DEF FindHeader
  <2>2. \A r \in found : (\A s \in found : s <= r) => r = c
    BY <1>10, <1>12, <1>2
  <2>3. \A s \in found : s <= c
    BY <1>12
  <2> QED BY <2>1, <2>2, <2>3, <1>10
<1>14. p = ContainerOf(x)
  <2>1. \A r \in live : x \in PiecesIn(r) => r = c
    <3>1. ASSUME NEW r \in live, x \in PiecesIn(r) PROVE r = c
      <4>1. x \in In(hdr, owned, r)
        BY <3>1, PiecesInIs
      <4>2. hdr[r].kind # "compound" /\ hdr[c].kind # "compound"
        BY <1>0, <1>2, NoCompound DEF Compounds
      <4> QED BY <4>1, <4>2, <1>0, <1>2, OneHolder
    <3> QED BY <3>1
  <2>2. x \in PiecesIn(c)
    BY <1>2, PiecesInIs
  <2> QED BY <1>13, <2>1, <2>2 DEF ContainerOf
<1> QED BY <1>1, <1>2, <1>13, <1>14

(* Programs do not ask for nothing.                                        *)
LEMMA SizesPositive ==
  ASSUME MemInv, SafeUses, NEW n \in use.sizes
  PROVE  n \in Nat /\ n # 0
<1>1. use \in Uses /\ use.sizes \subseteq Nat
  BY UseFacts DEF MemInv
<1> QED BY <1>1 DEF SafeUses

(* SASSimpleHeapAlloc, SASSimpleHeapFree, SASSimpleStackAlloc.             *)
LEMMA PieceCalls ==
  ASSUME MemInv, SafeUses, pc' = pc, call' = call, NEW t,
         NEW p \in live, NEW n \in use.sizes,
         \/ HeapAlloc(t, p, n) \/ StackAlloc(t, p, n)
         \/ \E x \in PiecesIn(p) : HeapFree(t, p, x, n)
  PROVE  MemInv'
<1>1. n \in Nat /\ n # 0
  BY SizesPositive
<1>2. CASE HeapAlloc(t, p, n)
  <2>1. use' = use /\ blocks' = blocks /\ live' = live /\ hdr[p].kind = "heap"
    BY <1>2 DEF HeapAlloc, Call
  <2>2. CASE InRange(p, n)
    <3>1. TakePiece(p, n)
      BY <1>2, <2>2 DEF HeapAlloc
    <3> QED BY <1>1, <2>1, <3>1, Takes
  <2>3. CASE ~ InRange(p, n)
    <3>1. hdr' = hdr /\ owned' = owned
      BY <1>2, <2>3 DEF HeapAlloc
    <3> QED BY <2>1, <3>1, NothingMoves
  <2> QED BY <2>2, <2>3
<1>3. CASE StackAlloc(t, p, n)
  <2>1. use' = use /\ hdr[p].kind = "stack" /\ Push(t, p, n)
    BY <1>3 DEF StackAlloc, Call
  <2> QED BY <1>1, <2>1, Pushes
<1>4. ASSUME NEW x \in PiecesIn(p), HeapFree(t, p, x, n) PROVE MemInv'
  <2>1. /\ use' = use /\ blocks' = blocks /\ live' = live /\ hdr[p].kind = "heap"
        /\ x \in In(hdr, owned, p) /\ Round(n) = x.size
    BY <1>4, PiecesInIs DEF HeapFree, Call, Asked
  <2>2. CASE InRange(p, n)
    <3>1. PutPiece(p, x, n)
      BY <1>4, <2>2 DEF HeapFree
    <3> QED BY <1>1, <2>1, <3>1, Puts
  <2>3. CASE ~ InRange(p, n)
    <3>1. hdr' = hdr /\ owned' = owned
      BY <1>4, <2>3 DEF HeapFree
    <3> QED BY <2>1, <3>1, NothingMoves
  <2> QED BY <2>2, <2>3
<1> QED BY <1>2, <1>3, <1>4

(* SASSimpleStackDealloc.                                                  *)
LEMMA PopCall ==
  ASSUME MemInv, pc' = pc, call' = call, NEW t, NEW p \in live, NEW x \in PiecesIn(p), StackDealloc(t, p, x)
  PROVE  MemInv'
<1>1. /\ use' = use /\ blocks' = blocks /\ live' = live /\ hdr[p].kind = "stack"
      /\ x \in In(hdr, owned, p) /\ hdr' = [hdr EXCEPT ![p].next = x.at]
      /\ owned' = {y \in owned : y \notin PiecesIn(p) \/ y.at < x.at}
  BY PiecesInIs DEF StackDealloc, Call
<1> QED BY ONLY <1>1, Pops, MemInv, pc' = pc, call' = call, p \in live

(* The near calls of simple heaps and stacks.                              *)
LEMMA NearCalls ==
  ASSUME MemInv, SafeUses, pc' = pc, call' = call, NEW t, NEW x \in owned, NEW n \in use.sizes,
         NearAlloc(t, x, n) \/ NearDealloc(t, x, n) \/ StackNearAlloc(t, x, n)
  PROVE  MemInv'
<1>1. n \in Nat /\ n # 0
  BY SizesPositive
<1>2. use' = use /\ "near" \in use.ops
  BY DEF NearAlloc, NearDealloc, StackNearAlloc, Call
<1>3. PICK p : p = FindHeader(x.at)
  OBVIOUS
<1>4. p \in live /\ x \in In(hdr, owned, p) /\ hdr[p].kind \in {"heap", "stack"} /\ p = ContainerOf(x)
  BY <1>2, <1>3, NearHeader
<1>5. CASE NearAlloc(t, x, n)
  <2>1. TakePiece(p, n) /\ blocks' = blocks /\ live' = live
    BY <1>3, <1>5 DEF NearAlloc
  <2> QED BY <1>1, <1>2, <1>4, <2>1, Takes
<1>6. CASE NearDealloc(t, x, n)
  <2>1. PutPiece(p, x, n) /\ blocks' = blocks /\ live' = live /\ hdr[p].kind = "heap" /\ Round(n) = x.size
    BY <1>3, <1>4, <1>6 DEF NearDealloc, Asked
  <2> QED BY <1>1, <1>2, <1>4, <2>1, Puts
<1>7. CASE StackNearAlloc(t, x, n)
  <2>1. Push(t, p, n) /\ hdr[p].kind = "stack"
    BY <1>3, <1>7 DEF StackNearAlloc
  <2> QED BY <1>1, <1>2, <1>4, <2>1, Pushes
<1> QED BY <1>5, <1>6, <1>7

(* SASSimpleHeapDestroy and the like.                                      *)
LEMMA DestroyCall ==
  ASSUME MemInv, pc' = pc, call' = call, NEW t, NEW p, DestroySimple(t, p)
  PROVE  MemInv'
<1>1. /\ use' = use /\ p \in live /\ blocks[p] > 0 /\ hdr[p].kind # "compound" /\ blocks' = [blocks EXCEPT ![p] = 0]
      /\ live' = live \ {p} /\ owned' = owned \ In(hdr, owned, p) /\ hdr' = [hdr EXCEPT ![p] = NoHeader]
  BY PiecesInIs DEF DestroySimple, Call
<1>2. /\ MemGood(hdr, blocks, live, owned, Freed) /\ hdr \in [Page -> HeaderType] /\ live \in SUBSET Page
      /\ blocks \in [Page -> 0..NumPages] /\ live \cap Freed = {}
  BY MemTyped DEF MemInv, MemGood
<1>3. PICK b2 : b2 = [blocks EXCEPT ![p] = 0]
  OBVIOUS
<1>4. /\ MemGood(hdr, b2, live \ {p}, owned \ In(hdr, owned, p), Freed)
      /\ Compounds(hdr, live \ {p}) = Compounds(hdr, live)
  BY ONLY <1>1, <1>2, <1>3, GoneSimple
<1>4a. MemGood(hdr, blocks', live', owned', Freed) /\ Compounds(hdr, live') = Compounds(hdr, live)
  BY <1>1, <1>3, <1>4
<1>4b. /\ hdr' \in [Page -> HeaderType]
       /\ \A q \in Page : hdr'[q] = hdr[q] \/ (blocks'[q] = 0 /\ q \notin live' /\ q \notin Freed)
  BY <1>1, <1>2, NoHeaderTyped
<1>5. /\ MemGood(hdr', blocks', live', owned', Freed) /\ \A c \in Compounds(hdr, live) : hdr'[c] = hdr[c]
      /\ \A q \in Given(hdr, blocks', live', Freed) : hdr'[q] = hdr[q] /\ hdr'[hdr[q].base] = hdr[hdr[q].base]
  BY ONLY <1>4a, <1>4b, HeadersCleared
<1>6. Grown(hdr, live, Freed, hdr', live')
  <2>1. ASSUME NEW c \in Compounds(hdr, live) PROVE HeapKept(hdr, live, hdr', live', c)
    <3>1. c \in live' /\ hdr'[c] = hdr[c]
      BY <1>1, <1>5 DEF Compounds
    <3> QED BY <1>2, <3>1, KeptWhenSame
  <2>2. Freed \subseteq Given(hdr, blocks', live', Freed)
    BY DEF Given
  <2> QED BY <2>1, <2>2, <1>5 DEF Grown, HeapOf
<1>7. NearInv' /\ ExpandInv'
  <2>1. NoHeader.kind = "none" /\ NoHeader.expand = <<>>
    BY DEF NoHeader, Header
  <2>2. \A q \in Page : hdr'[q] = hdr[q] \/ hdr'[q] = NoHeader
    BY <1>1, <1>2
  <2> QED BY ONLY <2>1, <2>2, <1>1, MemInv DEF MemInv, NearInv, ExpandInv
<1> QED BY <1>1, <1>5, <1>6, <1>7, GrownKeeps, RestStep

-----------------------------------------------------------------------------
(* New heaps. *)
LEMMA LowestGives ==
  ASSUME blocks \in [Page -> 0..NumPages], NEW n \in Nat, n >= 1, NEW p, p = LowestBlock(n)
  PROVE  /\ p # NoPage => FreeAt(blocks, p, n) /\ p \in BlocksFree(n)
         /\ p = NoPage => BlocksFree(n) = {}
<1>1. BlocksFree(n) \subseteq Page
  BY DEF BlocksFree
<1>2. CASE BlocksFree(n) = {}
  BY <1>2 DEF LowestBlock
<1>3. CASE BlocksFree(n) # {}
  <2>1. BlocksFree(n) \in SUBSET Nat
    BY <1>1, PageIs
  <2>2. \E q \in BlocksFree(n) : \A r \in BlocksFree(n) : q <= r
    BY <1>3, <2>1, LeastNatural
  <2>3. p \in BlocksFree(n)
    BY <1>3, <2>2 DEF LowestBlock
  <2> QED BY <2>3, <1>1, PageIs, FreeBlockIs
<1> QED BY <1>2, <1>3

(* A block that nobody had, taken: heaps only grow.                        *)
LEMMA BlockGrown ==
  ASSUME NEW h, NEW b, NEW lv, NEW ow, NEW fr, MemGood(h, b, lv, ow, fr),
         NEW p, NEW n, FreeAt(b, p, n), NEW h2, \A q \in Page : q # p => h2[q] = h[q],
         NEW lv2, lv \subseteq lv2
  PROVE  Grown(h, lv, fr, h2, lv2)
<1>0. h \in [Page -> HeaderType] /\ lv \in SUBSET Page /\ fr \in SUBSET Page
  BY MemTyped
<1>1. p \in Page /\ p \notin lv /\ p \notin fr /\ b[p] = 0
  <2>1. p \in Page /\ p \in Nat /\ n \in Nat /\ n >= 1
    BY PageIs DEF FreeAt
  <2>2. p <= p /\ p < p + n
    BY <2>1
  <2> QED BY <2>1, <2>2, FreeIsUnused
<1>2. ASSUME NEW c \in Compounds(h, lv) PROVE HeapKept(h, lv, h2, lv2, c)
  <2>1. c \in Page /\ c \in lv2 /\ c # p
    BY <1>0, <1>1 DEF Compounds
  <2>2. h2[c] = h[c]
    BY <2>1
  <2> QED BY <1>0, <2>1, <2>2, KeptWhenSame
<1>3. ASSUME NEW q \in fr PROVE HeapOf(h2, q) = HeapOf(h, q)
  <2>1. q \in Given(h, b, lv, fr) /\ q \in Page /\ q # p
    BY <1>0, <1>1 DEF Given
  <2>2. IsPart(h, lv, h[h[q].base].base, h[q].base)
    BY <2>1, GivenFacts
  <2>3. h[q].base \in Page /\ b[h[q].base] > 0
    BY <2>2, PartFacts
  <2> QED BY <1>1, <2>1, <2>3 DEF HeapOf
<1> QED BY <1>2, <1>3 DEF Grown

(* The headers of what is made. *)
LEMMA FreshHeap ==
  ASSUME hdr \in [Page -> HeaderType], NEW p \in Page, NEW n \in 1..NumPages, NEW v, v = SimpleHeap(p, n)
  PROVE  /\ v \in HeaderType /\ v.kind = "heap" /\ v.size = n /\ v.base = p
         /\ v.list = <<Piece(Address(p) + HeapOffset, n * PageSize - HeapOffset)>>
         /\ v.expand = hdr[p].expand /\ v.max = hdr[p].max /\ v.space = hdr[p].space
<1>1. Address(p) + HeapOffset \in Nat /\ n * PageSize - HeapOffset \in Nat
  <2>1. n \in Nat /\ n >= 1 /\ p \in Nat
    BY PageIs
  <2>2. Address(p) \in Nat
    BY <2>1, Addresses
  <2>3. n * PageSize \in Nat /\ n * PageSize >= PageSize
    BY <2>1, PagesLong
  <2> QED BY <2>2, <2>3, PageFacts
<1>2. PICK list : list = <<Piece(Address(p) + HeapOffset, n * PageSize - HeapOffset)>>
  OBVIOUS
<1>3. list \in Seq(Pieces)
  <2>1. Piece(Address(p) + HeapOffset, n * PageSize - HeapOffset) \in Pieces
    BY <1>1 DEF Piece, Pieces
  <2> QED BY <2>1, <1>2
<1>4. v = [hdr[p] EXCEPT !.kind = "heap", !.size = n, !.base = p, !.list = list]
  BY <1>2 DEF SimpleHeap
<1>5. hdr[p] \in HeaderType /\ n \in 0..NumPages /\ p \in 0..NumPages
  BY PageIs
<1>6. /\ v \in HeaderType /\ v.kind = "heap" /\ v.size = n /\ v.base = p /\ v.list = list
      /\ v.expand = hdr[p].expand /\ v.max = hdr[p].max /\ v.space = hdr[p].space
  BY ONLY <1>3, <1>4, <1>5 DEF HeaderType, Kind
<1> QED BY <1>2, <1>6

(* The headers of a new space and of a new stack.                          *)
LEMMA FreshOther ==
  ASSUME NEW p \in Page, NEW n \in 1..NumPages
  PROVE  /\ SimpleSpace(n) \in HeaderType /\ SimpleSpace(n).kind = "space" /\ SimpleSpace(n).size = n /\ SimpleSpace(n).expand = <<>>
         /\ SimpleStack(p, n) \in HeaderType /\ SimpleStack(p, n).kind = "stack" /\ SimpleStack(p, n).size = n
         /\ SimpleStack(p, n).expand = <<>> /\ SimpleStack(p, n).list = <<>> /\ SimpleStack(p, n).next = Address(p) + PageSize
<1>1. <<>> \in Seq(Pieces) /\ <<>> \in Seq(Page)
  OBVIOUS
<1>2. Address(p) + PageSize \in Nat /\ n \in 0..NumPages
  <2>1. Address(p) \in Nat /\ n \in Nat
    BY PageIs, Addresses
  <2> QED BY <2>1, PageFacts
<1>3. NoPage \in 0..NumPages /\ 0 \in Nat
  BY PageIs
<1>4. SimpleSpace(n) \in HeaderType
  BY ONLY <1>1, <1>2, <1>3 DEF SimpleSpace, Header, HeaderType, Kind
<1>5. SimpleStack(p, n) = [Header("stack", n, <<>>) EXCEPT !.next = Address(p) + PageSize] /\ Header("stack", n, <<>>) \in HeaderType
  BY ONLY <1>1, <1>2, <1>3 DEF SimpleStack, Header, HeaderType, Kind
<1>6. SimpleStack(p, n) \in HeaderType
  BY ONLY <1>2, <1>5 DEF HeaderType
<1>7. /\ SimpleStack(p, n).kind = "stack" /\ SimpleStack(p, n).size = n
      /\ SimpleStack(p, n).expand = <<>> /\ SimpleStack(p, n).list = <<>> /\ SimpleStack(p, n).next = Address(p) + PageSize
  BY DEF SimpleStack, Header
<1> QED BY <1>4, <1>6, <1>7 DEF SimpleSpace, Header

(* The header of any new simple heap, stack or space.                      *)
LEMMA FreshNew ==
  ASSUME hdr \in [Page -> HeaderType], NEW p \in Page, NEW n \in 1..NumPages,
         NEW kind \in {"heap", "stack", "space"}, NEW v, v = NewHeader(kind, p, n)
  PROVE  /\ v \in HeaderType /\ v.kind = kind /\ v.size = n
         /\ v.kind = "heap" => v.list = <<Piece(Address(p) + HeapOffset, n * PageSize - HeapOffset)>>
         /\ v.kind = "stack" => v.list = <<>> /\ v.next = Address(p) + PageSize
         /\ v.expand \in {hdr[p].expand, <<>>}
<1>1. CASE kind = "heap"
  <2>1. v = SimpleHeap(p, n)
    BY <1>1 DEF NewHeader
  <2>2. /\ v \in HeaderType /\ v.kind = "heap" /\ v.size = n /\ v.expand = hdr[p].expand
        /\ v.list = <<Piece(Address(p) + HeapOffset, n * PageSize - HeapOffset)>>
    BY <2>1, FreshHeap
  <2> QED BY <2>2, <1>1
<1>2. CASE kind = "stack"
  <2>1. v = SimpleStack(p, n)
    BY <1>2 DEF NewHeader
  <2> QED BY <2>1, <1>2, FreshOther
<1>3. CASE kind = "space"
  <2>1. v = SimpleSpace(n)
    BY <1>3 DEF NewHeader
  <2> QED BY <2>1, <1>3, FreshOther
<1> QED BY <1>1, <1>2, <1>3

(* SASSimpleHeapCreate and the like.                                       *)
LEMMA CreateCall ==
  ASSUME MemInv, pc' = pc, call' = call, NEW t,
         NEW kind \in {"heap", "stack", "space"}, NEW n \in use.pages, Create(t, kind, n)
  PROVE  MemInv'
<1>0. /\ MemGood(hdr, blocks, live, owned, Freed) /\ hdr \in [Page -> HeaderType]
      /\ blocks \in [Page -> 0..NumPages] /\ live \in SUBSET Page /\ owned \in SUBSET Pieces
  BY MemTyped DEF MemInv
<1>1. n \in 1..NumPages /\ n \in Nat /\ n >= 1
  BY UseFacts, PageIs DEF MemInv
<1>2. use' = use /\ owned' = owned
  BY DEF Create, Call
<1>3. PICK p : p = LowestBlock(n)
  OBVIOUS
<1>4. CASE p = NoPage
  BY <1>2, <1>3, <1>4, NothingMoves DEF Create
<1>5. CASE p # NoPage
  <2>1. PICK v : v = NewHeader(kind, p, n)
    OBVIOUS
  <2>2. hdr' = [hdr EXCEPT ![p] = v] /\ blocks' = [blocks EXCEPT ![p] = n] /\ live' = live \cup {p}
    BY <1>3, <1>5, <2>1 DEF Create
  <2>3. FreeAt(blocks, p, n) /\ p \in Page /\ p % n = 0
    BY <1>0, <1>1, <1>3, <1>5, LowestGives DEF FreeAt
  <2>4. /\ v \in HeaderType /\ v.kind = kind /\ v.size = n
        /\ v.kind = "heap" => v.list = <<Piece(Address(p) + HeapOffset, n * PageSize - HeapOffset)>>
        /\ v.kind = "stack" => v.list = <<>> /\ v.next = Address(p) + PageSize
        /\ v.expand \in {hdr[p].expand, <<>>}
    BY <1>0, <1>1, <2>1, <2>3, FreshNew
  <2>5. /\ hdr' \in [Page -> HeaderType] /\ hdr'[p] = v /\ \A q \in Page : q # p => hdr'[q] = hdr[q]
        /\ blocks' \in [Page -> 0..NumPages] /\ blocks'[p] = n /\ \A q \in Page : q # p => blocks'[q] = blocks[q]
    BY <1>0, <1>1, <2>2, <2>3, <2>4
  <2>6. MemGood(hdr', blocks', live, owned, Freed) /\ Unused(hdr', blocks', live, owned, Freed, p, n)
    BY ONLY <1>0, <2>3, <2>5, BlockMade
  <2>7. In(hdr', owned, p) = {}
    <3>1. ASSUME NEW x, x \in In(hdr', owned, p) PROVE FALSE
      <4>1. x \in owned /\ p <= PageOf(x.at) /\ PageOf(x.at) < p + n
        BY <1>0, <2>3, <2>4, <2>5, <3>1, InPages
      <4> QED BY <4>1, <2>6 DEF Unused
    <3> QED BY <3>1
  <2>8. SimpleGood(hdr', owned, p)
    <3>1. hdr'[p].size = n
      BY <2>4, <2>5
    <3>2. hdr'[p].kind = "heap" => hdr'[p].list = <<Piece(Address(p) + HeapOffset, n * PageSize - HeapOffset)>>
      BY <2>4, <2>5
    <3>3. hdr'[p].kind = "stack" => hdr'[p].list = <<>> /\ hdr'[p].next = Address(p) + PageSize
      BY <2>4, <2>5
    <3> QED BY ONLY <3>1, <3>2, <3>3, <1>1, <2>3, <2>5, <2>7, NewGood
  <2>9. MemGood(hdr', blocks', live', owned', Freed)
    <3>1. hdr'[p].size = n /\ hdr'[p].kind \notin {"none", "queue"} /\ hdr'[p].kind # "compound"
      BY <2>4, <2>5
    <3>2. MemGood(hdr', blocks', live \cup {p}, owned, Freed)
      BY ONLY <2>6, <2>8, <3>1, LiveAdded
    <3> QED BY <3>2, <1>2, <2>2
  <2>10. Grown(hdr, live, Freed, hdr', live')
    <3>1. live \subseteq live'
      BY <2>2
    <3> QED BY ONLY <3>1, <1>0, <2>3, <2>5, BlockGrown
  <2>11. NearInv' /\ ExpandInv'
    <3>1. NearInv'
      BY <1>2, <2>3, <2>4, <2>5 DEF MemInv, NearInv
    <3>2. ExpandInv'
      BY <1>2, <2>3, <2>4, <2>5 DEF MemInv, ExpandInv
    <3> QED BY <3>1, <3>2
  <2> QED BY <1>2, <2>9, <2>10, <2>11, GrownKeeps, RestStep
<1> QED BY <1>4, <1>5

(* Every call on simple heaps, stacks and spaces.                          *)
LEMMA SimpleCalls ==
  ASSUME MemInv, SafeUses, pc' = pc, call' = call, NEW t, SOps(t)
  PROVE  MemInv'
<1>1. CASE \E kind \in {"heap", "stack", "space"}, n \in use.pages : Create(t, kind, n)
  BY <1>1, CreateCall
<1>2. ASSUME NEW p \in live, DestroySimple(t, p) PROVE MemInv'
  BY <1>2, DestroyCall
<1>3. ASSUME NEW p \in live, NEW n \in use.sizes, HeapAlloc(t, p, n) \/ StackAlloc(t, p, n) PROVE MemInv'
  BY <1>3, PieceCalls
<1>4. ASSUME NEW p \in live, NEW x \in PiecesIn(p), NEW n \in use.sizes, HeapFree(t, p, x, n) PROVE MemInv'
  BY <1>4, PieceCalls
<1>5. ASSUME NEW p \in live, NEW x \in PiecesIn(p), StackDealloc(t, p, x) PROVE MemInv'
  BY <1>5, PopCall
<1>6. ASSUME NEW x \in owned, NEW n \in use.sizes, NearAlloc(t, x, n) \/ NearDealloc(t, x, n) \/ StackNearAlloc(t, x, n)
      PROVE MemInv'
  BY <1>6, NearCalls
<1> QED BY <1>1, <1>2, <1>3, <1>4, <1>5, <1>6 DEF SOps

(* A block that is free has no length.                                     *)
LEMMA FreeIsNew ==
  ASSUME MemInv, NEW p, NEW n, FreeAt(blocks, p, n)
  PROVE  p \in Page /\ blocks[p] = 0 /\ ~ (blocks[p] > 0)
<1>1. p \in Page /\ p \in Nat /\ n \in Nat /\ n >= 1 /\ blocks \in [Page -> 0..NumPages]
  BY MemTyped, PageIs DEF FreeAt, MemInv
<1>2. blocks[p] > 0 => p + blocks[p] <= p \/ p + n <= p
  BY <1>1 DEF FreeAt
<1>3. blocks[p] \in Nat
  BY <1>1, PageIs
<1> QED BY <1>1, <1>2, <1>3

(* A compound heap, or a further part of one. *)
LEMMA FreshCompound ==
  ASSUME hdr \in [Page -> HeaderType], NEW p \in Page, NEW n \in 1..NumPages, n > 1, NEW v, v = CompoundBlock(p, n)
  PROVE  /\ v \in HeaderType /\ v.kind = "compound" /\ v.size = n /\ v.base = p
         /\ GoodList(v.list) /\ Split(v.list, {}, Address(p) + PageSize, Address(p) + n * PageSize)
         /\ v.expand = hdr[p].expand /\ v.max = hdr[p].max /\ v.space = hdr[p].space /\ v.list # <<>>
<1>1. PICK list : list = <<Piece(Address(p) + PageSize, (n - 1) * PageSize)>>
  OBVIOUS
<1>2. v = [hdr[p] EXCEPT !.kind = "compound", !.size = n, !.base = p, !.list = list]
  BY <1>1 DEF CompoundBlock
<1>3. PICK k \in Nat : k = n - 1 /\ k >= 1
  BY PageIs
<1>4. PICK m \in Nat : m = k * PageSize /\ m > 0 /\ m % NodeAlign = 0
  <2>1. k * PageSize \in Nat /\ k * PageSize >= PageSize /\ (k * PageSize) % NodeAlign = 0
    BY <1>3, PagesLong
  <2> QED BY <2>1, PageFacts
<1>5. PICK at \in Nat : at = Address(p) + PageSize
  <2>1. Address(p) \in Nat
    BY PageIs, Addresses
  <2> QED BY <2>1, PageFacts
<1>6. Address(p) + n * PageSize = at + m
  <2>1. n * PageSize = k * PageSize + PageSize
    <3>1. n = k + 1
      BY <1>3
    <3> QED BY ONLY <3>1, k \in Nat, PageFacts
  <2>2. Address(p) \in Nat
    BY PageIs, Addresses
  <2> QED BY <2>1, <2>2, <1>4, <1>5, PageFacts
<1>7. list = <<Piece(at, m)>>
  BY <1>1, <1>3, <1>4, <1>5
<1>8. GoodList(list) /\ Split(list, {}, at, at + m)
  BY <1>4, <1>5, <1>7, SplitNew
<1>9. list \in Seq(Pieces)
  BY <1>8, ListFacts
<1>10. hdr[p] \in HeaderType /\ n \in 0..NumPages /\ p \in 0..NumPages
  BY PageIs
<1>11. /\ v \in HeaderType /\ v.kind = "compound" /\ v.size = n /\ v.base = p /\ v.list = list
       /\ v.expand = hdr[p].expand /\ v.max = hdr[p].max /\ v.space = hdr[p].space
  BY ONLY <1>2, <1>9, <1>10 DEF HeaderType, Kind
<1>12. list # <<>>
  BY <1>1
<1> QED BY <1>5, <1>6, <1>8, <1>11, <1>12

(* The header of a new compound heap.                                      *)
LEMMA FreshFirst ==
  ASSUME hdr \in [Page -> HeaderType], NEW p \in Page, NEW n \in 1..NumPages, n > 1, NEW v, v = FirstPart(p, n)
  PROVE  /\ v \in HeaderType /\ v.kind = "compound" /\ v.size = n /\ v.base = p
         /\ GoodList(v.list) /\ Split(v.list, {}, Address(p) + PageSize, Address(p) + n * PageSize)
         /\ v.expand = <<p>> /\ v.max = ListMax /\ ListMax # SpaceMax
<1>1. PICK w : w = CompoundBlock(p, n)
  OBVIOUS
<1>2. /\ w \in HeaderType /\ w.kind = "compound" /\ w.size = n /\ w.base = p
      /\ GoodList(w.list) /\ Split(w.list, {}, Address(p) + PageSize, Address(p) + n * PageSize)
  BY ONLY <1>1, FreshCompound, hdr \in [Page -> HeaderType], p \in Page, n \in 1..NumPages, n > 1
<1>3. v = [w EXCEPT !.expand = <<p>>, !.max = ListMax]
  BY <1>1 DEF FirstPart
<1>4. <<p>> \in Seq(Page) /\ ListMax \in Nat /\ ListMax # SpaceMax
  BY CompoundAssumption
<1>5. /\ v \in HeaderType /\ v.kind = w.kind /\ v.size = w.size /\ v.base = w.base /\ v.list = w.list
      /\ v.expand = <<p>> /\ v.max = ListMax
  BY ONLY <1>2, <1>3, <1>4 DEF HeaderType
<1> QED BY <1>2, <1>4, <1>5

(* SASCompoundHeapCreate, of a heap that expands or not.                   *)
LEMMA CreateCompoundCall ==
  ASSUME MemInv, BlocksInv, SafeUses, NEW t, NEW expanding \in BOOLEAN, NEW n \in use.pages, CreateCompound(t, expanding, n)
  PROVE  MemInv'
<1>0. /\ MemGood(hdr, blocks, live, owned, Freed) /\ hdr \in [Page -> HeaderType]
      /\ blocks \in [Page -> 0..NumPages] /\ live \in SUBSET Page /\ owned \in SUBSET Pieces
  BY MemTyped DEF MemInv
<1>1. n \in 1..NumPages /\ n \in Nat /\ n >= 1 /\ n > 1
  BY UseFacts, PageIs DEF MemInv, CreateCompound
<1>2. use' = use /\ owned' = owned /\ pc' = pc /\ call' = call
  BY DEF CreateCompound, Call
<1>3. PICK p : p = LowestBlock(n)
  OBVIOUS
<1>4. CASE p = NoPage
  BY <1>2, <1>3, <1>4, NothingMoves DEF CreateCompound
<1>5. CASE p # NoPage
  <2>1. PICK v : v = IF expanding THEN FirstPart(p, n) ELSE CompoundBlock(p, n)
    OBVIOUS
  <2>2. /\ hdr' = [hdr EXCEPT ![p] = v] /\ blocks' = [blocks EXCEPT ![p] = n] /\ live' = live \cup {p}
        /\ v = FirstPart(p, n) \/ v = CompoundBlock(p, n)
    BY <1>3, <1>5, <2>1 DEF CreateCompound
  <2>3. FreeAt(blocks, p, n) /\ p \in Page
    BY <1>0, <1>1, <1>3, <1>5, LowestGives DEF FreeAt
  <2>3a. hdr[p].expand = <<>>
    BY <2>3, FreeIsNew DEF BlocksInv, HeaderGood
  <2>4. /\ v \in HeaderType /\ v.kind = "compound" /\ v.size = n /\ v.base = p
        /\ GoodList(v.list) /\ Split(v.list, {}, Address(p) + PageSize, Address(p) + n * PageSize)
        /\ (IF v.expand = <<>> THEN <<p>> ELSE v.expand) = <<p>> /\ ~ (v.expand # <<>> /\ v.max = SpaceMax)
    <3>1. CASE v = FirstPart(p, n)
      <4>1. /\ v \in HeaderType /\ v.kind = "compound" /\ v.size = n /\ v.base = p
            /\ GoodList(v.list) /\ Split(v.list, {}, Address(p) + PageSize, Address(p) + n * PageSize)
            /\ v.expand = <<p>> /\ v.max = ListMax /\ ListMax # SpaceMax
        BY ONLY <3>1, <1>0, <1>1, <2>3, FreshFirst
      <4> QED BY <4>1
    <3>2. CASE v = CompoundBlock(p, n)
      <4>1. /\ v \in HeaderType /\ v.kind = "compound" /\ v.size = n /\ v.base = p
            /\ GoodList(v.list) /\ Split(v.list, {}, Address(p) + PageSize, Address(p) + n * PageSize)
            /\ v.expand = hdr[p].expand
        BY ONLY <3>2, <1>0, <1>1, <2>3, FreshCompound
      <4> QED BY <4>1, <2>3a
    <3> QED BY <3>1, <3>2, <2>2
  <2>5. /\ hdr' \in [Page -> HeaderType] /\ hdr'[p] = v /\ \A q \in Page : q # p => hdr'[q] = hdr[q]
        /\ blocks' \in [Page -> 0..NumPages] /\ blocks'[p] = n /\ \A q \in Page : q # p => blocks'[q] = blocks[q]
    BY <1>0, <1>1, <2>2, <2>3, <2>4
  <2>6. MemGood(hdr', blocks', live, owned, Freed) /\ Unused(hdr', blocks', live, owned, Freed, p, n)
    BY ONLY <1>0, <2>3, <2>5, BlockMade
  <2>7. PartGood(hdr', blocks', live, Freed, p, p)
    <3>1. GivenIn(hdr', blocks', live, Freed, p) = {}
      <4>1. ASSUME NEW q \in GivenIn(hdr', blocks', live, Freed, p) PROVE FALSE
        <5>1. q \in Given(hdr', blocks', live, Freed) /\ q > p /\ q < p + n
          BY <4>1, <2>4, <2>5 DEF GivenIn, Inside
        <5>2. q \in Nat /\ p \in Nat
          BY <5>1, <2>6, GivenFacts, PageIs, <2>3
        <5> QED BY <5>1, <5>2, <2>6 DEF Unused
      <4> QED BY <4>1
    <3>2. PagePieces(GivenIn(hdr', blocks', live, Freed, p)) = {}
      BY <3>1 DEF PagePieces
    <3>3. EndOf(hdr', p) = Address(p) + n * PageSize
      BY <2>4, <2>5 DEF EndOf
    <3> QED BY <3>2, <3>3, <2>4, <2>5, <1>1 DEF PartGood
  <2>8. MemGood(hdr', blocks', live', owned', Freed)
    <3>1. hdr'[p].size = n /\ hdr'[p].kind \notin {"none", "queue"}
      BY <2>4, <2>5
    <3>2. SimpleGood(hdr', owned, p)
      BY <2>4, <2>5 DEF SimpleGood
    <3>3. Parts(hdr', p) = <<p>> /\ ~ Moved(hdr', p)
      BY <2>4, <2>5 DEF Parts, Moved
    <3>4. MemGood(hdr', blocks', live \cup {p}, owned, Freed)
      BY ONLY <2>6, <2>7, <3>1, <3>2, <3>3, LiveAdded
    <3> QED BY <3>4, <1>2, <2>2
  <2>9. Grown(hdr, live, Freed, hdr', live')
    <3>1. live \subseteq live'
      BY <2>2
    <3> QED BY ONLY <3>1, <1>0, <2>3, <2>5, BlockGrown
  <2>10. NearInv'
    <3>1. "near" \notin use.ops
      <4>1. "expanding" \in use.ops \/ "fixed" \in use.ops
        BY DEF CreateCompound, Call
      <4> QED BY <4>1 DEF SafeUses, MemInv, StateType
    <3> QED BY <3>1, <1>2 DEF NearInv
  <2>11. ExpandInv'
    <3>1. ASSUME "expanding" \notin use.ops PROVE \A q \in Page : hdr'[q].expand = <<>>
      <4>1. ~ expanding
        BY <3>1 DEF CreateCompound, Call
      <4>2. v = CompoundBlock(p, n)
        BY <2>1, <4>1
      <4>3. v.expand = hdr[p].expand
        BY <4>2, <1>0, <1>1, <2>3, FreshCompound
      <4> QED BY <3>1, <4>3, <2>3, <2>5 DEF MemInv, ExpandInv
    <3> QED BY <3>1, <1>2 DEF ExpandInv
  <2> QED BY <1>2, <2>8, <2>9, <2>10, <2>11, GrownKeeps, RestStep
<1> QED BY <1>4, <1>5

(* A compound heap goes, with what is its own. *)
LEMMA DestroyCompoundCall ==
  ASSUME MemInv, BlocksInv, NEW t, NEW p, DestroyCompound(t, p)
  PROVE  MemInv'
<1>0. /\ MemGood(hdr, blocks, live, owned, Freed) /\ hdr \in [Page -> HeaderType]
      /\ blocks \in [Page -> 0..NumPages] /\ live \in SUBSET Page /\ owned \in SUBSET Pieces
  BY MemTyped DEF MemInv
<1>1. use' = use /\ pc' = pc /\ call' = call /\ p \in Heaps /\ ~ Busy(p)
  BY DEF DestroyCompound, Call
<1>2. p \in Compounds(hdr, live) /\ p \in live /\ hdr[p].kind = "compound"
  BY <1>1 DEF Heaps, Compounds
<1>3. PICK parts : parts = {Parts(hdr, p)[i] : i \in DOMAIN Parts(hdr, p)}
  OBVIOUS
<1>4. PICK pages : pages = {q \in Pages : hdr[q].base \in parts}
  OBVIOUS
<1>5. PICK S : S = {s \in {hdr[p].space} \ {NoPage} : IsExpanding(p) /\ hdr[s].kind = "space"}
  OBVIOUS
<1>6. /\ blocks' = [q \in Page |-> IF q \in parts \cup S THEN 0 ELSE blocks[q]]
      /\ hdr' = [q \in Page |-> IF q \in parts \cup S THEN NoHeader ELSE hdr[q]]
      /\ live' = live \ ({p} \cup pages) /\ owned' = owned \ UNION {PiecesIn(q) : q \in pages}
  BY <1>3, <1>4, <1>5 DEF DestroyCompound
<1>7. \A r : r \in parts <=> IsPart(hdr, live, p, r)
  BY <1>2, <1>3 DEF IsPart
<1>8. S = {} \/ (Moved(hdr, p) /\ S = {hdr[p].space})
  <2>1. p \in Page
    BY <1>0, <1>2
  <2>2. hdr[p].space # NoPage => hdr[p].max = SpaceMax
    BY <2>1 DEF BlocksInv, HeaderGood
  <2> QED BY <2>2, <1>5 DEF Moved, IsExpanding
<1>9. \A q : q \in pages <=> q \in live /\ hdr[q].kind \in {"heap", "queue"} /\ blocks[q] = 0 /\ IsPart(hdr, live, p, hdr[q].base)
  BY <1>4, <1>7 DEF Pages
<1>10. \A q \in Freed : hdr[hdr[q].base].base # p
  <2>1. ASSUME NEW q \in Freed PROVE hdr[hdr[q].base].base # p
    <3>1. PICK u \in Thread : Frees(u) /\ q = call[u].page
      BY FreedMembers
    <3>2. CallGood(u) /\ ~ AtRest(u)
      BY <3>1 DEF MemInv, Frees, AtRest
    <3>3. hdr[hdr[q].base].base = call[u].heap
      BY <3>1, <3>2 DEF CallGood
    <3> QED BY <3>3, <1>1 DEF Busy
  <2> QED BY <2>1
<1>11. \A q : q \in live' <=> q \in live /\ q # p /\ ~ (hdr[q].kind \in {"heap", "queue"} /\ blocks[q] = 0 /\ IsPart(hdr, live, p, hdr[q].base))
  BY <1>6, <1>9
<1>12. \A q \in live : q \notin live' /\ hdr[q].kind # "compound" <=> q \in pages
  BY <1>2, <1>6, <1>9
<1>13. \A x : x \in owned' <=> x \in owned /\ \A q \in live : q \notin live' /\ hdr[q].kind # "compound" => x \notin In(hdr, owned, q)
  <2>1. \A x : x \in owned' <=> x \in owned /\ \A q \in pages : x \notin In(hdr, owned, q)
    BY <1>6, PiecesInIs
  <2>2. \A q \in pages : q \in live
    BY <1>9
  <2> QED BY ONLY <2>1, <2>2, <1>12
<1>14. CompoundGoes(hdr, blocks, live, owned, Freed, p, S, blocks', live', owned')
  <2>1. /\ blocks' \in [Page -> 0..NumPages]
        /\ \A q \in Page : IsPart(hdr, live, p, q) \/ q \in S => blocks'[q] = 0
        /\ \A q \in Page : ~ IsPart(hdr, live, p, q) /\ q \notin S => blocks'[q] = blocks[q]
    BY <1>0, <1>6, <1>7, PageIs
  <2> QED BY ONLY <2>1, <1>2, <1>8, <1>10, <1>11, <1>13 DEF CompoundGoes
<1>15. /\ MemGood(hdr, blocks', live', owned', Freed) /\ Compounds(hdr, live') = Compounds(hdr, live) \ {p}
  BY ONLY <1>0, <1>14, GoneCompound
<1>15a. ASSUME NEW q \in Page, q \in parts \cup S PROVE blocks'[q] = 0 /\ q \notin live' /\ q \notin Freed
  <2>1. blocks'[q] = 0
    BY <1>6, <1>15a
  <2>2. q \notin Freed /\ (q \in live => q = p)
    <3>1. CASE q \in parts
      <4>1. hdr[q].kind = "compound" /\ IsPart(hdr, live, p, q)
        BY <3>1, <1>0, <1>7, PartFacts
      <4>2. q \notin Freed
        <5>1. ASSUME q \in Freed PROVE FALSE
          <6>1. q \in Given(hdr, blocks, live, Freed)
            BY <5>1 DEF Given
          <6> QED BY <6>1, <4>1, <1>0, GivenFacts
        <5> QED BY <5>1
      <4>3. q \in live => q = p
        BY <4>1, <1>0, LivePart
      <4> QED BY <4>2, <4>3
    <3>2. CASE q \in S
      <4>1. SpaceGood(hdr, blocks, live, q)
        BY <3>2, <1>0, <1>2, <1>8 DEF MemGood, CompoundGood
      <4>2. q \notin Freed
        <5>1. ASSUME q \in Freed PROVE FALSE
          <6>1. q \in Given(hdr, blocks, live, Freed)
            BY <5>1 DEF Given
          <6>2. blocks[q] = 0
            BY <6>1, <1>0, GivenFacts
          <6> QED BY <6>2, <4>1 DEF SpaceGood
        <5> QED BY <5>1
      <4> QED BY <4>1, <4>2 DEF SpaceGood
    <3> QED BY <3>1, <3>2, <1>15a
  <2> QED BY <2>1, <2>2, <1>6
<1>15b. /\ hdr' \in [Page -> HeaderType] /\ \A q \in Page : hdr'[q] = hdr[q] \/ hdr'[q] = NoHeader
        /\ \A q \in Page : hdr'[q] = hdr[q] \/ (blocks'[q] = 0 /\ q \notin live' /\ q \notin Freed)
  <2>1. \A q \in Page : q \in parts \cup S => blocks'[q] = 0 /\ q \notin live' /\ q \notin Freed
    BY <1>15a
  <2> QED BY ONLY <2>1, <1>0, <1>6, NoHeaderTyped
<1>18. /\ MemGood(hdr', blocks', live', owned', Freed) /\ \A c \in Compounds(hdr, live') : hdr'[c] = hdr[c]
       /\ \A q \in Given(hdr, blocks', live', Freed) : hdr'[q] = hdr[q] /\ hdr'[hdr[q].base] = hdr[hdr[q].base]
  BY ONLY <1>15, <1>15b, HeadersCleared
<1>16. \A u \in Thread : ~ AtRest(u) => HeapKept(hdr, live, hdr', live', call[u].heap)
  <2>1. ASSUME NEW u \in Thread, ~ AtRest(u) PROVE HeapKept(hdr, live, hdr', live', call[u].heap)
    <3>1. call[u].heap \in Compounds(hdr, live) /\ call[u].heap # p
      BY <2>1, <1>1 DEF MemInv, CallGood, Heaps, Compounds, Busy
    <3>2. call[u].heap \in Compounds(hdr, live')
      BY <3>1, <1>15
    <3>3. hdr'[call[u].heap] = hdr[call[u].heap] /\ call[u].heap \in live'
      BY <3>2, <1>18 DEF Compounds
    <3> QED BY <3>1, <3>3, <1>0, KeptWhenSame
  <2> QED BY <2>1
<1>17. NearInv' /\ ExpandInv'
  <2>1. NoHeader.kind = "none" /\ NoHeader.expand = <<>>
    BY DEF NoHeader, Header
  <2> QED BY ONLY <2>1, <1>15b, <1>1, MemInv DEF MemInv, NearInv, ExpandInv
<1>19. \A u \in Thread : Frees(u) => HeapOf(hdr', call[u].page) = HeapOf(hdr, call[u].page)
  <2>1. ASSUME NEW u \in Thread, Frees(u) PROVE HeapOf(hdr', call[u].page) = HeapOf(hdr, call[u].page)
    <3>1. call[u].page \in Given(hdr, blocks', live', Freed)
      BY <2>1, FreedMembers DEF Given
    <3> QED BY <3>1, <1>18 DEF HeapOf
  <2> QED BY <2>1
<1> QED BY ONLY <1>1, <1>16, <1>17, <1>18, <1>19, RestStep, MemInv
=============================================================================

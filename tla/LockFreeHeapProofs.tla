------------------------- MODULE LockFreeHeapProofs -------------------------
(* HeapInv holds of every heap, any number of words, units and threads.    *)
EXTENDS LockFreeHeap, FiniteSetTheorems, TLAPS

USE HeapAssumption DEF HeapAssumption, Word, Unit

(* The last unit of a piece is one of its units.                           *)
LEMMA LastInRun ==
  ASSUME NEW e, e.at \in Nat, e.units \in 1..Bits
  PROVE  /\ Last(e) \in Int
         /\ Last(e) \in Run(e)
         /\ e.at \in Run(e)
         /\ \A i \in Run(e) : i \in Int /\ e.at <= i /\ i <= Last(e)
  BY DEF Last, Run, Span

(* The least element of a set of offsets, if it is known.                  *)
LEMMA FirstIs ==
  ASSUME NEW set, NEW x \in set, \A y \in set : y \in Int /\ x <= y, x \in Int
  PROVE  First(set) = x
  <1>1. \A z \in set : (\A y \in set : z <= y) => z = x
    OBVIOUS
  <1> QED BY <1>1 DEF First

(* A run that the search finds is free in the copy it searched.            *)
LEMMA FitsFacts ==
  ASSUME NEW msk, NEW n, NEW a, NEW i \in Least(Fits(msk, n, a))
  PROVE  i \in Unit /\ Span(i, n) \subseteq msk
  BY DEF Least, Fits, Tried, Covers

(* Pieces with a unit in common are one piece.                             *)
LEMMA SharedUnit ==
  ASSUME NEW e, NEW f, Apart(e, f), e.word = f.word, NEW i \in Run(e)
  PROVE  i \notin Run(f)
  BY DEF Apart

(* The end marks from the start of a piece that is marked: the first is    *)
(* that of the piece itself.                                               *)
LEMMA FirstEnd ==
  ASSUME HeapInv, NEW t \in Thread, Marked(t)
  PROVE  /\ EndsFrom(endmrk_vec[word[t]], at[t]) # {}
         /\ UnitsTo(endmrk_vec[word[t]], at[t]) = units[t]
  <1> DEFINE h == Held(t)
             ends == EndsFrom(endmrk_vec[word[t]], at[t])
  <1>1. /\ Taken(h, alloc_vec) /\ h \in Piece /\ h.word = word[t] /\ h.at = at[t] /\ h.units = units[t]
        /\ word[t] \in Word /\ at[t] \in Unit /\ units[t] \in 1..Bits
        /\ endmrk_vec[word[t]] \subseteq Unit
    BY DEF HeapInv, TypeOK, Disjoint, Marked, Holds, Held, Taken, Piece
  <1>2. /\ Last(h) \in Int /\ Last(h) = at[t] + units[t] - 1
        /\ \A i \in Run(h) : i \in Int /\ at[t] <= i /\ i <= Last(h)
        /\ \A i \in Int : at[t] <= i /\ i <= Last(h) => i \in Run(h)
    BY <1>1 DEF Last, Run, Span
  <1>3. Last(h) \in ends
    BY <1>1, <1>2 DEF HeapInv, EndMarks, EndsFrom
  <1>4. ASSUME NEW i \in ends
        PROVE  i \in Int /\ Last(h) <= i
    <2>1. i \in Int /\ at[t] <= i /\ i \in endmrk_vec[word[t]]
      BY <1>1 DEF EndsFrom
    <2>2. CASE \E e \in owned : e.word = word[t] /\ Last(e) = i
      <3>1. PICK e \in owned : e.word = word[t] /\ Last(e) = i
        BY <2>2
      <3>2. e \in Piece /\ Apart(h, e)
        BY DEF HeapInv, Disjoint, Taken, Marked, Holds
      <3>3. i \in Run(e)
        BY <3>1, <3>2, LastInRun DEF Piece
      <3> QED BY <1>1, <1>2, <2>1, <3>1, <3>2, <3>3 DEF Apart
    <2>3. CASE \E u \in Thread : Marked(u) /\ word[u] = word[t] /\ Last(Held(u)) = i
      <3>1. PICK u \in Thread : Marked(u) /\ word[u] = word[t] /\ Last(Held(u)) = i
        BY <2>3
      <3>2. CASE u = t
        BY <2>1, <3>1, <3>2
      <3>3. CASE u # t
        <4>1. Held(u) \in Piece /\ Apart(h, Held(u)) /\ Held(u).word = word[t]
          BY <3>1, <3>3 DEF HeapInv, Disjoint, Taken, Marked, Holds, Held
        <4>2. i \in Run(Held(u))
          BY <3>1, <4>1, LastInRun DEF Piece
        <4> QED BY <1>1, <1>2, <2>1, <4>1, <4>2 DEF Apart
      <3> QED BY <3>2, <3>3
    <2> QED BY <1>1, <2>1, <2>2, <2>3 DEF HeapInv, EndMarks
  <1>5. First(ends) = Last(h)
    BY <1>2, <1>3, <1>4, FirstIs
  <1> QED BY <1>1, <1>2, <1>3, <1>5 DEF UnitsTo

-----------------------------------------------------------------------------
(* No unit is lost: it is free, part of the header or of a piece, or in    *)
(* the hands of a call that allocates or frees it.                         *)
Accounted ==
  \A w \in Word, i \in Unit :
    \/ i \in alloc_vec[w] \cup HeaderUnit(w)
    \/ \E e \in owned : e.word = w /\ i \in Run(e)
    \/ \E t \in Thread : Holds(t) /\ word[t] = w /\ i \in Run(Held(t))

-----------------------------------------------------------------------------
(* Nothing is known of the locals of a thread but their types, Locals(t)   *)
(* and what it holds: a step of t leaves that of others alone.             *)
Quiet(t) ==
  /\ UNCHANGED <<alloc_vec, endmrk_vec, owned>>
  /\ \A u \in Thread \ {t} : pc'[u] = pc[u] /\ word'[u] = word[u] /\ units'[u] = units[u]
                             /\ at'[u] = at[u] /\ cur_msk'[u] = cur_msk[u]
  /\ Holds(t)' = Holds(t) /\ Marked(t)' = Marked(t)
  /\ Holds(t) => Held(t)' = Held(t)

LEMMA QuietStep ==
  ASSUME HeapInv, NEW t \in Thread, Quiet(t), TypeOK', Locals(t)', pc'[t] # "refused"
  PROVE  HeapInv' /\ (Accounted => Accounted')
  <1>1. \A u \in Thread : /\ Holds(u)' = Holds(u) /\ Marked(u)' = Marked(u)
                          /\ Holds(u) => Held(u)' = Held(u)
    BY DEF Quiet, Holds, Marked, Held
  <1>2. \A e : Taken(e, alloc_vec') <=> Taken(e, alloc_vec)
    BY DEF Quiet, Taken, HeaderUnit
  <1>3. \A e, f : Apart(e, f)' <=> Apart(e, f)
    BY DEF Apart
  <1>4. Disjoint'
    BY <1>1, <1>2, <1>3 DEF HeapInv, Disjoint, Quiet, HeaderUnit
  <1>5. \A u \in Thread : Marked(u) => Holds(u) /\ word[u] = Held(u).word
    BY DEF Marked, Holds, Held
  <1>6. \A u \in Thread : Marked(u) => word'[u] = word[u] /\ Last(Held(u))' = Last(Held(u))
    BY <1>1, <1>5 DEF Held, Last
  <1>7. EndMarks'
    BY <1>1, <1>6 DEF HeapInv, EndMarks, Quiet, Last
  <1>8. \A u \in Thread : Locals(u)' /\ pc'[u] # "refused"
    BY DEF HeapInv, Locals, Quiet
  <1>9. Accounted => Accounted'
    <2>1. \A u \in Thread : Holds(u) => word'[u] = word[u] /\ Run(Held(u))' = Run(Held(u))
      BY <1>1 DEF Held, Run
    <2> QED BY <1>1, <2>1 DEF Accounted, Quiet, HeaderUnit, Run
  <1> QED BY <1>4, <1>7, <1>8, <1>9 DEF HeapInv

-----------------------------------------------------------------------------
USE DEF AllocPc, FreePc

LEMMA InitInv == Init => HeapInv
  <1> SUFFICES ASSUME Init PROVE HeapInv
    OBVIOUS
  <1>1. TypeOK
    BY DEF Init, TypeOK, NoRequest
  <1>2. Disjoint /\ EndMarks
    BY DEF Init, Disjoint, EndMarks, HeaderUnit, Header, Holds, Marked
  <1>3. \A t \in Thread : pc[t] # "refused" /\ Locals(t)
    BY DEF Init, Locals
  <1> QED BY <1>1, <1>2, <1>3 DEF HeapInv

(* The search moves no bit: it finds a run, goes on to the next word or    *)
(* never ends.                                                             *)
LEMMA SearchStep ==
  ASSUME HeapInv, NEW t \in Thread, pc[t] \in {"load", "reload"},
         NEW k \in 0..1, Search(t, alloc_vec[word[t]], k),
         UNCHANGED <<shared, alone>>
  PROVE  HeapInv' /\ (Accounted => Accounted')
  <1> DEFINE msk == alloc_vec[word[t]]
  <1>1. /\ TypeOK /\ word[t] \in Word /\ units[t] \in 1..Bits /\ msk \subseteq Unit
    <2>1. TypeOK /\ word[t] \in Word /\ units[t] >= 1
      BY DEF HeapInv, Locals
    <2> QED BY <2>1 DEF TypeOK
  <1>2. UNCHANGED <<alloc_vec, endmrk_vec, owned, alone>>
    BY DEF shared
  <1>3. ~ Holds(t) /\ ~ Marked(t)
    BY DEF Holds, Marked
  <1>4. CASE /\ \E i \in Least(Fits(msk, units[t], AlignUnits(t))) :
                  at' = [at EXCEPT ![t] = i]
             /\ Goto(t, "swap")
             /\ cur_msk' = [cur_msk EXCEPT ![t] = msk]
             /\ retry_cnt' = [retry_cnt EXCEPT ![t] = k]
             /\ UNCHANGED <<word, units, request>>
    <2>1. PICK i \in Least(Fits(msk, units[t], AlignUnits(t))) :
               /\ at' = [at EXCEPT ![t] = i]
               /\ Goto(t, "swap")
               /\ cur_msk' = [cur_msk EXCEPT ![t] = msk]
               /\ retry_cnt' = [retry_cnt EXCEPT ![t] = k]
               /\ UNCHANGED <<word, units, request>>
      BY <1>4
    <2>2. i \in Unit /\ Span(i, units[t]) \subseteq msk
      BY FitsFacts
    <2>3. TypeOK'
      BY <1>1, <1>2, <2>1, <2>2 DEF TypeOK, Goto
    <2>4. Quiet(t)
      BY <1>1, <1>2, <1>3, <2>1 DEF TypeOK, Quiet, Goto, Holds, Marked
    <2>5. Locals(t)' /\ pc'[t] = "swap"
      BY <1>1, <2>1, <2>2 DEF TypeOK, Locals, Goto, Span
    <2> QED BY <2>3, <2>4, <2>5, QuietStep
  <1>5. CASE Goto(t, "endless") /\ UNCHANGED local
    <2>1. TypeOK'
      BY <1>1, <1>2, <1>5 DEF TypeOK, Goto, local
    <2>2. Quiet(t)
      BY <1>1, <1>2, <1>3, <1>5 DEF TypeOK, Quiet, Goto, local, Holds, Marked
    <2>3. Locals(t)' /\ pc'[t] = "endless"
      BY <1>1, <1>5 DEF TypeOK, Locals, Goto
    <2> QED BY <2>1, <2>2, <2>3, QuietStep
  <1>6. CASE NextWord(t)
    <2>1. TypeOK'
      BY <1>1, <1>2, <1>6 DEF TypeOK, NextWord, Goto
    <2>2. Quiet(t)
      BY <1>1, <1>2, <1>3, <1>6 DEF TypeOK, Quiet, NextWord, Goto, Holds, Marked
    <2>3. Locals(t)' /\ pc'[t] = "word"
      BY <1>1, <1>6 DEF TypeOK, Locals, NextWord, Goto
    <2> QED BY <2>1, <2>2, <2>3, QuietStep
  <1>7. \/ /\ \E i \in Least(Fits(msk, units[t], AlignUnits(t))) :
                at' = [at EXCEPT ![t] = i]
           /\ Goto(t, "swap")
           /\ cur_msk' = [cur_msk EXCEPT ![t] = msk]
           /\ retry_cnt' = [retry_cnt EXCEPT ![t] = k]
           /\ UNCHANGED <<word, units, request>>
        \/ Goto(t, "endless") /\ UNCHANGED local
        \/ NextWord(t)
    BY DEF Search
  <1> QED BY <1>4, <1>5, <1>6, <1>7

(* A size below that of k units rounds up to k units at most.              *)
LEMMA RoundUnitBounds ==
  ASSUME NEW n \in Nat
  PROVE  /\ RoundUnit(n) \in Nat
         /\ n = 0 <=> RoundUnit(n) = 0
         /\ \A k \in Nat : n < k * UnitSize => RoundUnit(n) <= k
  <1>1. UnitSize \in Nat \ {0}
    BY HeapAssumption DEF HeapAssumption
  <1> DEFINE q == (n + UnitSize - 1) \div UnitSize
  <1>2. q \in Nat /\ q * UnitSize <= n + UnitSize - 1 /\ n + UnitSize - 1 < (q + 1) * UnitSize
    BY <1>1
  <1> HIDE DEF q
  <1>3. ASSUME NEW k \in Nat, n < k * UnitSize PROVE q <= k
    <2>1. SUFFICES ASSUME q >= k + 1 PROVE FALSE
      BY <1>2
    <2>2. q * UnitSize >= (k + 1) * UnitSize
      BY <1>1, <1>2, <2>1
    <2> QED BY <1>1, <1>2, <1>3, <2>2
  <1>4. n = 0 <=> q = 0
    BY <1>1, <1>2
  <1> QED BY <1>2, <1>3, <1>4 DEF RoundUnit, q

LEMMA AllocStep ==
  ASSUME HeapInv, NEW t \in Thread, NEW r \in Requests, Alloc(t, r)
  PROVE  HeapInv' /\ (Accounted => Accounted')
  <1>1. /\ TypeOK /\ r \in [size : Nat, align : Nat]
        /\ ~ Refused(r) => RoundUnit(r.size) \in 1..Bits
    <2>1. r \in [size : Nat \ {0}, align : Nat]
      BY HeapAssumption DEF HeapAssumption
    <2>2. ASSUME ~ Refused(r) PROVE RoundUnit(r.size) \in 1..Bits
      <3>1. RoundUnit(r.size) \in 1..MaxUnits
        BY <2>1, <2>2, RoundUnitBounds DEF Refused, TooLarge
      <3> QED BY <3>1, HeapAssumption DEF HeapAssumption
    <2> QED BY <2>1, <2>2 DEF HeapInv
  <1>2. TypeOK'
    <2>1. UNCHANGED <<alloc_vec, endmrk_vec, owned, at, cur_msk, retry_cnt>>
      BY DEF Alloc, shared
    <2>2. pc' \in [Thread -> {"idle", "refused"} \cup AllocPc \cup FreePc]
      BY <1>1 DEF Alloc, TypeOK, Goto
    <2>3. word' \in [Thread -> 0..Words]
      BY <1>1, HeapAssumption DEF Alloc, TypeOK, HeapAssumption
    <2>4. units' \in [Thread -> 0..Bits] /\ request' \in [Thread -> [size : Nat, align : Nat]]
      BY <1>1, HeapAssumption DEF Alloc, TypeOK, HeapAssumption
    <2>5. alone' \in [Thread -> BOOLEAN]
      BY DEF Alloc, Enter
    <2> QED BY <1>1, <2>1, <2>2, <2>3, <2>4, <2>5 DEF TypeOK
  <1>3. Quiet(t)
    BY <1>1 DEF Alloc, Enter, TypeOK, Goto, shared, Quiet, Holds, Marked
  <1>4. Locals(t)' /\ pc'[t] = "word"
    BY <1>1 DEF Alloc, TypeOK, Goto, Locals
  <1> QED BY <1>2, <1>3, <1>4, QuietStep

LEMMA TestWordStep ==
  ASSUME HeapInv, NEW t \in Thread, TestWord(t)
  PROVE  HeapInv' /\ (Accounted => Accounted')
  <1>1. TypeOK /\ word[t] \in Word /\ units[t] \in 1..Bits
    BY DEF HeapInv, TypeOK, TestWord, Locals
  <1>2. TypeOK'
    <2>1. CASE pc' = [pc EXCEPT ![t] = "load"] /\ word' = word
      BY <1>1, <2>1 DEF TestWord, TypeOK, shared
    <2>2. CASE pc' = pc /\ word' = [word EXCEPT ![t] = @ + 1]
      <3>1. word[t] + 1 \in 0..Words
        BY <1>1
      <3>2. word' \in [Thread -> 0..Words]
        BY <1>1, <2>2, <3>1 DEF TypeOK
      <3> QED BY <1>1, <2>2, <3>2 DEF TestWord, TypeOK, shared
    <2> QED BY <2>1, <2>2 DEF TestWord, Goto
  <1>3. Quiet(t)
    BY <1>1 DEF TestWord, TypeOK, Goto, shared, Quiet, Holds, Marked
  <1>4. Locals(t)' /\ pc'[t] # "refused"
    BY <1>1 DEF TestWord, TypeOK, Goto, Locals
  <1> QED BY <1>2, <1>3, <1>4, QuietStep

LEMMA AllocFailsStep ==
  ASSUME HeapInv, NEW t \in Thread, AllocFails(t)
  PROVE  HeapInv' /\ (Accounted => Accounted')
  <1>1. TypeOK
    BY DEF HeapInv
  <1>2. TypeOK'
    BY <1>1 DEF AllocFails, Return, NoRequest, TypeOK, Goto, shared
  <1>3. Quiet(t)
    BY <1>1 DEF AllocFails, Return, TypeOK, Goto, shared, Quiet, Holds, Marked
  <1>4. Locals(t)' /\ pc'[t] # "refused"
    BY <1>1 DEF AllocFails, Return, TypeOK, Goto, Locals
  <1> QED BY <1>2, <1>3, <1>4, QuietStep

LEMMA ReloadStep ==
  ASSUME HeapInv, NEW t \in Thread, Reload(t)
  PROVE  HeapInv' /\ (Accounted => Accounted')
  <1>1. TypeOK /\ word[t] \in Word /\ units[t] \in 1..Bits /\ ~ Holds(t) /\ ~ Marked(t)
    BY DEF HeapInv, TypeOK, Reload, Locals, Holds, Marked
  <1>2. CASE NextWord(t)
    <2>1. TypeOK'
      <3>1. UNCHANGED <<alloc_vec, endmrk_vec, owned, alone, units, request>>
        BY <1>2 DEF Reload, NextWord, shared
      <3>2. word' \in [Thread -> 0..Words]
        <4>1. word[t] + 1 \in 0..Words
          BY <1>1, HeapAssumption DEF Word, HeapAssumption
        <4> QED BY <1>1, <1>2, <4>1 DEF TypeOK, NextWord
      <3>3. pc' \in [Thread -> {"idle", "refused"} \cup AllocPc \cup FreePc]
        BY <1>1, <1>2 DEF TypeOK, NextWord, Goto
      <3>4. /\ at' \in [Thread -> Unit] /\ cur_msk' \in [Thread -> SUBSET Unit]
            /\ retry_cnt' \in [Thread -> 0..1]
        BY <1>1, <1>2, HeapAssumption DEF TypeOK, NextWord, Unit, HeapAssumption
      <3> QED BY <1>1, <3>1, <3>2, <3>3, <3>4 DEF TypeOK
    <2>2. Quiet(t)
      BY <1>1, <1>2 DEF TypeOK, Quiet, Reload, NextWord, Goto, Holds, Marked, shared
    <2>3. Locals(t)' /\ pc'[t] = "word"
      BY <1>1, <1>2 DEF TypeOK, Locals, NextWord, Goto
    <2> QED BY <2>1, <2>2, <2>3, QuietStep
  <1>3. CASE \E n \in 0..1 : Search(t, alloc_vec[word[t]], n)
    BY <1>3, SearchStep DEF Reload
  <1> QED BY <1>2, <1>3 DEF Reload

LEMMA CheckSizeStep ==
  ASSUME HeapInv, NEW t \in Thread, CheckSize(t)
  PROVE  HeapInv' /\ (Accounted => Accounted')
  <1>1. TypeOK /\ Marked(t)
    BY DEF HeapInv, CheckSize, Marked
  <1>2. pc' = [pc EXCEPT ![t] = "ends"]
    BY <1>1, FirstEnd DEF CheckSize, Goto
  <1>3. TypeOK'
    BY <1>1, <1>2 DEF CheckSize, TypeOK, shared, local
  <1>4. Quiet(t)
    BY <1>1, <1>2 DEF CheckSize, TypeOK, shared, local, Quiet, Holds, Marked, Held
  <1>5. Locals(t)' /\ pc'[t] # "refused"
    BY <1>1, <1>2 DEF TypeOK, Locals
  <1> QED BY <1>3, <1>4, <1>5, QuietStep

LEMMA LoadEndsStep ==
  ASSUME HeapInv, NEW t \in Thread, LoadEnds(t)
  PROVE  HeapInv' /\ (Accounted => Accounted')
  <1>1. TypeOK /\ Marked(t) /\ word[t] \in Word
    BY DEF HeapInv, TypeOK, LoadEnds, Marked, Disjoint, Holds, Taken, Held, Piece
  <1>2. TypeOK'
    BY <1>1 DEF LoadEnds, Goto, TypeOK, shared
  <1>3. Quiet(t)
    BY <1>1 DEF LoadEnds, Goto, TypeOK, shared, Quiet, Holds, Marked, Held
  <1>4. cur_msk'[t] = endmrk_vec[word[t]] /\ at' = at /\ units' = units /\ pc'[t] = "begin"
    BY <1>1 DEF LoadEnds, TypeOK, Goto
  <1>5. Locals(t)'
    BY <1>1, <1>4, FirstEnd DEF Locals
  <1> QED BY <1>2, <1>3, <1>4, <1>5, QuietStep

LEMMA LoadBeginStep ==
  ASSUME HeapInv, NEW t \in Thread, LoadBegin(t)
  PROVE  HeapInv' /\ (Accounted => Accounted')
  <1>1. TypeOK /\ Marked(t) /\ Taken(Held(t), alloc_vec)
    BY DEF HeapInv, LoadBegin, Marked, Disjoint, Holds
  <1>2. EndsFrom(cur_msk[t], at[t]) # {} /\ UnitsTo(cur_msk[t], at[t]) = units[t]
    BY DEF HeapInv, Locals, LoadBegin
  <1>3. at[t] \in Run(Held(t)) /\ word[t] = Held(t).word
    BY <1>1, LastInRun DEF Taken, Piece, Held
  <1>4. at[t] \notin alloc_vec[word[t]]
    BY <1>1, <1>3 DEF Taken
  <1>5. pc' = [pc EXCEPT ![t] = "unmark"] /\ units' = units
    <2>1. /\ pc' = [pc EXCEPT ![t] = "unmark"]
          /\ units' = [units EXCEPT ![t] = UnitsTo(cur_msk[t], at[t])]
      BY <1>2, <1>4 DEF LoadBegin, Goto
    <2> QED BY <1>1, <1>2, <2>1 DEF TypeOK
  <1>6. TypeOK'
    BY <1>1, <1>5 DEF LoadBegin, TypeOK, shared
  <1>7. Quiet(t)
    BY <1>1, <1>5 DEF LoadBegin, TypeOK, shared, Quiet, Holds, Marked, Held
  <1>8. Locals(t)' /\ pc'[t] # "refused"
    BY <1>1, <1>5 DEF TypeOK, Locals
  <1> QED BY <1>6, <1>7, <1>8, QuietStep

-----------------------------------------------------------------------------
(* The steps that move units or end marks.                                 *)
Others(t) ==
  \A u \in Thread \ {t} : /\ pc'[u] = pc[u] /\ word'[u] = word[u] /\ units'[u] = units[u]
                          /\ at'[u] = at[u] /\ cur_msk'[u] = cur_msk[u]

LEMMA OthersSame ==
  ASSUME NEW t \in Thread, Others(t), NEW u \in Thread, u # t
  PROVE  /\ Holds(u)' <=> Holds(u)
         /\ Marked(u)' <=> Marked(u)
         /\ Held(u)' = Held(u)
         /\ Locals(u)' <=> Locals(u)
  BY DEF Others, Holds, Marked, Held, Locals

(* What becomes of a unit that is free, owned or held by t is for t to     *)
(* say; what others hold they go on holding.                               *)
Has(t, w, i) ==
  \/ i \in alloc_vec[w]
  \/ \E e \in owned : e.word = w /\ i \in Run(e)
  \/ Holds(t) /\ word[t] = w /\ i \in Run(Held(t))

LEMMA AccountedStep ==
  ASSUME NEW t \in Thread, Others(t), Accounted,
         \A w \in Word, i \in Unit : Has(t, w, i) => Has(t, w, i)'
  PROVE  Accounted'
  <1> SUFFICES ASSUME NEW w \in Word, NEW i \in Unit
               PROVE  \/ i \in alloc_vec'[w] \cup HeaderUnit(w)
                      \/ \E e \in owned' : e.word = w /\ i \in Run(e)
                      \/ \E u \in Thread : Holds(u)' /\ word'[u] = w /\ i \in Run(Held(u)')
    BY DEF Accounted, HeaderUnit, Run
  <1>1. CASE Has(t, w, i)
    BY <1>1 DEF Has, Run
  <1>2. CASE i \in HeaderUnit(w)
    BY <1>2
  <1>3. ASSUME NEW u \in Thread, u # t, Holds(u), word[u] = w, i \in Run(Held(u))
        PROVE  Holds(u)' /\ word'[u] = w /\ i \in Run(Held(u)')
    BY <1>3, OthersSame DEF Others
  <1> QED BY <1>1, <1>2, <1>3 DEF Accounted, Has

LEMMA FreeStep ==
  ASSUME HeapInv, NEW t \in Thread, NEW e \in owned, NEW chk \in BOOLEAN, Free(t, e, chk)
  PROVE  HeapInv' /\ (Accounted => Accounted')
  <1>1. TypeOK /\ e \in Piece /\ Taken(e, alloc_vec)
    BY DEF HeapInv, Disjoint, Taken
  <1>2. e.word \in Word /\ e.at \in Unit /\ e.units \in 1..Bits
    BY <1>1 DEF Piece
  <1>3. TypeOK'
    <2>1. alloc_vec' = alloc_vec /\ endmrk_vec' = endmrk_vec /\ owned' \subseteq owned
          /\ request' = request /\ cur_msk' = cur_msk /\ retry_cnt' = retry_cnt
      BY DEF Free
    <2>2. pc' \in [Thread -> {"idle", "refused"} \cup AllocPc \cup FreePc]
      BY <1>1 DEF Free, TypeOK, Goto, FreePc
    <2>3. word' \in [Thread -> 0..Words]
      BY <1>1, <1>2, HeapAssumption DEF Free, TypeOK, Word, HeapAssumption
    <2>4. at' \in [Thread -> Unit]
      BY <1>1, <1>2 DEF Free, TypeOK
    <2>5. units' \in [Thread -> 0..Bits]
      BY <1>1, <1>2, HeapAssumption DEF Free, TypeOK, HeapAssumption
    <2>6. alone' \in [Thread -> BOOLEAN]
      BY DEF Free, Enter
    <2> QED BY <1>1, <2>1, <2>2, <2>3, <2>4, <2>5, <2>6 DEF TypeOK
  <1>4. Others(t) /\ pc[t] = "idle"
    BY <1>1 DEF Free, Enter, TypeOK, Goto, Others
  <1>5. Holds(t)' /\ Marked(t)' /\ Held(t)' = e /\ word'[t] = e.word
    <2>1. word'[t] = e.word /\ at'[t] = e.at /\ units'[t] = e.units
          /\ pc'[t] \in {"check", "ends"}
      BY <1>1 DEF Free, TypeOK, Goto
    <2>2. [word |-> e.word, at |-> e.at, units |-> e.units] = e
      BY <1>1 DEF Piece
    <2> QED BY <2>1, <2>2 DEF Holds, Marked, Held
  <1>6. alloc_vec' = alloc_vec /\ endmrk_vec' = endmrk_vec /\ owned' = owned \ {e}
    BY DEF Free
  <1>7. \A f : Taken(f, alloc_vec') <=> Taken(f, alloc_vec)
    BY <1>6 DEF Taken, HeaderUnit
  <1>8. Disjoint'
    <2>1. \A w \in Word : alloc_vec'[w] \cap HeaderUnit(w)' = {}
      BY <1>6 DEF HeapInv, Disjoint, HeaderUnit
    <2>2. \A f \in owned' : Taken(f, alloc_vec')
      BY <1>6, <1>7 DEF HeapInv, Disjoint
    <2>3. \A u \in Thread : Holds(u)' => Taken(Held(u)', alloc_vec')
      BY <1>1, <1>4, <1>5, <1>7, OthersSame DEF HeapInv, Disjoint
    <2>4. \A f, g \in owned' : f # g => Apart(f, g)
      BY <1>6 DEF HeapInv, Disjoint
    <2>5. \A u \in Thread : Holds(u)' => \A f \in owned' : Apart(Held(u)', f)
      BY <1>4, <1>5, <1>6, OthersSame DEF HeapInv, Disjoint
    <2>6. ASSUME NEW u \in Thread, NEW v \in Thread, u # v, Holds(u)', Holds(v)'
          PROVE  Apart(Held(u)', Held(v)')
      <3>1. \A f \in owned, x \in Thread : Holds(x) => Apart(f, Held(x)) /\ Apart(Held(x), f)
        BY DEF HeapInv, Disjoint, Apart
      <3>2. CASE u = t
        BY <1>4, <1>5, <2>6, <3>1, <3>2, OthersSame
      <3>3. CASE v = t
        BY <1>4, <1>5, <2>6, <3>1, <3>3, OthersSame
      <3>4. CASE u # t /\ v # t
        BY <1>4, <2>6, <3>4, OthersSame DEF HeapInv, Disjoint
      <3> QED BY <3>2, <3>3, <3>4
    <2> QED BY <2>1, <2>2, <2>3, <2>4, <2>5, <2>6 DEF Disjoint, Apart
  <1>9. EndMarks'
    <2>1. \A f \in owned' : Last(f) \in endmrk_vec'[f.word]
      BY <1>6 DEF HeapInv, EndMarks
    <2>2. \A u \in Thread : Marked(u)' => Last(Held(u)') \in endmrk_vec'[word'[u]]
      BY <1>4, <1>5, <1>6, OthersSame DEF HeapInv, EndMarks, Others
    <2>3. ASSUME NEW w \in Word, NEW i \in endmrk_vec'[w]
          PROVE  \/ \E f \in owned' : f.word = w /\ Last(f) = i
                 \/ \E u \in Thread : Marked(u)' /\ word'[u] = w /\ Last(Held(u)') = i
      <3>1. CASE \E f \in owned : f.word = w /\ Last(f) = i
        BY <1>5, <1>6, <3>1
      <3>2. CASE \E u \in Thread : Marked(u) /\ word[u] = w /\ Last(Held(u)) = i
        <4>1. PICK u \in Thread : Marked(u) /\ word[u] = w /\ Last(Held(u)) = i
          BY <3>2
        <4>2. u # t
          BY <1>4, <4>1 DEF Marked
        <4> QED BY <1>4, <4>1, <4>2, OthersSame DEF Others
      <3> QED BY <1>6, <3>1, <3>2 DEF HeapInv, EndMarks
    <2> QED BY <2>1, <2>2, <2>3 DEF EndMarks, Last
  <1>10. \A u \in Thread : pc'[u] # "refused" /\ Locals(u)'
    <2>1. pc'[t] \in {"check", "ends"}
      BY <1>1 DEF Free, TypeOK, Goto
    <2>2. Locals(t)'
      BY <2>1 DEF Locals
    <2> QED BY <1>4, <2>1, <2>2, OthersSame DEF HeapInv, Others
  <1>11. \A w \in Word, i \in Unit : Has(t, w, i) => Has(t, w, i)'
    BY <1>4, <1>5, <1>6 DEF Has, Holds, Run
  <1> QED BY <1>3, <1>4, <1>8, <1>9, <1>10, <1>11, AccountedStep DEF HeapInv

LEMMA SwapStep ==
  ASSUME HeapInv, NEW t \in Thread, Swap(t)
  PROVE  HeapInv' /\ (Accounted => Accounted')
  <1>1. /\ TypeOK /\ word[t] \in Word /\ units[t] \in 1..Bits /\ at[t] \in Unit
        /\ ~ Holds(t) /\ ~ Marked(t)
    BY DEF HeapInv, TypeOK, Locals, Swap, Holds, Marked
  <1>2. CASE alloc_vec' = alloc_vec /\ pc' = [pc EXCEPT ![t] = "reload"]
    <2>1. TypeOK'
      BY <1>1, <1>2 DEF Swap, TypeOK
    <2>2. Quiet(t)
      BY <1>1, <1>2 DEF Swap, TypeOK, Quiet, Holds, Marked
    <2>3. Locals(t)' /\ pc'[t] = "reload"
      BY <1>1, <1>2 DEF Swap, TypeOK, Locals
    <2> QED BY <2>1, <2>2, <2>3, QuietStep
  <1>3. CASE /\ StillThere(t)
             /\ alloc_vec' =
                  [alloc_vec EXCEPT ![word[t]] = cur_msk[t] \ Span(at[t], units[t])]
             /\ pc' = [pc EXCEPT ![t] = "mark"]
    <2> DEFINE h == Held(t)
    <2>1. /\ h \in Piece /\ h.word = word[t] /\ Run(h) = Span(at[t], units[t])
      BY <1>1 DEF Held, Piece, Run
    <2>2. Run(h) \subseteq alloc_vec[word[t]] /\ alloc_vec[word[t]] \subseteq Unit
          /\ alloc_vec[word[t]] = cur_msk[t]
      BY <1>1, <1>3, <2>1 DEF StillThere, HeapInv, Locals, Swap, TypeOK
    <2>3. TypeOK'
      <3>1. cur_msk[t] \ Span(at[t], units[t]) \in SUBSET Unit
        BY <2>2
      <3> QED BY <1>1, <1>3, <3>1 DEF Swap, TypeOK
    <2>4. Others(t) /\ Holds(t)' /\ ~ Marked(t)' /\ Held(t)' = h /\ owned' = owned
          /\ endmrk_vec' = endmrk_vec
      BY <1>1, <1>3 DEF Swap, TypeOK, Others, Holds, Marked, Held
    <2>5. /\ alloc_vec'[word[t]] = alloc_vec[word[t]] \ Run(h)
          /\ \A w \in Word : alloc_vec'[w] \subseteq alloc_vec[w]
      BY <1>1, <1>3, <2>1, <2>2 DEF TypeOK
    <2>6. \A f : Taken(f, alloc_vec) => Taken(f, alloc_vec') /\ Apart(h, f) /\ Apart(f, h)
      BY <2>1, <2>2, <2>5 DEF Taken, Apart, HeaderUnit, Piece
    <2>7. Taken(h, alloc_vec')
      <3>1. Run(h) \cap HeaderUnit(h.word) = {}
        BY <1>1, <2>1, <2>2 DEF HeapInv, Disjoint
      <3> QED BY <2>1, <2>2, <2>5, <3>1 DEF Taken, HeaderUnit
    <2>8. Disjoint'
      <3>1. \A w \in Word : alloc_vec'[w] \cap HeaderUnit(w)' = {}
        BY <2>5 DEF HeapInv, Disjoint, HeaderUnit
      <3>2. \A f \in owned' : Taken(f, alloc_vec')
        BY <2>4, <2>6 DEF HeapInv, Disjoint
      <3>3. \A u \in Thread : Holds(u)' => Taken(Held(u)', alloc_vec')
        BY <2>4, <2>6, <2>7, OthersSame DEF HeapInv, Disjoint
      <3>4. \A f, g \in owned' : f # g => Apart(f, g)
        BY <2>4 DEF HeapInv, Disjoint
      <3>5. \A u \in Thread : Holds(u)' => \A f \in owned' : Apart(Held(u)', f)
        BY <2>4, <2>6, OthersSame DEF HeapInv, Disjoint
      <3>6. ASSUME NEW u \in Thread, NEW v \in Thread, u # v, Holds(u)', Holds(v)'
            PROVE  Apart(Held(u)', Held(v)')
        <4>1. CASE u = t
          BY <2>4, <2>6, <3>6, <4>1, OthersSame DEF HeapInv, Disjoint
        <4>2. CASE v = t
          BY <2>4, <2>6, <3>6, <4>2, OthersSame DEF HeapInv, Disjoint
        <4>3. CASE u # t /\ v # t
          BY <2>4, <3>6, <4>3, OthersSame DEF HeapInv, Disjoint
        <4> QED BY <4>1, <4>2, <4>3
      <3> QED BY <3>1, <3>2, <3>3, <3>4, <3>5, <3>6 DEF Disjoint, Apart
    <2>9. EndMarks'
      <3>1. \A u \in Thread : /\ Marked(u)' <=> Marked(u)
                              /\ Marked(u) => word'[u] = word[u] /\ Held(u)' = Held(u)
        BY <1>1, <2>4, OthersSame DEF Others
      <3> QED BY <2>4, <3>1 DEF HeapInv, EndMarks, Last
    <2>10. \A u \in Thread : pc'[u] # "refused" /\ Locals(u)'
      <3>1. pc'[t] = "mark"
        BY <1>1, <1>3 DEF TypeOK
      <3>2. Locals(t)'
        BY <3>1 DEF Locals
      <3> QED BY <2>4, <3>1, <3>2, OthersSame DEF HeapInv, Others
    <2>11. \A w \in Word, i \in Unit : Has(t, w, i) => Has(t, w, i)'
      <3>1. word'[t] = word[t] /\ \A w \in Word : w # word[t] => alloc_vec'[w] = alloc_vec[w]
        BY <1>1, <1>3 DEF Swap, TypeOK
      <3> QED BY <1>1, <2>4, <2>5, <3>1 DEF Has, Run
    <2> QED BY <2>3, <2>4, <2>8, <2>9, <2>10, <2>11, AccountedStep DEF HeapInv
  <1> QED BY <1>2, <1>3 DEF Swap, Goto

LEMMA MarkStep ==
  ASSUME HeapInv, NEW t \in Thread, Mark(t)
  PROVE  HeapInv' /\ (Accounted => Accounted')
  <1> DEFINE h == Held(t)
  <1>1. TypeOK /\ Holds(t) /\ ~ Marked(t) /\ Taken(h, alloc_vec) /\ h \in Piece /\ pc[t] = "mark"
    BY DEF HeapInv, Mark, Holds, Marked, Disjoint, Taken
  <1>2. /\ word[t] \in Word /\ at[t] \in Unit /\ units[t] \in 1..Bits
        /\ h.word = word[t] /\ h.at = at[t] /\ h.units = units[t] /\ Run(h) \subseteq Unit
    BY <1>1 DEF Held, Piece, Taken
  <1>3. MarkAt(t) = Last(h) /\ Last(h) \in Unit
    BY <1>2, LastInRun DEF MarkAt, Last
  <1>4. endmrk_vec' = [endmrk_vec EXCEPT ![word[t]] = @ \cup {Last(h)}]
        /\ owned' = owned \cup {h} /\ alloc_vec' = alloc_vec
    BY <1>3 DEF Mark, Held
  <1>5. TypeOK'
    BY <1>1, <1>2, <1>3, <1>4 DEF Mark, Return, NoRequest, Goto, TypeOK
  <1>6. Others(t) /\ pc'[t] = "idle" /\ ~ Holds(t)' /\ ~ Marked(t)' /\ Locals(t)'
    BY <1>1 DEF Mark, Return, Goto, TypeOK, Others, Holds, Marked, Locals
  <1>7. Disjoint'
    <2>1. \A w \in Word : alloc_vec'[w] \cap HeaderUnit(w)' = {}
      BY <1>4 DEF HeapInv, Disjoint, HeaderUnit
    <2>2. \A f \in owned' : Taken(f, alloc_vec')
      BY <1>1, <1>4 DEF HeapInv, Disjoint
    <2>3. \A u \in Thread : Holds(u)' => Taken(Held(u)', alloc_vec')
      BY <1>4, <1>6, OthersSame DEF HeapInv, Disjoint
    <2>4. \A f, g \in owned' : f # g => Apart(f, g)
      BY <1>1, <1>4 DEF HeapInv, Disjoint, Apart
    <2>5. \A u \in Thread : Holds(u)' => \A f \in owned' : Apart(Held(u)', f)
      BY <1>1, <1>4, <1>6, OthersSame DEF HeapInv, Disjoint
    <2>6. \A u, v \in Thread : u # v /\ Holds(u)' /\ Holds(v)' => Apart(Held(u)', Held(v)')
      BY <1>6, OthersSame DEF HeapInv, Disjoint
    <2> QED BY <2>1, <2>2, <2>3, <2>4, <2>5, <2>6 DEF Disjoint, Apart
  <1>8. EndMarks'
    <2>0. \A w \in Word : endmrk_vec'[w] =
             IF w = word[t] THEN endmrk_vec[w] \cup {Last(h)} ELSE endmrk_vec[w]
      BY <1>1, <1>4 DEF TypeOK
    <2>1. \A f \in owned' : Last(f) \in endmrk_vec'[f.word]
      <3>1. \A f \in owned : f.word \in Word
        BY <1>1 DEF TypeOK, Piece
      <3>2. ASSUME NEW f \in owned
            PROVE  Last(f) \in endmrk_vec'[f.word]
        <4>1. Last(f) \in endmrk_vec[f.word] /\ f.word \in Word
          BY <3>1 DEF HeapInv, EndMarks
        <4> QED BY <2>0, <4>1
      <3>3. Last(h) \in endmrk_vec'[h.word]
        BY <1>2, <2>0
      <3> QED BY <1>4, <3>2, <3>3
    <2>2. \A u \in Thread : Marked(u)' => Last(Held(u)') \in endmrk_vec'[word'[u]]
      <3>1. ASSUME NEW u \in Thread, Marked(u)'
            PROVE  Last(Held(u)') \in endmrk_vec'[word'[u]]
        <4>1. u # t /\ Marked(u) /\ Held(u)' = Held(u) /\ word'[u] = word[u]
          BY <1>6, <3>1, OthersSame DEF Others
        <4>2. word[u] \in Word
          BY <4>1 DEF HeapInv, Disjoint, Marked, Holds, Taken, Piece, Held
        <4> QED BY <2>0, <4>1, <4>2 DEF HeapInv, EndMarks
      <3> QED BY <3>1
    <2>3. ASSUME NEW w \in Word, NEW i \in endmrk_vec'[w]
          PROVE  \/ \E f \in owned' : f.word = w /\ Last(f) = i
                 \/ \E u \in Thread : Marked(u)' /\ word'[u] = w /\ Last(Held(u)') = i
      <3>1. CASE w = word[t] /\ i = Last(h)
        BY <1>2, <1>4, <3>1
      <3>2. CASE i \in endmrk_vec[w]
        <4>1. CASE \E f \in owned : f.word = w /\ Last(f) = i
          BY <1>4, <4>1
        <4>2. CASE \E u \in Thread : Marked(u) /\ word[u] = w /\ Last(Held(u)) = i
          BY <1>1, <1>6, <4>2, OthersSame DEF Others
        <4> QED BY <3>2, <4>1, <4>2 DEF HeapInv, EndMarks
      <3> QED BY <2>0, <3>1, <3>2
    <2> QED BY <2>1, <2>2, <2>3 DEF EndMarks, Last
  <1>9. \A u \in Thread : pc'[u] # "refused" /\ Locals(u)'
    BY <1>6, OthersSame DEF HeapInv, Others
  <1>10. \A w \in Word, i \in Unit : Has(t, w, i) => Has(t, w, i)'
    BY <1>2, <1>4 DEF Has, Run
  <1> QED BY <1>5, <1>6, <1>7, <1>8, <1>9, <1>10, AccountedStep DEF HeapInv

LEMMA UnmarkStep ==
  ASSUME HeapInv, NEW t \in Thread, Unmark(t)
  PROVE  HeapInv' /\ (Accounted => Accounted')
  <1> DEFINE h == Held(t)
  <1>1. TypeOK /\ Holds(t) /\ Marked(t) /\ Taken(h, alloc_vec) /\ h \in Piece
    BY DEF HeapInv, Unmark, Holds, Marked, Disjoint, Taken
  <1>2. /\ word[t] \in Word /\ at[t] \in Unit /\ units[t] \in 1..Bits
        /\ h.word = word[t] /\ h.at = at[t] /\ h.units = units[t]
    BY <1>1 DEF Held, Piece
  <1>3. /\ endmrk_vec' = [endmrk_vec EXCEPT ![word[t]] = @ \ {Last(h)}]
        /\ pc' = [pc EXCEPT ![t] = "give"]
        /\ UNCHANGED <<alloc_vec, owned, word, units, request, at, cur_msk, retry_cnt, alone>>
    BY <1>2 DEF Unmark, Goto, local, Last
  <1>4. TypeOK'
    BY <1>1, <1>2, <1>3 DEF TypeOK
  <1>5. Others(t) /\ pc'[t] = "give" /\ Holds(t)' /\ ~ Marked(t)' /\ Held(t)' = h /\ Locals(t)'
    BY <1>1, <1>3 DEF TypeOK, Others, Holds, Marked, Held, Locals
  <1>6. \A u \in Thread : (Holds(u)' <=> Holds(u)) /\ Held(u)' = Held(u)
    BY <1>1, <1>5, OthersSame
  <1>7. Disjoint'
    BY <1>3, <1>6 DEF HeapInv, Disjoint, HeaderUnit, Taken, Apart
  <1>8. EndMarks'
    <2>0. \A w \in Word : endmrk_vec'[w] =
             IF w = word[t] THEN endmrk_vec[w] \ {Last(h)} ELSE endmrk_vec[w]
      BY <1>1, <1>3 DEF TypeOK
    <2>1. \A f \in owned' : Last(f) \in endmrk_vec'[f.word]
      <3>1. \A f \in owned : f \in Piece /\ Apart(h, f) /\ Last(f) \in endmrk_vec[f.word]
        BY <1>1 DEF HeapInv, TypeOK, Disjoint, EndMarks
      <3>2. \A f \in owned : f.word \in Word /\ Last(f) \in Run(f)
        BY <3>1, LastInRun DEF Piece
      <3>3. Last(h) \in Run(h)
        BY <1>2, LastInRun
      <3> QED BY <1>2, <1>3, <2>0, <3>1, <3>2, <3>3 DEF Apart
    <2>2. \A u \in Thread : Marked(u)' => Last(Held(u)') \in endmrk_vec'[word'[u]]
      <3>1. ASSUME NEW u \in Thread, Marked(u)'
            PROVE  Last(Held(u)') \in endmrk_vec'[word'[u]]
        <4>1. u # t /\ Marked(u) /\ Held(u)' = Held(u) /\ word'[u] = word[u]
          BY <1>5, <3>1, OthersSame DEF Others
        <4>2. Held(u) \in Piece /\ Apart(h, Held(u)) /\ Held(u).word = word[u] /\ word[u] \in Word
          BY <1>1, <4>1 DEF HeapInv, Disjoint, Marked, Holds, Taken, Piece, Held
        <4>3. Last(Held(u)) \in Run(Held(u)) /\ Last(h) \in Run(h)
          BY <1>2, <4>2, LastInRun DEF Piece
        <4>4. Last(Held(u)) \in endmrk_vec[word[u]]
          BY <4>1 DEF HeapInv, EndMarks
        <4>5. CASE word[u] = word[t]
          <5>1. Last(Held(u)) # Last(h)
            BY <1>2, <4>2, <4>3, <4>5 DEF Apart
          <5> QED BY <2>0, <4>1, <4>2, <4>4, <4>5, <5>1
        <4>6. CASE word[u] # word[t]
          BY <2>0, <4>1, <4>2, <4>4, <4>6
        <4> QED BY <4>5, <4>6
      <3> QED BY <3>1
    <2>3. ASSUME NEW w \in Word, NEW i \in endmrk_vec'[w]
          PROVE  \/ \E f \in owned' : f.word = w /\ Last(f) = i
                 \/ \E u \in Thread : Marked(u)' /\ word'[u] = w /\ Last(Held(u)') = i
      <3>1. i \in endmrk_vec[w] /\ (w = word[t] => i # Last(h))
        BY <2>0
      <3>2. CASE \E f \in owned : f.word = w /\ Last(f) = i
        BY <1>3, <3>2
      <3>3. CASE \E u \in Thread : Marked(u) /\ word[u] = w /\ Last(Held(u)) = i
        BY <1>5, <3>1, <3>3, OthersSame DEF Others
      <3> QED BY <3>1, <3>2, <3>3 DEF HeapInv, EndMarks
    <2> QED BY <2>1, <2>2, <2>3 DEF EndMarks, Last
  <1>9. \A u \in Thread : pc'[u] # "refused" /\ Locals(u)'
    BY <1>5, OthersSame DEF HeapInv, Others
  <1>10. \A w \in Word, i \in Unit : Has(t, w, i) => Has(t, w, i)'
    BY <1>3, <1>5 DEF Has, Run
  <1> QED BY <1>4, <1>5, <1>7, <1>8, <1>9, <1>10, AccountedStep DEF HeapInv

LEMMA GiveBackStep ==
  ASSUME HeapInv, NEW t \in Thread, GiveBack(t)
  PROVE  HeapInv' /\ (Accounted => Accounted')
  <1> DEFINE h == Held(t)
  <1>1. TypeOK /\ Holds(t) /\ ~ Marked(t) /\ Taken(h, alloc_vec) /\ h \in Piece /\ pc[t] = "give"
    BY DEF HeapInv, GiveBack, Holds, Marked, Disjoint, Taken
  <1>2. /\ word[t] \in Word /\ h.word = word[t] /\ Given(t) = Run(h)
        /\ Run(h) \subseteq Unit /\ Run(h) \cap alloc_vec[word[t]] = {}
        /\ Run(h) \cap HeaderUnit(word[t]) = {}
    BY <1>1 DEF Held, Piece, Given, Run, Taken
  <1>3. /\ alloc_vec' = [alloc_vec EXCEPT ![word[t]] = @ \cup Run(h)]
        /\ Return(t)
        /\ UNCHANGED <<endmrk_vec, owned, alone>>
    BY <1>2 DEF GiveBack
  <1>4. TypeOK'
    BY <1>1, <1>2, <1>3 DEF TypeOK, Return, NoRequest, Goto
  <1>5. Others(t) /\ pc'[t] = "idle" /\ ~ Holds(t)' /\ ~ Marked(t)' /\ Locals(t)'
    BY <1>1, <1>3 DEF TypeOK, Return, Goto, Others, Holds, Marked, Locals
  <1>6. \A w \in Word : alloc_vec'[w] = IF w = word[t] THEN alloc_vec[w] \cup Run(h) ELSE alloc_vec[w]
    BY <1>1, <1>3 DEF TypeOK
  <1>7. \A f : Taken(f, alloc_vec) /\ Apart(h, f) => Taken(f, alloc_vec')
    BY <1>2, <1>6 DEF Taken, Apart, Piece
  <1>8. Disjoint'
    <2>1. \A w \in Word : alloc_vec'[w] \cap HeaderUnit(w)' = {}
      BY <1>2, <1>6 DEF HeapInv, Disjoint, HeaderUnit
    <2>2. \A f \in owned' : Taken(f, alloc_vec')
      BY <1>1, <1>3, <1>7 DEF HeapInv, Disjoint
    <2>3. \A u \in Thread : Holds(u)' => Taken(Held(u)', alloc_vec')
      BY <1>1, <1>5, <1>7, OthersSame DEF HeapInv, Disjoint
    <2>4. \A f, g \in owned' : f # g => Apart(f, g)
      BY <1>3 DEF HeapInv, Disjoint
    <2>5. \A u \in Thread : Holds(u)' => \A f \in owned' : Apart(Held(u)', f)
      BY <1>3, <1>5, OthersSame DEF HeapInv, Disjoint
    <2>6. \A u, v \in Thread : u # v /\ Holds(u)' /\ Holds(v)' => Apart(Held(u)', Held(v)')
      BY <1>5, OthersSame DEF HeapInv, Disjoint
    <2> QED BY <2>1, <2>2, <2>3, <2>4, <2>5, <2>6 DEF Disjoint, Apart
  <1>9. EndMarks'
    <2>1. \A u \in Thread : /\ Marked(u)' <=> Marked(u)
                            /\ Marked(u) => word'[u] = word[u] /\ Held(u)' = Held(u)
      BY <1>1, <1>5, OthersSame DEF Others
    <2> QED BY <1>3, <2>1 DEF HeapInv, EndMarks, Last
  <1>10. \A u \in Thread : pc'[u] # "refused" /\ Locals(u)'
    BY <1>5, OthersSame DEF HeapInv, Others
  <1>11. \A w \in Word, i \in Unit : Has(t, w, i) => Has(t, w, i)'
    <2>1. ASSUME NEW w \in Word, NEW i \in Unit, i \in alloc_vec[w] \/ (word[t] = w /\ i \in Run(h))
          PROVE  i \in alloc_vec'[w]
      BY <1>2, <1>6, <2>1
    <2> QED BY <1>3, <2>1 DEF Has, Run
  <1> QED BY <1>4, <1>5, <1>8, <1>9, <1>10, <1>11, AccountedStep DEF HeapInv

-----------------------------------------------------------------------------
LEMMA StutterStep ==
  ASSUME HeapInv, UNCHANGED vars
  PROVE  HeapInv' /\ (Accounted => Accounted')
  <1>1. UNCHANGED <<alloc_vec, endmrk_vec, owned, pc, word, units, request, at, cur_msk,
                    retry_cnt, alone>>
    BY DEF vars, shared, local
  <1>2. TypeOK'
    BY <1>1 DEF HeapInv, TypeOK
  <1>3. \A u \in Thread : /\ Holds(u)' <=> Holds(u)
                          /\ Marked(u)' <=> Marked(u)
                          /\ Held(u)' = Held(u)
                          /\ Locals(u)' <=> Locals(u)
    BY <1>1 DEF Holds, Marked, Held, Locals
  <1>4. Disjoint'
    BY <1>1, <1>3 DEF HeapInv, Disjoint, Taken, Apart, HeaderUnit
  <1>5. EndMarks'
    BY <1>1, <1>3 DEF HeapInv, EndMarks, Last
  <1>6. Accounted => Accounted'
    BY <1>1, <1>3 DEF Accounted, HeaderUnit, Run
  <1> QED BY <1>1, <1>2, <1>3, <1>4, <1>5, <1>6 DEF HeapInv

(* Every step of every operation keeps the invariant and loses no unit.    *)
LEMMA HeapStep ==
  ASSUME HeapInv, [Next]_vars
  PROVE  HeapInv' /\ (Accounted => Accounted')
  <1>1. HeapInv /\ [Next]_vars
    OBVIOUS
  <1>2. HeapInv' /\ (Accounted => Accounted')
    <2>1. CASE UNCHANGED vars
      BY <1>1, <2>1, StutterStep
    <2>2. ASSUME NEW t \in Thread,
                 \/ \E r \in Requests : Alloc(t, r)
                 \/ \E e \in owned, chk \in BOOLEAN : Free(t, e, chk)
                 \/ Steps(t)
          PROVE  HeapInv' /\ (Accounted => Accounted')
      <3>1. CASE \E r \in Requests : Alloc(t, r)
        BY <1>1, <3>1, AllocStep
      <3>2. CASE \E e \in owned, chk \in BOOLEAN : Free(t, e, chk)
        BY <1>1, <3>2, FreeStep
      <3>3. CASE TestWord(t)
        BY <1>1, <3>3, TestWordStep
      <3>4. CASE AllocFails(t)
        BY <1>1, <3>4, AllocFailsStep
      <3>5. CASE Load(t)
        <4>1. pc[t] = "load" /\ Search(t, alloc_vec[word[t]], 0) /\ UNCHANGED <<shared, alone>>
          BY <3>5 DEF Load
        <4> QED BY <1>1, <4>1, SearchStep
      <3>6. CASE Swap(t)
        BY <1>1, <3>6, SwapStep
      <3>7. CASE Reload(t)
        BY <1>1, <3>7, ReloadStep
      <3>8. CASE Mark(t)
        BY <1>1, <3>8, MarkStep
      <3>9. CASE CheckSize(t)
        BY <1>1, <3>9, CheckSizeStep
      <3>10. CASE LoadEnds(t)
        BY <1>1, <3>10, LoadEndsStep
      <3>11. CASE LoadBegin(t)
        BY <1>1, <3>11, LoadBeginStep
      <3>12. CASE Unmark(t)
        BY <1>1, <3>12, UnmarkStep
      <3>13. CASE GiveBack(t)
        BY <1>1, <3>13, GiveBackStep
      <3> QED BY <2>2, <3>1, <3>2, <3>3, <3>4, <3>5, <3>6, <3>7, <3>8, <3>9, <3>10, <3>11,
                 <3>12, <3>13 DEF Steps
    <2> QED BY <1>1, <2>1, <2>2 DEF Next
  <1> QED BY <1>2

(* Bits and end marks describe who owns what, at every step of every call: *)
(* bitv_alloc_marked, bitv_aligned_alloc_marked and bitv_free_marked never *)
(* give a unit to two owners, lose an end mark or refuse an owner's free.  *)
THEOREM HeapInvariant == Spec => []HeapInv
  <1>1. HeapInv /\ [Next]_vars => HeapInv'
    BY HeapStep
  <1> QED BY InitInv, <1>1, PTL DEF Spec

(* Two pieces in the hands of the program have no unit in common, and no   *)
(* unit of theirs is free or part of the header.                           *)
OwnedApart ==
  \A e, f \in owned : (e # f => Apart(e, f)) /\ Taken(e, alloc_vec)

THEOREM OwnersAreApart == Spec => []OwnedApart
  <1>1. HeapInv => OwnedApart
    BY DEF HeapInv, Disjoint, OwnedApart
  <1> QED BY <1>1, HeapInvariant, PTL

-----------------------------------------------------------------------------
(* UnitsAccounted: no unit leaves the heap for good, whatever calls are    *)
(* under way and in whatever order their steps come.                       *)
THEOREM UnitsAccounted == Spec => []Accounted
  <1>1. Init => Accounted
    BY DEF Init, Accounted, HeaderUnit
  <1>2. HeapInv /\ Accounted /\ [Next]_vars => Accounted'
    BY HeapStep
  <1> QED BY <1>1, <1>2, HeapInvariant, PTL DEF Spec

(* SPHLockFreeHeapFreeSpace counts a unit for each bit.                    *)
FreeUnits == {x \in Word \X Unit : x[2] \in alloc_vec[x[1]]}

LEMMA NoFreeSpace ==
  ASSUME TypeOK
  PROVE  FreeSpace = 0 <=> Full
  <1>1. IsFiniteSet(Word \X Unit)
    <2>1. IsFiniteSet(0..Words-1) /\ IsFiniteSet(0..Bits-1)
      BY FS_Interval
    <2> QED BY <2>1, FS_Product
  <1>2. IsFiniteSet(FreeUnits)
    BY <1>1, FS_Subset DEF FreeUnits
  <1>3. FreeSpace = 0 <=> FreeUnits = {}
    BY <1>2, FS_EmptySet DEF FreeSpace, FreeUnits
  <1>4. FreeUnits = {} <=> Full
    <2>1. ASSUME NEW w \in Word, NEW i \in alloc_vec[w]
          PROVE  <<w, i>> \in FreeUnits
      BY DEF TypeOK, FreeUnits
    <2>2. ASSUME NEW x \in FreeUnits
          PROVE  x[1] \in Word /\ x[2] \in alloc_vec[x[1]]
      BY DEF FreeUnits
    <2> QED BY <2>1, <2>2 DEF Full
  <1> QED BY <1>3, <1>4

(* ReportsAgreeHolds: when no call is under way no unit is lost, and       *)
(* SPHLockFreeHeapFreeSpace, Empty and Full say what is so.                *)
THEOREM ReportsAgreeHolds == Spec => []ReportsAgree
  <1>1. HeapInv /\ Accounted => ReportsAgree
    <2> SUFFICES ASSUME HeapInv, Accounted, \A t \in Thread : pc[t] = "idle"
                 PROVE  /\ \A w \in Word : \A i \in Unit :
                             \/ i \in alloc_vec[w] \cup HeaderUnit(w)
                             \/ \E e \in owned : e.word = w /\ i \in Run(e)
                        /\ Empty <=> owned = {}
                        /\ Full <=> FreeSpace = 0
      BY DEF ReportsAgree
    <2>1. \A t \in Thread : ~ Holds(t) /\ ~ Marked(t)
      BY DEF Holds, Marked
    <2>2. \A e \in owned : e.word \in Word /\ Last(e) \in endmrk_vec[e.word]
      BY DEF HeapInv, TypeOK, EndMarks, Piece
    <2>3. \A w \in Word : \A i \in endmrk_vec[w] : \E e \in owned : e.word = w /\ Last(e) = i
      BY <2>1 DEF HeapInv, EndMarks
    <2>4. Full <=> FreeSpace = 0
      BY NoFreeSpace DEF HeapInv
    <2> QED BY <2>1, <2>2, <2>3, <2>4 DEF Accounted, Empty
  <1> QED BY <1>1, HeapInvariant, UnitsAccounted, PTL

-----------------------------------------------------------------------------
(* A call that has been alone in the heap: its copy of a word is the word, *)
(* it never loses a swap, and it has passed no word with room for it.      *)
NoRoom(msk, n, a) ==
  \A i \in Unit : Span(i, n) \subseteq msk => a # 0 /\ i % a # 0

AloneInv ==
  \A t \in Thread : alone[t] /\ pc[t] # "idle" =>
    /\ \A u \in Thread \ {t} : pc[u] = "idle"
    /\ pc[t] # "reload"
    /\ pc[t] = "swap" => alloc_vec[word[t]] = cur_msk[t]
    /\ pc[t] \in {"word", "load"} /\ Taking(request[t]) =>
         \A w \in 0..word[t]-1 : NoRoom(alloc_vec[w], units[t], AlignUnits(t))

(* The search tries every offset where the request could begin.            *)
LEMMA SearchIsComplete ==
  ASSUME NEW msk \in SUBSET Unit, NEW n \in 1..Bits, NEW a \in Nat, Fits(msk, n, a) = {}
  PROVE  NoRoom(msk, n, a)
  <1> SUFFICES ASSUME NEW i \in Unit, Span(i, n) \subseteq msk, a = 0 \/ i % a = 0
               PROVE  FALSE
    BY DEF NoRoom
  <1>1. i \in Span(i, n) /\ i + n - 1 \in Span(i, n)
    BY DEF Span
  <1>2. i \in msk /\ i + n - 1 \in Unit
    BY <1>1
  <1>3. i + n <= Bits /\ i <= i
    BY <1>2
  <1>4. i \in Fits(msk, n, a)
    BY <1>2, <1>3 DEF Fits, Tried, Covers
  <1> QED BY <1>4

(* The alignment of a request in units, and what the code checks of it.    *)
LEMMA AlignmentOfTaken ==
  ASSUME TypeOK, NEW t \in Thread
  PROVE  /\ AlignUnits(t) \in Nat
         /\ Taking(request[t]) => ~ TooFine(request[t].align)
  <1>1. request[t].align \in Nat
    BY DEF TypeOK
  <1>2. AlignUnits(t) \in Nat
    BY <1>1, RoundUnitBounds DEF AlignUnits
  <1>3. Taking(request[t]) => ~ TooFine(request[t].align)
    BY <1>1 DEF Taking, TooFine
  <1> QED BY <1>2, <1>3

(* A step of a thread that leaves its request alone leaves its alignment.  *)
LEMMA SameAlignment ==
  ASSUME NEW t \in Thread, request'[t] = request[t]
  PROVE  AlignUnits(t)' = AlignUnits(t)
  BY DEF AlignUnits, RoundUnit

(* The steps of the call that is alone.                                    *)
LEMMA AloneSteps ==
  ASSUME HeapInv, AloneInv, NEW t \in Thread, Steps(t), alone[t], pc'[t] # "idle"
  PROVE  /\ pc'[t] # "reload"
         /\ pc'[t] = "swap" => alloc_vec'[word'[t]] = cur_msk'[t]
         /\ pc'[t] \in {"word", "load"} /\ Taking(request'[t]) =>
              \A w \in 0..word'[t]-1 : NoRoom(alloc_vec'[w], units'[t], AlignUnits(t)')
  <1>1. TypeOK /\ Locals(t) /\ pc[t] # "idle"
    BY DEF HeapInv, Steps, TestWord, AllocFails, Load, Swap, Reload, Mark, CheckSize, LoadEnds,
           LoadBegin, Unmark, GiveBack
  <1>2. /\ pc[t] # "reload"
        /\ pc[t] = "swap" => alloc_vec[word[t]] = cur_msk[t]
        /\ pc[t] \in {"word", "load"} /\ Taking(request[t]) =>
             \A w \in 0..word[t]-1 : NoRoom(alloc_vec[w], units[t], AlignUnits(t))
    BY <1>1 DEF AloneInv
  <1>3. CASE TestWord(t)
    <2>1. word[t] \in Word /\ units[t] \in 1..Bits /\ UNCHANGED <<alloc_vec, units, request>>
      BY <1>1, <1>3 DEF TestWord, Locals, TypeOK, shared
    <2>a. AlignUnits(t)' = AlignUnits(t)
      BY <2>1, SameAlignment
    <2>2. CASE alloc_vec[word[t]] # {}
      BY <1>1, <1>2, <1>3, <2>1, <2>a, <2>2 DEF TestWord, Goto, TypeOK
    <2>3. CASE alloc_vec[word[t]] = {}
      <3>1. pc' = pc /\ word'[t] = word[t] + 1 /\ pc[t] = "word"
        BY <1>1, <1>3, <2>3 DEF TestWord, TypeOK
      <3>2. NoRoom(alloc_vec[word[t]], units[t], AlignUnits(t))
        <4>1. \A i \in Unit : i \in Span(i, units[t])
          BY <2>1 DEF Span
        <4> QED BY <2>3, <4>1 DEF NoRoom
      <3>3. \A w \in 0..word'[t]-1 : w \in 0..word[t]-1 \/ w = word[t]
        BY <2>1, <3>1
      <3> QED BY <1>2, <2>1, <2>a, <3>1, <3>2, <3>3
    <2> QED BY <2>2, <2>3
  <1>4. CASE Load(t)
    <2>1. /\ word[t] \in Word /\ units[t] \in 1..Bits /\ alloc_vec' = alloc_vec /\ pc[t] = "load"
          /\ alloc_vec[word[t]] \in SUBSET Unit /\ AlignUnits(t) \in Nat
      BY <1>1, <1>4, AlignmentOfTaken DEF Load, Locals, TypeOK, shared
    <2>2. CASE \E i \in Least(Fits(alloc_vec[word[t]], units[t], AlignUnits(t))) :
                 /\ Goto(t, "swap")
                 /\ cur_msk' = [cur_msk EXCEPT ![t] = alloc_vec[word[t]]]
                 /\ word' = word
      BY <1>1, <2>1, <2>2 DEF Goto, TypeOK
    <2>3. CASE TooFine(request[t].align) /\ NextWord(t)
      <3>1. request' = request /\ ~ Taking(request[t]) /\ pc'[t] = "word"
        BY <1>1, <2>3, AlignmentOfTaken DEF NextWord, Goto, TypeOK
      <3> QED BY <3>1
    <2>4. CASE /\ Fits(alloc_vec[word[t]], units[t], AlignUnits(t)) = {}
               /\ (Goto(t, "endless") /\ UNCHANGED local) \/ NextWord(t)
      <3>1. pc'[t] = "endless"
            \/ (pc'[t] = "word" /\ word'[t] = word[t] + 1 /\ UNCHANGED <<units, request>>)
        BY <1>1, <2>4 DEF NextWord, Goto, TypeOK
      <3>2. NoRoom(alloc_vec[word[t]], units[t], AlignUnits(t))
        BY <2>1, <2>4, SearchIsComplete
      <3>3. word'[t] = word[t] + 1 => \A w \in 0..word'[t]-1 : w \in 0..word[t]-1 \/ w = word[t]
        BY <2>1
      <3>4. request' = request => AlignUnits(t)' = AlignUnits(t)
        BY SameAlignment
      <3> QED BY <1>2, <2>1, <3>1, <3>2, <3>3, <3>4
    <2>5. \/ \E i \in Least(Fits(alloc_vec[word[t]], units[t], AlignUnits(t))) :
               /\ Goto(t, "swap")
               /\ cur_msk' = [cur_msk EXCEPT ![t] = alloc_vec[word[t]]]
               /\ word' = word
          \/ TooFine(request[t].align) /\ NextWord(t)
          \/ /\ Fits(alloc_vec[word[t]], units[t], AlignUnits(t)) = {}
             /\ (Goto(t, "endless") /\ UNCHANGED local) \/ NextWord(t)
      BY <1>4 DEF Load, Search
    <2> QED BY <2>2, <2>3, <2>4, <2>5
  <1>5. CASE Swap(t)
    BY <1>1, <1>2, <1>5 DEF Swap, StillThere, Goto, TypeOK
  <1>6. CASE AllocFails(t) \/ Mark(t)
    BY <1>1, <1>6 DEF AllocFails, Mark, Return, Goto, TypeOK
  <1>7. CASE Reload(t)
    BY <1>2, <1>7 DEF Reload
  <1>8. CASE CheckSize(t) \/ LoadEnds(t) \/ LoadBegin(t) \/ Unmark(t) \/ GiveBack(t)
    <2>1. pc'[t] \in FreePc \cup {"idle", "refused"}
      BY <1>1, <1>8 DEF CheckSize, LoadEnds, LoadBegin, Unmark, GiveBack, Return, Goto, TypeOK
    <2> QED BY <2>1
  <1> QED BY <1>3, <1>4, <1>5, <1>6, <1>7, <1>8 DEF Steps

LEMMA AloneStep ==
  ASSUME HeapInv, AloneInv, [Next]_vars
  PROVE  AloneInv'
  <1>1. TypeOK
    BY DEF HeapInv
  <1>2. CASE UNCHANGED vars
    BY <1>2 DEF vars, shared, local, AloneInv, AlignUnits, RoundUnit, NoRoom
  <1>3. ASSUME NEW t \in Thread, Steps(t) PROVE AloneInv'
    <2>1. alone' = alone /\ pc[t] # "idle" /\ \A u \in Thread \ {t} : pc'[u] = pc[u]
      BY <1>1, <1>3 DEF Steps, TestWord, AllocFails, Load, Search, NextWord, Swap, Reload, Mark,
         CheckSize, LoadEnds, LoadBegin, Unmark, GiveBack, Return, Goto, TypeOK
    <2>2. ASSUME NEW u \in Thread, alone'[u], pc'[u] # "idle" PROVE u = t
      BY <2>1, <2>2 DEF AloneInv
    <2>3. alone'[t] => \A u \in Thread \ {t} : pc'[u] = "idle"
      BY <2>1 DEF AloneInv
    <2>4. alone'[t] /\ pc'[t] # "idle" =>
            /\ pc'[t] # "reload"
            /\ pc'[t] = "swap" => alloc_vec'[word'[t]] = cur_msk'[t]
            /\ pc'[t] \in {"word", "load"} /\ Taking(request'[t]) =>
                 \A w \in 0..word'[t]-1 : NoRoom(alloc_vec'[w], units'[t], AlignUnits(t)')
      BY <1>3, <2>1, AloneSteps
    <2> QED BY <2>2, <2>3, <2>4 DEF AloneInv, NoRoom
  <1>4. ASSUME NEW t \in Thread,
               (\E r \in Requests : Alloc(t, r)) \/ (\E e \in owned, chk \in BOOLEAN : Free(t, e, chk))
        PROVE  AloneInv'
    <2>1. /\ \A u \in Thread : alone'[u] => u = t /\ \A o \in Thread : pc[o] = "idle"
          /\ \A u \in Thread \ {t} : pc'[u] = pc[u]
          /\ pc'[t] \in {"word", "check", "ends"}
      BY <1>1, <1>4 DEF Alloc, Free, Enter, Goto, TypeOK
    <2>2. pc'[t] = "word" /\ Taking(request'[t]) => word'[t] = 0
      <3>1. CASE \E r \in Requests : Alloc(t, r)
        <4>1. PICK r \in Requests : Alloc(t, r)
          BY <3>1
        <4>2. request'[t] = r /\ word'[t] = IF Refused(r) THEN Words ELSE 0
          BY <1>1, <4>1 DEF Alloc, TypeOK
        <4>3. Taking(r) => ~ Refused(r)
          <5>1. r.size \in Nat /\ r.align \in Nat
            BY HeapAssumption DEF HeapAssumption
          <5> QED BY <5>1, HeapAssumption DEF Taking, Refused, TooLarge, HeapAssumption
        <4> QED BY <4>2, <4>3
      <3>2. CASE \E e \in owned, chk \in BOOLEAN : Free(t, e, chk)
        BY <1>1, <3>2 DEF Free, Goto, TypeOK
      <3> QED BY <1>4, <3>1, <3>2
    <2>3. ~ \E w \in Int : w \in 0..0-1
      OBVIOUS
    <2> QED BY <2>1, <2>2, <2>3 DEF AloneInv
  <1> QED BY <1>2, <1>3, <1>4 DEF Next

(* NullMeansNoRoomHolds: when no other call was in the heap since an       *)
(* allocate began, no word it has passed has room for its request: neither *)
(* the search nor the test that skips a word misses a place.               *)
THEOREM NullMeansNoRoomHolds == Spec => []NullMeansNoRoom
  <1>1. Init => AloneInv
    BY DEF Init, AloneInv
  <1>2. HeapInv /\ AloneInv /\ [Next]_vars => AloneInv'
    BY AloneStep
  <1>3. AloneInv => NullMeansNoRoom
    BY DEF AloneInv, NullMeansNoRoom, NoRoom
  <1> QED BY <1>1, <1>2, <1>3, HeapInvariant, PTL DEF Spec
=============================================================================

---------------------------- MODULE LockFreeHeap ----------------------------
(* The lock free heap (sphlockfreeheap.cpp) on its bit vectors (bitv.c).   *)
(* A heap is Words words of Bits units each.  alloc_vec has a bit for each *)
(* free unit, endmrk_vec one for the last unit of each allocation; here a  *)
(* word is the set of its bits, counted from the left.  A piece is a number *)
(* of whole units; the sizes and alignments of requests are in bytes.      *)
(*                                                                         *)
(* There is no lock.  Each load of a word, each compare-and-swap and each  *)
(* fetch-and-or is a step of its own; the search in the copy of a word is  *)
(* part of the step that loads it.                                         *)
EXTENDS Integers, FiniteSets

CONSTANTS
  Thread,
  Words,        \* vec_cnt
  Bits,         \* bits_per_long
  UnitSize,     \* bytes of a unit, 1 << alloc_shift
  MaxUnits,     \* MAX_UNITS
  HeaderUnits,  \* what SPHLockFreeHeapInit takes of the first word
  Requests      \* size and alignment of allocates, in bytes; align 0: a plain one

Unit == 0..Bits-1

HeapAssumption ==
  /\ Words \in Nat \ {0}
  /\ Bits \in Nat \ {0}
  /\ UnitSize \in Nat \ {0}
  /\ MaxUnits \in 1..Bits
  /\ HeaderUnits \in 0..Bits
  /\ Requests \subseteq [size : Nat \ {0}, align : Nat]

ASSUME HeapAssumption

Word == 0..Words-1

(* Units at..at+units-1 of a word.                                         *)
Piece == [word : Word, at : Unit, units : 1..Bits]

Span(at, units) == at..at+units-1

Run(e) == Span(e.at, e.units)

Last(e) == e.at + e.units - 1

VARIABLES
  alloc_vec,   \* word -> its free units
  endmrk_vec,  \* word -> the last units of what is allocated
  owned,       \* ghost: the pieces in the hands of the program
  pc,          \* where each thread is
  word,        \* the index i of the word
  units,       \* alloc_units
  request,     \* alloc_size and alignment of the allocate
  at,          \* offset of what is allocated or freed
  cur_msk,     \* the copy of the word that is searched
  retry_cnt,   \* lost compare-and-swaps of bitv_alloc_marked
  alone        \* ghost: no other thread was in the heap since the call began

shared == <<alloc_vec, endmrk_vec, owned>>
local == <<word, units, request, at, cur_msk, retry_cnt>>
vars == <<shared, pc, local, alone>>

AllocPc == {"word", "load", "swap", "reload", "mark", "endless"}
FreePc == {"check", "ends", "begin", "unmark", "give"}

TypeOK ==
  /\ alloc_vec \in [Word -> SUBSET Unit]
  /\ endmrk_vec \in [Word -> SUBSET Unit]
  /\ owned \subseteq Piece
  /\ pc \in [Thread -> {"idle", "refused"} \cup AllocPc \cup FreePc]
  /\ word \in [Thread -> 0..Words]
  /\ units \in [Thread -> 0..Bits]
  /\ request \in [Thread -> [size : Nat, align : Nat]]
  /\ at \in [Thread -> Unit]
  /\ cur_msk \in [Thread -> SUBSET Unit]
  /\ retry_cnt \in [Thread -> 0..1]
  /\ alone \in [Thread -> BOOLEAN]

NoRequest == [size |-> 0, align |-> 0]

(* "Mark space for the header allocated": without an end mark.             *)
Header == 0..HeaderUnits-1

Init ==
  /\ alloc_vec = [w \in Word |-> IF w = 0 THEN Unit \ Header ELSE Unit]
  /\ endmrk_vec = [w \in Word |-> {}]
  /\ owned = {}
  /\ pc = [t \in Thread |-> "idle"]
  /\ word = [t \in Thread |-> 0]
  /\ units = [t \in Thread |-> 0]
  /\ request = [t \in Thread |-> NoRequest]
  /\ at = [t \in Thread |-> 0]
  /\ cur_msk = [t \in Thread |-> {}]
  /\ retry_cnt = [t \in Thread |-> 0]
  /\ alone = [t \in Thread |-> FALSE]

-----------------------------------------------------------------------------
(* bitv_round_unit: the units that a number of bytes takes.                *)
RoundUnit(bytes) == (bytes + UnitSize - 1) \div UnitSize

(* What is checked first: the size must be below MaxUnits units, and the   *)
(* alignment a power of two that is no more than a word.                   *)
PowerOfTwo(n) == \E k \in 0..n : n = 2^k

TooLarge_Fault(r) == r.size >= (MaxUnits - 1) * UnitSize
TooLarge(r) == r.size >= MaxUnits * UnitSize

Refused(r) ==
  \/ TooLarge(r)
  \/ r.align # 0 /\ (~ PowerOfTwo(r.align) \/ r.align > Bits * UnitSize)

(* The test of the alignment in bitv_aligned_alloc_marked, meant for what  *)
(* is no power of two: it finds those below half a unit wrong.             *)
TooFine(a) == a # 0 /\ a < UnitSize /\ 2 * a # UnitSize

(* The search of bitv_alloc_marked and bitv_aligned_alloc_marked.          *)
(* A condition or helper that a fault is seeded in has a name; its faulty  *)
(* form, _Fault, stands before it.                                         *)

Least(set) == {x \in set : \A y \in set : x <= y}
First(set) == CHOOSE x \in set : \A y \in set : x <= y
Final(set) == CHOOSE x \in set : \A y \in set : x >= y

(* Offsets that are tried, from the first free unit on, rounded up.        *)
Tried_Fault(msk, n, a) ==
  {i \in Unit : (\E f \in msk : f <= i) /\ i + n < Bits /\ (a = 0 \/ i % a = 0)}
Tried(msk, n, a) ==
  {i \in Unit : (\E f \in msk : f <= i) /\ i + n <= Bits /\ (a = 0 \/ i % a = 0)}

Covers_Fault(msk, i, n) == i \in msk
Covers(msk, i, n) == Span(i, n) \subseteq msk

Fits(msk, n, a) == {i \in Tried(msk, n, a) : Covers(msk, i, n)}

(* When nothing fits, cur_msk is set to zero at the last offset tried.  In *)
(* an aligned search that is the one at which the word ends: when the word *)
(* does not end at a multiple of the alignment, the search starts again on *)
(* the same copy of the word.                                              *)
SearchesForEver(msk, n, a) ==
  /\ a # 0
  /\ Tried(msk, n, a) # {}
  /\ (Bits - n) % a # 0

(* BITV_SPACE_EST: "a crude estimate".                                     *)
SpaceEst(msk, n) == msk # {} /\ Final(msk) - First(msk) + 1 >= n

-----------------------------------------------------------------------------
Goto(t, place) == pc' = [pc EXCEPT ![t] = place]

(* A call ends: its locals are gone.                                       *)
Return(t) ==
  /\ Goto(t, "idle")
  /\ word' = [word EXCEPT ![t] = 0]
  /\ units' = [units EXCEPT ![t] = 0]
  /\ request' = [request EXCEPT ![t] = NoRequest]
  /\ at' = [at EXCEPT ![t] = 0]
  /\ cur_msk' = [cur_msk EXCEPT ![t] = {}]
  /\ retry_cnt' = [retry_cnt EXCEPT ![t] = 0]

Enter(t) ==
  /\ pc[t] = "idle"
  /\ alone' = [u \in Thread |-> u = t /\ \A o \in Thread : pc[o] = "idle"]

(* SPHLockFreeHeapAlloc and SPHLockFreeHeapAlignAlloc. No word is tried    *)
(* for a request that is refused.                                          *)
Alloc(t, r) ==
  /\ Enter(t)
  /\ Goto(t, "word")
  /\ word' = [word EXCEPT ![t] = IF Refused(r) THEN Words ELSE 0]
  /\ units' = [units EXCEPT ![t] = IF Refused(r) THEN 0 ELSE RoundUnit(r.size)]
  /\ request' = [request EXCEPT ![t] = r]
  /\ UNCHANGED <<shared, at, cur_msk, retry_cnt>>

(* A word that has no free unit is not searched.                           *)
TestWord(t) ==
  /\ pc[t] = "word"
  /\ word[t] < Words
  /\ IF alloc_vec[word[t]] # {}
       THEN Goto(t, "load") /\ word' = word
       ELSE pc' = pc /\ word' = [word EXCEPT ![t] = @ + 1]
  /\ UNCHANGED <<shared, units, request, at, cur_msk, retry_cnt, alone>>

(* No word has room, or the request was refused: the call returns NULL.    *)
AllocFails(t) ==
  /\ pc[t] = "word"
  /\ word[t] = Words
  /\ Return(t)
  /\ UNCHANGED <<shared, alone>>

(* bitv_alloc_marked returned -1.                                          *)
NextWord(t) ==
  /\ Goto(t, "word")
  /\ word' = [word EXCEPT ![t] = @ + 1]
  /\ at' = [at EXCEPT ![t] = 0]
  /\ cur_msk' = [cur_msk EXCEPT ![t] = {}]
  /\ retry_cnt' = [retry_cnt EXCEPT ![t] = 0]
  /\ UNCHANGED <<units, request>>

AlignUnits(t) == RoundUnit(request[t].align)

(* The search in a copy of the word, with retries lost swaps behind it.    *)
Search(t, msk, retries) ==
  LET n == units[t]
      a == AlignUnits(t)
  IN  \/ /\ ~ TooFine(request[t].align)
         /\ \E i \in Least(Fits(msk, n, a)) : at' = [at EXCEPT ![t] = i]
         /\ Goto(t, "swap")
         /\ cur_msk' = [cur_msk EXCEPT ![t] = msk]
         /\ retry_cnt' = [retry_cnt EXCEPT ![t] = retries]
         /\ UNCHANGED <<word, units, request>>
      \/ TooFine(request[t].align) /\ NextWord(t)
      \/ /\ ~ TooFine(request[t].align)
         /\ Fits(msk, n, a) = {}
         /\ IF SearchesForEver(msk, n, a)
              THEN Goto(t, "endless") /\ UNCHANGED local
              ELSE NextWord(t)

Load(t) ==
  /\ pc[t] = "load"
  /\ Search(t, alloc_vec[word[t]], 0)
  /\ UNCHANGED <<shared, alone>>

StillThere_Fault(t) == Span(at[t], units[t]) \subseteq cur_msk[t]
StillThere(t) == alloc_vec[word[t]] = cur_msk[t]

(* The compare-and-swap.                                                   *)
Swap(t) ==
  /\ pc[t] = "swap"
  /\ IF StillThere(t)
       THEN /\ alloc_vec' =
                 [alloc_vec EXCEPT ![word[t]] = cur_msk[t] \ Span(at[t], units[t])]
            /\ Goto(t, "mark")
       ELSE /\ alloc_vec' = alloc_vec
            /\ Goto(t, "reload")
  /\ cur_msk' = [cur_msk EXCEPT ![t] = {}]
  /\ UNCHANGED <<endmrk_vec, owned, word, units, request, at, retry_cnt, alone>>

(* After a lost swap the word is loaded again.  A plain allocate gives up  *)
(* on the word when it has lost two, an aligned one never does.            *)
GivesUp_Fault(t) == FALSE
GivesUp(t) == request[t].align = 0 /\ retry_cnt[t] > 0

Reload(t) ==
  /\ pc[t] = "reload"
  /\ LET msk == alloc_vec[word[t]] IN
       IF SpaceEst(msk, units[t]) /\ ~ GivesUp(t)
         THEN Search(t, msk, IF request[t].align = 0 THEN 1 ELSE 0)
         ELSE NextWord(t)
  /\ UNCHANGED <<shared, alone>>

(* The end mark is set after the units were taken; the call returns.       *)
MarkAt_Fault(t) == at[t] + units[t]
MarkAt(t) == at[t] + units[t] - 1

Mark(t) ==
  /\ pc[t] = "mark"
  /\ endmrk_vec' = [endmrk_vec EXCEPT ![word[t]] = @ \cup {MarkAt(t)}]
  /\ owned' = owned \cup {[word |-> word[t], at |-> at[t], units |-> units[t]]}
  /\ Return(t)
  /\ UNCHANGED <<alloc_vec, alone>>

-----------------------------------------------------------------------------
(* SPHLockFreeHeapFree and, with a test of the size first,                 *)
(* SPHLockFreeHeapFreeChk, of a piece that some thread was given, with the  *)
(* size it asked for.                                                      *)
Free(t, e, chk) ==
  /\ Enter(t)
  /\ e \in owned
  /\ owned' = owned \ {e}
  /\ Goto(t, IF chk THEN "check" ELSE "ends")
  /\ word' = [word EXCEPT ![t] = e.word]
  /\ at' = [at EXCEPT ![t] = e.at]
  /\ units' = [units EXCEPT ![t] = e.units]
  /\ UNCHANGED <<alloc_vec, endmrk_vec, request, cur_msk, retry_cnt>>

(* The first end mark from the offset on, in a copy of the end marks.      *)
EndsFrom(ends, from) == {i \in ends : i >= from}

UnitsTo(ends, from) == First(EndsFrom(ends, from)) - from + 1

(* bitv_allocated_size_chk.                                                *)
CheckSize(t) ==
  /\ pc[t] = "check"
  /\ LET ends == endmrk_vec[word[t]] IN
       Goto(t, IF EndsFrom(ends, at[t]) # {} /\ UnitsTo(ends, at[t]) = units[t]
                 THEN "ends" ELSE "refused")
  /\ UNCHANGED <<shared, local, alone>>

(* bitv_free_marked: the end marks, then the free units.                   *)
LoadEnds(t) ==
  /\ pc[t] = "ends"
  /\ cur_msk' = [cur_msk EXCEPT ![t] = endmrk_vec[word[t]]]
  /\ Goto(t, "begin")
  /\ UNCHANGED <<shared, word, units, request, at, retry_cnt, alone>>

LoadBegin(t) ==
  /\ pc[t] = "begin"
  /\ IF EndsFrom(cur_msk[t], at[t]) # {} /\ at[t] \notin alloc_vec[word[t]]
       THEN /\ Goto(t, "unmark")
            /\ units' = [units EXCEPT ![t] = UnitsTo(cur_msk[t], at[t])]
       ELSE /\ Goto(t, "refused")
            /\ units' = units
  /\ cur_msk' = [cur_msk EXCEPT ![t] = {}]
  /\ UNCHANGED <<shared, word, request, at, retry_cnt, alone>>

Unmark(t) ==
  /\ pc[t] = "unmark"
  /\ endmrk_vec' = [endmrk_vec EXCEPT ![word[t]] = @ \ {at[t] + units[t] - 1}]
  /\ Goto(t, "give")
  /\ UNCHANGED <<alloc_vec, owned, local, alone>>

Given_Fault(t) == Span(at[t], units[t] - 1)
Given(t) == Span(at[t], units[t])

(* bitv_dealloc_internal; it fails when a unit was free already.           *)
GiveBack(t) ==
  /\ pc[t] = "give"
  /\ alloc_vec' = [alloc_vec EXCEPT ![word[t]] = @ \cup Given(t)]
  /\ IF Given(t) \cap alloc_vec[word[t]] = {}
       THEN Return(t)
       ELSE Goto(t, "refused") /\ UNCHANGED local
  /\ UNCHANGED <<endmrk_vec, owned, alone>>

-----------------------------------------------------------------------------
Steps(t) ==
  \/ TestWord(t) \/ AllocFails(t) \/ Load(t) \/ Swap(t) \/ Reload(t) \/ Mark(t)
  \/ CheckSize(t) \/ LoadEnds(t) \/ LoadBegin(t) \/ Unmark(t) \/ GiveBack(t)

Next ==
  \E t \in Thread :
    \/ \E r \in Requests : Alloc(t, r)
    \/ \E e \in owned, chk \in BOOLEAN : Free(t, e, chk)
    \/ Steps(t)

Spec == Init /\ [][Next]_vars

FairSpec == Spec /\ \A t \in Thread : WF_vars(Steps(t))

-----------------------------------------------------------------------------
(* SPHLockFreeHeapFreeSpace, SPHLockFreeHeapEmpty, SPHLockFreeHeapFull.    *)
FreeSpace == Cardinality({x \in Word \X Unit : x[2] \in alloc_vec[x[1]]})

Empty == \A w \in Word : endmrk_vec[w] = {}

Full == \A w \in Word : alloc_vec[w] = {}

-----------------------------------------------------------------------------
(* A thread holds what it took until it is marked, and what it frees until *)
(* it is given back; between the mark and the unmark the end mark is set.  *)
Holds(t) == pc[t] \in {"mark"} \cup FreePc

Marked(t) == pc[t] \in FreePc \ {"give"}

Held(t) == [word |-> word[t], at |-> at[t], units |-> units[t]]

HeaderUnit(w) == IF w = 0 THEN Header ELSE {}

Apart(e, f) == e.word = f.word => Run(e) \cap Run(f) = {}

Taken(e, vec) ==
  /\ e \in Piece
  /\ Run(e) \subseteq Unit
  /\ Run(e) \cap (vec[e.word] \cup HeaderUnit(e.word)) = {}

(* A unit is free, or part of the header, or of one piece, and of no two.  *)
Disjoint ==
  /\ \A w \in Word : alloc_vec[w] \cap HeaderUnit(w) = {}
  /\ \A e \in owned : Taken(e, alloc_vec)
  /\ \A t \in Thread : Holds(t) => Taken(Held(t), alloc_vec)
  /\ \A e, f \in owned : e # f => Apart(e, f)
  /\ \A t \in Thread : Holds(t) => \A e \in owned : Apart(Held(t), e)
  /\ \A t, u \in Thread : t # u /\ Holds(t) /\ Holds(u) => Apart(Held(t), Held(u))

(* The end marks are the last units of what is owned or still marked.      *)
EndMarks ==
  /\ \A e \in owned : Last(e) \in endmrk_vec[e.word]
  /\ \A t \in Thread : Marked(t) => Last(Held(t)) \in endmrk_vec[word[t]]
  /\ \A w \in Word : \A i \in endmrk_vec[w] :
       \/ \E e \in owned : e.word = w /\ Last(e) = i
       \/ \E t \in Thread : Marked(t) /\ word[t] = w /\ Last(Held(t)) = i

(* What a thread holds between its steps.                                  *)
Locals(t) ==
  /\ pc[t] \in {"load", "swap", "reload"} => word[t] \in Word /\ units[t] >= 1
  /\ pc[t] = "word" /\ word[t] < Words => units[t] >= 1
  /\ pc[t] = "swap" => Span(at[t], units[t]) \subseteq cur_msk[t]
  /\ pc[t] = "begin" =>
       /\ EndsFrom(cur_msk[t], at[t]) # {}
       /\ UnitsTo(cur_msk[t], at[t]) = units[t]

(* The bits and the end marks describe who owns what, at every step of     *)
(* every call: no unit is given out twice and none twice returned, and no  *)
(* free of an owned piece is refused or takes the size of another piece.   *)
HeapInv ==
  /\ TypeOK /\ Disjoint /\ EndMarks
  /\ \A t \in Thread : pc[t] # "refused" /\ Locals(t)

(* No unit is lost: when no call is under way, what is not free is the     *)
(* header or owned, and the three reports about the heap agree with it.    *)
ReportsAgree ==
  (\A t \in Thread : pc[t] = "idle") =>
    /\ \A w \in Word : \A i \in Unit :
         i \in alloc_vec[w] \cup HeaderUnit(w) \/ \E e \in owned : e.word = w /\ i \in Run(e)
    /\ Empty <=> owned = {}
    /\ Full <=> FreeSpace = 0

(* The requests that the code takes: below the size of MaxUnits units, and *)
(* plain or with a power of two for the alignment, from half a unit to a   *)
(* word. The header counts a request of 32 units among them ("a maximum    *)
(* allocation request of 32 * unit-size", sphlockfreeheap.h); the code     *)
(* does not.                                                               *)
Taking(r) ==
  /\ r.size < MaxUnits * UnitSize
  /\ \/ r.align = 0
     \/ /\ PowerOfTwo(r.align)
        /\ r.align >= UnitSize \/ 2 * r.align = UnitSize
        /\ r.align <= Bits * UnitSize

(* An allocate that has the heap to itself fails only when no word has     *)
(* room for it ("NULL if no contiguous space"), or it asks for MaxUnits    *)
(* units or more, or for an alignment that the code does not take.         *)
NullMeansNoRoom ==
  \A t \in Thread :
    pc[t] = "word" /\ alone[t] /\ Taking(request[t]) =>
      \A w \in 0..word[t]-1, i \in Unit :
        Span(i, units[t]) \subseteq alloc_vec[w]
          => AlignUnits(t) # 0 /\ i % AlignUnits(t) # 0

(* Every free and every plain allocate returns, whatever others do.        *)
CallsReturn ==
  \A t \in Thread : pc[t] # "idle" /\ request[t].align = 0 ~> pc[t] = "idle"

=============================================================================

------------------------- MODULE SasLockListProofs -------------------------
(* Proofs about one slot of the lock table, for any threads, addresses and *)
(* number of calls, where the addresses of the slot are never shared: that *)
(* is, in each of the Programs, all threads use the same address, or one   *)
(* thread uses all there are.  Without that the theorems are false: run    *)
(* LockListSharedSlot.                                                     *)
EXTENDS SasLockList, SequenceTheorems, FiniteSetTheorems, TLAPS

-----------------------------------------------------------------------------
(* The sum of a table is the number of its tokens: x has table[x] of them. *)
(* A sum by recursion would need induction over data.                      *)
Tokens(table) == UNION {{x} \X (1..table[x]) : x \in DOMAIN table}

IsSum(n, table) == IsFiniteSet(Tokens(table)) /\ n = Cardinality(Tokens(table))

LEMMA TokensMembers ==
  ASSUME NEW T, NEW r \in [T -> Nat]
  PROVE  \A g : g \in Tokens(r) <=> \E t \in T : \E i \in 1..r[t] : g = <<t, i>>
BY DEF Tokens

(* The entry of t goes up by one: one token more. *)
LEMMA SumUp ==
  ASSUME NEW T, NEW r \in [T -> Nat], NEW s \in [T -> Nat], NEW t \in T,
         \A u \in T : s[u] = IF u = t THEN r[t] + 1 ELSE r[u],
         NEW n, IsSum(n, r)
  PROVE  n \in Nat /\ IsSum(n + 1, s)
<1> DEFINE g == <<t, r[t] + 1>>
<1>1. g \notin Tokens(r)
  BY TokensMembers
<1>2. Tokens(s) = Tokens(r) \cup {g}
  <2>1. \A i : i \in 1..(r[t] + 1) <=> i \in 1..r[t] \/ i = r[t] + 1
    OBVIOUS
  <2>2. ASSUME NEW h \in Tokens(s) PROVE h \in Tokens(r) \cup {g}
    <3>1. PICK u \in T, i \in Nat : i \in 1..s[u] /\ h = <<u, i>>
      BY TokensMembers
    <3> QED BY <3>1, <2>1, TokensMembers
  <2>3. ASSUME NEW h \in Tokens(r) PROVE h \in Tokens(s)
    <3>1. PICK u \in T, i \in Nat : i \in 1..r[u] /\ h = <<u, i>>
      BY TokensMembers
    <3> QED BY <3>1, <2>1, TokensMembers
  <2>4. g \in Tokens(s)
    BY <2>1, TokensMembers
  <2> QED BY <2>2, <2>3, <2>4
<1> HIDE DEF g
<1>3. /\ IsFiniteSet(Tokens(r) \cup {g}) /\ Cardinality(Tokens(r)) \in Nat
      /\ Cardinality(Tokens(r) \cup {g}) = Cardinality(Tokens(r)) + 1
  BY <1>1, FS_AddElement, FS_CardinalityType DEF IsSum
<1> QED BY <1>2, <1>3 DEF IsSum

(* ... and down by one: one token less. *)
LEMMA SumDown ==
  ASSUME NEW T, NEW r \in [T -> Nat], NEW s \in [T -> Nat], NEW t \in T, r[t] > 0,
         \A u \in T : s[u] = IF u = t THEN r[t] - 1 ELSE r[u],
         NEW n, IsSum(n, r)
  PROVE  n \in Nat /\ n > 0 /\ IsSum(n - 1, s)
<1> DEFINE g == <<t, r[t]>>
<1>1. g \in Tokens(r)
  BY TokensMembers
<1>2. Tokens(s) = Tokens(r) \ {g}
  <2>1. \A i : i \in 1..(r[t] - 1) <=> i \in 1..r[t] /\ i # r[t]
    OBVIOUS
  <2>2. ASSUME NEW h \in Tokens(s) PROVE h \in Tokens(r) /\ h # g
    <3>1. PICK u \in T, i \in Nat : i \in 1..s[u] /\ h = <<u, i>>
      BY TokensMembers
    <3> QED BY <3>1, <2>1, TokensMembers
  <2>3. ASSUME NEW h \in Tokens(r), h # g PROVE h \in Tokens(s)
    <3>1. PICK u \in T, i \in Nat : i \in 1..r[u] /\ h = <<u, i>>
      BY TokensMembers
    <3> QED BY <3>1, <2>1, TokensMembers, <2>3
  <2> QED BY <2>2, <2>3
<1> HIDE DEF g
<1>3. /\ IsFiniteSet(Tokens(r) \ {g}) /\ Cardinality(Tokens(r)) \in Nat
      /\ Cardinality(Tokens(r)) # 0
      /\ Cardinality(Tokens(r) \ {g}) = Cardinality(Tokens(r)) - 1
  BY <1>1, FS_RemoveElement, FS_CardinalityType, FS_EmptySet DEF IsSum
<1> QED BY <1>2, <1>3 DEF IsSum

(* A sum is 0 exactly when every entry is. *)
LEMMA SumZero ==
  ASSUME NEW T, NEW r \in [T -> Nat], NEW n, IsSum(n, r)
  PROVE  n \in Nat /\ (n = 0 <=> \A t \in T : r[t] = 0)
<1>1. Tokens(r) = {} <=> \A t \in T : r[t] = 0
  <2>1. ASSUME NEW t \in T, r[t] # 0 PROVE <<t, 1>> \in Tokens(r)
    BY <2>1, TokensMembers
  <2>2. ASSUME NEW h \in Tokens(r) PROVE \E t \in T : r[t] # 0
    BY TokensMembers
  <2> QED BY <2>1, <2>2
<1> QED BY <1>1, FS_EmptySet, FS_CardinalityType DEF IsSum

OneAddress == \E k \in Key : \A t \in Thread : program[t] \subseteq {k}

OneProgram == \E t \in Thread : \A u \in Thread \ {t} : program[u] = {}

NeverShared ==
  \A p \in Programs :
    \/ \E k \in Key : \A t \in Thread : p[t] \subseteq {k}
    \/ \E t \in Thread : \A u \in Thread \ {t} : p[u] = {}

-----------------------------------------------------------------------------
(* The inductive invariant.                                                *)
Length == Len(items)
Index == 1..Length

(* Where a call has the lock of the list, and where it has an item.        *)
ListPc == {"search", "enter", "u_search", "u_item"}
WaitPc == {"r_wait", "w_wait", "drain"}
ItemPc == {"enter", "inside", "u_item"} \cup WaitPc

(* The holds of a thread are of its addresses, and each is in an item.     *)
HoldsInv ==
  \A t \in Thread, k \in Key :
    LET h == holds[t][k]
    IN  /\ h.mode = "NONE" <=> h.count = 0
        /\ h.count > 0 => k \in program[t] /\ \E i \in Index : items[i].address = k

Drains(t, i) == pc[t] = "drain" /\ iter[t] = i

(* How often thread t has a read lock of an address.                       *)
Reads(t, a) ==
  IF a # NullAddress /\ holds[t][a].mode = "READ" THEN holds[t][a].count ELSE 0

Writes(t, a) == a # NullAddress /\ holds[t][a].mode = "WRITE"

(* The records of an item are the holds of its address.                    *)
RecordInv(i) ==
  LET r == items[i]
  IN  /\ r.address # NullAddress => \E t \in Thread : holds[t][r.address].count > 0
      /\ \A t \in Thread :
           /\ r.readers[t] = Reads(t, r.address)
           /\ r.writer_thread_id = t <=> Writes(t, r.address)
           /\ Writes(t, r.address) => r.writer_thread_lock_count = holds[t][r.address].count
      /\ IsSum(r.total_readers_count, r.readers)
      /\ r.writer_thread_id # NoThread => r.total_readers_count = 0

(* An item is marked by the thread that writes or by one that waits for    *)
(* its readers.                                                            *)
MarkInv(i) ==
  LET r == items[i]
  IN  /\ r.status = "exclusive" <=>
           r.writer_thread_id # NoThread \/ \E t \in Thread : Drains(t, i)
      /\ \A t \in Thread : Drains(t, i) => r.writer_thread_id = NoThread
      /\ \A t, u \in Thread : Drains(t, i) /\ Drains(u, i) => t = u

NoTwoItems ==
  \A i, j \in Index :
    items[i].address = items[j].address /\ items[i].address # NullAddress => i = j

Key_(t) == want[t].key
HoldOf(t) == holds[t][Key_(t)]

(* What a call relies on.                                                  *)
CallInv(t) ==
  /\ pc[t] \in ListPc <=> lock = t
  /\ \A i \in Index : items[i].data_lock = t <=> pc[t] = "inside" /\ iter[t] = i
  /\ pc[t] # "idle" => Key_(t) \in program[t]
  /\ pc[t] \in {"search", "u_search"} => iter[t] \in 0..Length
  /\ pc[t] \in ItemPc => iter[t] \in Index
  /\ pc[t] \in {"search", "enter", "inside"} \cup WaitPc /\ want[t].lockT = "WRITE" =>
       HoldOf(t).mode # "READ"
  /\ pc[t] \in WaitPc => HoldOf(t).mode = "NONE"
  /\ pc[t] = "r_wait" => want[t].lockT = "READ"
  /\ pc[t] \in {"w_wait", "drain"} => want[t].lockT = "WRITE"
  /\ pc[t] = "u_search" =>
       IF HoldOf(t).count > 0
         THEN \E j \in 1..iter[t] : items[j].address = Key_(t)
         ELSE \A u \in Thread \ {t} : Key_(t) \notin program[u]
  /\ pc[t] = "u_item" => HoldOf(t).count > 0

(* The item a call is at has its address, or is free and no other has it.  *)
TargetInv(t) ==
  pc[t] \in ItemPc =>
    /\ items[iter[t]].address \in {NullAddress, Key_(t)}
    /\ \A j \in Index \ {iter[t]} : items[j].address # Key_(t)

(* What a search has passed.                                               *)
SearchInv(t) ==
  pc[t] = "search" =>
    /\ firstFree[t] \in 0..Length
    /\ OneAddress => (firstFree[t] = 0 => iter[t] = Length)
    /\ OneProgram =>
         /\ \A j \in iter[t]+1..Length :
              items[j].address # Key_(t) /\ (firstFree[t] = 0 => items[j].address # NullAddress)
         /\ firstFree[t] # 0 => items[firstFree[t]].address = NullAddress

Used == UNION {program[t] : t \in Thread}

(* The parts of the invariant by what they are about.                      *)
ItemsInv == NoTwoItems /\ \A i \in Index : RecordInv(i) /\ MarkInv(i)

CallsInv == \A t \in Thread : CallInv(t) /\ TargetInv(t) /\ SearchInv(t)

SizeInv ==
  /\ OneAddress => Length <= 1
  /\ Length <= Cardinality(Used)

UseInv == OneAddress \/ OneProgram

(* Everything is as the calls and the programs have it, for as long as no  *)
(* address is shared.                                                      *)
ListInv == TypeOK /\ UseInv /\ HoldsInv /\ ItemsInv /\ CallsInv /\ SizeInv

-----------------------------------------------------------------------------
(* What a step of thread t leaves alone.                                   *)
Others(t) ==
  /\ program' = program
  /\ \A u \in Thread \ {t} :
       /\ pc'[u] = pc[u] /\ want'[u] = want[u] /\ iter'[u] = iter[u]
       /\ firstFree'[u] = firstFree[u] /\ holds'[u] = holds[u]
       /\ lock' = u <=> lock = u

(* The items but i stay as they are, and what happens at item i.           *)
ChangesOnly(i) == Length' = Length /\ \A j \in Index \ {i} : items'[j] = items[j]

DataLockOf(t, i) ==
  \A u \in Thread \ {t} : items'[i].data_lock = u <=> items[i].data_lock = u

SameRecords(i) ==
  /\ items'[i].address = items[i].address
  /\ items'[i].readers = items[i].readers
  /\ items'[i].total_readers_count = items[i].total_readers_count
  /\ items'[i].writer_thread_id = items[i].writer_thread_id
  /\ items'[i].writer_thread_lock_count = items[i].writer_thread_lock_count

LEMMA ItemFields ==
  ASSUME TypeOK, NEW i \in Index
  PROVE  /\ items[i] \in Item /\ items[i].readers \in [Thread -> Nat]
         /\ items[i].address \in Key \cup {NullAddress}
         /\ items[i].total_readers_count \in Nat
         /\ items[i].writer_thread_id \in Thread \cup {NoThread}
<1>1. items[i] \in Item
  BY ElementOfSeq DEF TypeOK, Index, Length
<1> QED BY <1>1 DEF Item

(* Two threads in a call use the same address, and the list has one item.  *)
LEMMA TwoCalls ==
  ASSUME ListInv, NEW t \in Thread, NEW u \in Thread, t # u,
         pc[t] # "idle", pc[u] # "idle"
  PROVE  OneAddress /\ ~ OneProgram /\ Length <= 1 /\ Key_(t) = Key_(u)
<1>1. Key_(t) \in program[t] /\ Key_(u) \in program[u]
  BY DEF ListInv, CallsInv, CallInv
<1>2. OneAddress /\ ~ OneProgram
  BY <1>1 DEF ListInv, UseInv, OneProgram
<1> QED BY <1>1, <1>2 DEF ListInv, SizeInv, OneAddress

(* With one address an item has it or is free.                             *)
LEMMA OneAddressItems ==
  ASSUME ListInv, OneAddress, NEW t \in Thread, pc[t] # "idle", NEW i \in Index
  PROVE  items[i].address \in {NullAddress, Key_(t)}
<1>1. PICK k \in Key : \A u \in Thread : program[u] \subseteq {k}
  BY DEF OneAddress
<1>2. Key_(t) = k
  BY <1>1 DEF ListInv, CallsInv, CallInv
<1>3. ASSUME items[i].address # NullAddress PROVE items[i].address = k
  <2>1. items[i].address \in Key
    BY <1>3, ItemFields DEF ListInv
  <2>2. PICK u \in Thread : holds[u][items[i].address].count > 0
    BY <1>3 DEF ListInv, ItemsInv, RecordInv
  <2> QED BY <1>1, <2>1, <2>2 DEF ListInv, HoldsInv
<1> QED BY <1>2, <1>3

(* A step that changes neither items nor holds.                            *)
LEMMA CallStep ==
  ASSUME ListInv, NEW t \in Thread, Others(t), UNCHANGED <<items, holds>>, TypeOK',
         pc[t] # "drain", pc'[t] # "drain",
         CallInv(t)', TargetInv(t)', SearchInv(t)'
  PROVE  ListInv'
<1>1. Index' = Index /\ Length' = Length /\ Used' = Used
      /\ OneAddress' = OneAddress /\ OneProgram' = OneProgram
  BY DEF Others, Index, Length, Used, OneAddress, OneProgram
<1>2. \A u \in Thread, i \in Index : Drains(u, i)' <=> Drains(u, i)
  BY DEF Others, Drains
<1>3. HoldsInv'
  BY <1>1 DEF ListInv, HoldsInv, Others
<1>4. ItemsInv'
  <2>1. NoTwoItems'
    BY <1>1 DEF ListInv, ItemsInv, NoTwoItems
  <2>2. \A i \in Index : RecordInv(i)'
    BY DEF ListInv, ItemsInv, RecordInv, Reads, Writes
  <2>3. \A i \in Index : MarkInv(i)'
    BY <1>2 DEF ListInv, ItemsInv, MarkInv
  <2> QED BY <1>1, <2>1, <2>2, <2>3 DEF ItemsInv
<1>5. CallsInv'
  <2> SUFFICES ASSUME NEW u \in Thread, u # t PROVE CallInv(u)' /\ TargetInv(u)' /\ SearchInv(u)'
    BY DEF CallsInv
  <2>1. CallInv(u)'
    BY <1>1 DEF ListInv, CallsInv, CallInv, Others, HoldOf, Key_
  <2>2. TargetInv(u)'
    BY <1>1 DEF ListInv, CallsInv, TargetInv, Others, Key_
  <2>3. SearchInv(u)'
    BY <1>1 DEF ListInv, CallsInv, SearchInv, Others, Key_
  <2> QED BY <2>1, <2>2, <2>3
<1>6. SizeInv' /\ UseInv'
  BY <1>1 DEF ListInv, SizeInv, UseInv
<1> QED BY <1>3, <1>4, <1>5, <1>6 DEF ListInv
-----------------------------------------------------------------------------
(* The item a call is at has the records of the call's address.            *)
LEMMA AtItem ==
  ASSUME ListInv, NEW t \in Thread, pc[t] \in ItemPc, NEW i, i = iter[t],
         NEW k, k = Key_(t)
  PROVE  /\ i \in Index /\ k \in Key /\ k # NullAddress /\ k \in program[t]
         /\ items[i].address \in {NullAddress, k}
         /\ \A j \in Index \ {i} : items[j].address # k
         /\ \A u \in Thread :
              /\ holds[u][k].count > 0 => items[i].address = k
              /\ holds[u][k].mode = "NONE" <=> holds[u][k].count = 0
              /\ items[i].readers[u] = Reads(u, k)
              /\ items[i].writer_thread_id = u <=> Writes(u, k)
              /\ Writes(u, k) => items[i].writer_thread_lock_count = holds[u][k].count
<1>1. i \in Index /\ k \in program[t]
  BY DEF ListInv, CallsInv, CallInv, ItemPc, WaitPc
<1>2. k \in Key /\ k # NullAddress
  BY <1>1, SlotAssumption DEF ListInv, TypeOK
<1>3. /\ items[i].address \in {NullAddress, k}
      /\ \A j \in Index \ {i} : items[j].address # k
  BY DEF ListInv, CallsInv, TargetInv
<1>4. ASSUME NEW u \in Thread
      PROVE  /\ holds[u][k].count > 0 => items[i].address = k
             /\ holds[u][k].mode = "NONE" <=> holds[u][k].count = 0
             /\ items[i].readers[u] = Reads(u, k)
             /\ items[i].writer_thread_id = u <=> Writes(u, k)
             /\ Writes(u, k) => items[i].writer_thread_lock_count = holds[u][k].count
  <2>1. /\ holds[u][k].count > 0 => items[i].address = k
        /\ holds[u][k].mode = "NONE" <=> holds[u][k].count = 0
        /\ holds[u][k].count \in Nat
    <3>1. holds[u][k] \in Hold
      BY <1>2 DEF ListInv, TypeOK
    <3>2. /\ holds[u][k].count > 0 => \E j \in Index : items[j].address = k
          /\ holds[u][k].mode = "NONE" <=> holds[u][k].count = 0
      BY <1>2 DEF ListInv, HoldsInv
    <3> QED BY <1>3, <3>1, <3>2 DEF Hold
  <2>2. /\ items[i].readers[u] = Reads(u, items[i].address)
        /\ items[i].writer_thread_id = u <=> Writes(u, items[i].address)
        /\ Writes(u, items[i].address) =>
             items[i].writer_thread_lock_count = holds[u][items[i].address].count
    BY <1>1 DEF ListInv, ItemsInv, RecordInv
  <2>3. CASE items[i].address = k
    BY <2>1, <2>2, <2>3
  <2>4. CASE items[i].address = NullAddress
    BY <1>2, <2>1, <2>2, <2>4 DEF Reads, Writes
  <2> QED BY <1>3, <2>3, <2>4
<1> QED BY <1>1, <1>2, <1>3, <1>4

(* A step of a call on its item, which leaves the other items alone.       *)
LEMMA ItemStep ==
  ASSUME ListInv, NEW t \in Thread, pc[t] \in ItemPc, Others(t), TypeOK',
         NEW i, i = iter[t], NEW k, k = Key_(t), ChangesOnly(i), DataLockOf(t, i),
         items'[i].address \in {NullAddress, k},
         pc'[t] \in {"idle"} \cup ItemPc, iter'[t] = i, Key_(t)' = k,
         \A a \in Key \ {k} : holds'[t][a] = holds[t][a],
         holds'[t][k].mode = "NONE" <=> holds'[t][k].count = 0,
         \A u \in Thread : holds'[u][k].count > 0 => items'[i].address = k,
         RecordInv(i)', MarkInv(i)', CallInv(t)'
  PROVE  ListInv'
<1>1. /\ i \in Index /\ k \in Key /\ k # NullAddress /\ k \in program[t]
      /\ items[i].address \in {NullAddress, k}
      /\ \A j \in Index \ {i} : items[j].address # k
  BY AtItem
<1>2. /\ Index' = Index /\ Length' = Length /\ Used' = Used
      /\ OneAddress' = OneAddress /\ OneProgram' = OneProgram
      /\ \A j \in Index \ {i} : items'[j] = items[j]
  BY DEF ChangesOnly, Others, Index, Used, OneAddress, OneProgram
<1>3. HoldsInv'
  <2> SUFFICES ASSUME NEW u \in Thread, NEW a \in Key
               PROVE  LET h == holds'[u][a]
                      IN  /\ h.mode = "NONE" <=> h.count = 0
                          /\ h.count > 0 => a \in program'[u] /\ \E j \in Index : items'[j].address = a
    BY <1>2 DEF HoldsInv
  <2>1. /\ holds[u][a].mode = "NONE" <=> holds[u][a].count = 0
        /\ holds[u][a].count > 0 => a \in program[u] /\ \E j \in Index : items[j].address = a
    BY DEF ListInv, HoldsInv
  <2>2. CASE a = k
    BY <1>1, <1>2, <2>1, <2>2 DEF Others
  <2>3. CASE a # k
    <3>1. a # NullAddress /\ a # items[i].address
      BY <1>1, <2>3, SlotAssumption
    <3>2. holds'[u][a] = holds[u][a] /\ program' = program
      BY <2>3 DEF Others
    <3> QED BY <1>2, <2>1, <3>1, <3>2
  <2> QED BY <2>2, <2>3
<1>4. ItemsInv'
  <2>1. NoTwoItems'
    BY <1>1, <1>2 DEF ListInv, ItemsInv, NoTwoItems
  <2>2. ASSUME NEW j \in Index, j # i PROVE RecordInv(j)' /\ MarkInv(j)'
    <3>1. items'[j] = items[j] /\ items[j].address # k
      BY <1>1, <1>2, <2>2
    <3>2. items[j].address \in Key \cup {NullAddress}
      BY ItemFields DEF ListInv
    <3>3. \A u \in Thread : items[j].address # NullAddress =>
            holds'[u][items[j].address] = holds[u][items[j].address]
      BY <3>1, <3>2 DEF Others
    <3>4. \A u \in Thread : /\ Reads(u, items[j].address)' = Reads(u, items[j].address)
                            /\ Writes(u, items[j].address)' <=> Writes(u, items[j].address)
      BY <3>1, <3>3 DEF Reads, Writes
    <3>5. \A u \in Thread : Drains(u, j)' <=> Drains(u, j)
      BY <2>2 DEF Drains, Others
    <3>6. RecordInv(j) /\ MarkInv(j)
      BY DEF ListInv, ItemsInv
    <3>7. RecordInv(j)'
      <4>1. /\ items[j].address # NullAddress => \E u \in Thread : holds[u][items[j].address].count > 0
            /\ \A u \in Thread :
                 /\ items[j].readers[u] = Reads(u, items[j].address)
                 /\ items[j].writer_thread_id = u <=> Writes(u, items[j].address)
                 /\ Writes(u, items[j].address) =>
                      items[j].writer_thread_lock_count = holds[u][items[j].address].count
            /\ IsSum(items[j].total_readers_count, items[j].readers)
            /\ items[j].writer_thread_id # NoThread => items[j].total_readers_count = 0
        BY <3>6 DEF RecordInv
      <4>2. \A u \in Thread : Writes(u, items[j].address) => items[j].address # NullAddress
        BY DEF Writes
      <4> QED BY <3>1, <3>3, <3>4, <4>1, <4>2 DEF RecordInv
    <3>8. MarkInv(j)'
      BY <3>1, <3>5, <3>6 DEF MarkInv
    <3> QED BY <3>7, <3>8
  <2> QED BY <1>2, <2>1, <2>2 DEF ItemsInv
<1>5. TargetInv(t)' /\ SearchInv(t)'
  BY <1>1, <1>2 DEF TargetInv, SearchInv, ItemPc, WaitPc
<1>6. ASSUME NEW u \in Thread, u # t PROVE CallInv(u)' /\ TargetInv(u)' /\ SearchInv(u)'
  <2>1. /\ pc'[u] = pc[u] /\ want'[u] = want[u] /\ iter'[u] = iter[u] /\ Key_(u)' = Key_(u)
        /\ firstFree'[u] = firstFree[u] /\ holds'[u] = holds[u] /\ HoldOf(u)' = HoldOf(u)
        /\ program' = program /\ (lock' = u <=> lock = u)
    BY <1>6 DEF Others, Key_, HoldOf
  <2>2. CallInv(u) /\ TargetInv(u) /\ SearchInv(u)
    BY DEF ListInv, CallsInv
  <2>3. pc[u] # "idle" => ~ OneProgram /\ Length <= 1 /\ Key_(u) = k
    BY <1>6, TwoCalls DEF ItemPc, WaitPc
  <2>4. i = 1 \/ Length > 1
    BY <1>1 DEF Index, Length, ListInv, TypeOK
  <2>5. CallInv(u)'
    <3>1. \A j \in Index : items'[j].data_lock = u <=> items[j].data_lock = u
      BY <1>2, <1>6 DEF DataLockOf
    <3>2. ASSUME pc[u] = "u_search", HoldOf(u).count > 0
          PROVE  \E j \in 1..iter[u] : items'[j].address = Key_(u)
      <4>1. PICK j \in 1..iter[u] : items[j].address = Key_(u)
        BY <2>2, <3>2 DEF CallInv
      <4>2. j \in Index /\ j = i
        BY <1>1, <2>2, <2>3, <3>2, <4>1 DEF CallInv, Index, Length, ListInv, TypeOK
      <4>3. items'[i].address = k
        BY <2>1, <2>3, <3>2 DEF HoldOf
      <4> QED BY <1>2, <2>3, <3>2, <4>1, <4>2, <4>3
    <3> QED BY <1>2, <2>1, <2>2, <3>1, <3>2 DEF CallInv
  <2>6. TargetInv(u)'
    <3> SUFFICES ASSUME pc[u] \in ItemPc
                 PROVE  /\ items'[iter[u]].address \in {NullAddress, Key_(u)}
                        /\ \A j \in Index \ {iter[u]} : items'[j].address # Key_(u)
      BY <1>2, <2>1 DEF TargetInv
    <3>1. iter[u] = i /\ Key_(u) = k
      BY <1>1, <2>2, <2>3 DEF CallInv, Index, Length, ItemPc, WaitPc, ListInv, TypeOK
    <3> QED BY <1>1, <1>2, <3>1
  <2>7. SearchInv(u)'
    BY <1>2, <2>1, <2>2, <2>3 DEF SearchInv
  <2> QED BY <2>5, <2>6, <2>7
<1>7. SizeInv' /\ UseInv'
  BY <1>2 DEF ListInv, SizeInv, UseInv
<1> QED BY <1>3, <1>4, <1>5, <1>6, <1>7 DEF ListInv, CallsInv
-----------------------------------------------------------------------------
(* One lemma per action; first lockNode and unlockNode.                    *)
LEMMA InitInv ==
  ASSUME NeverShared, Init
  PROVE  ListInv
<1>1. Length = 0 /\ Index = {}
  BY DEF Init, Length, Index
<1>2. TypeOK
  BY SlotAssumption DEF Init, TypeOK, NoHold, Hold, LockT, PC
<1>3. UseInv
  BY DEF Init, NeverShared, UseInv, OneAddress, OneProgram
<1>4. HoldsInv /\ ItemsInv
  BY <1>1 DEF Init, HoldsInv, ItemsInv, NoTwoItems, NoHold
<1>5. CallsInv
  BY <1>1, SlotAssumption DEF Init, CallsInv, CallInv, TargetInv, SearchInv, ListPc, ItemPc, WaitPc
<1>6. SizeInv
  <2>1. Used \subseteq Key
    BY <1>2, SlotAssumption DEF TypeOK, Used
  <2>2. Cardinality(Used) \in Nat
    BY <2>1, SlotAssumption, FS_Subset, FS_CardinalityType
  <2> QED BY <1>1, <2>2 DEF SizeInv
<1> QED BY <1>2, <1>3, <1>4, <1>5, <1>6 DEF ListInv

LEMMA LockNodeStep ==
  ASSUME ListInv, NEW t \in Thread, NEW k \in Key, NEW lockT \in LockT, LockNode(t, k, lockT)
  PROVE  ListInv'
<1>1. Length \in Nat /\ TypeOK
  BY DEF ListInv, TypeOK, Length
<1>2. TypeOK'
  BY <1>1 DEF LockNode, TypeOK, Goto, PC, Length
<1>3. Others(t)
  BY <1>1, SlotAssumption DEF LockNode, Others, Goto, TypeOK, ListIsFree
<1>4. /\ pc'[t] = "search" /\ Key_(t)' = k /\ iter'[t] = Length /\ firstFree'[t] = 0
      /\ want'[t].lockT = lockT /\ lock' = t
  BY <1>1 DEF LockNode, Goto, TypeOK, Key_, Length
<1>5. CallInv(t)'
  BY <1>1, <1>4 DEF LockNode, CallInv, ListInv, CallsInv, HoldOf, ListPc, ItemPc, WaitPc,
                    Index, Length, Key_
<1>6. TargetInv(t)' /\ SearchInv(t)'
  BY <1>1, <1>4 DEF LockNode, TargetInv, SearchInv, ItemPc, WaitPc, Length
<1> QED BY <1>2, <1>3, <1>4, <1>5, <1>6, CallStep DEF LockNode

LEMMA UnlockNodeStep ==
  ASSUME ListInv, NEW t \in Thread, NEW k \in Key, UnlockNode(t, k)
  PROVE  ListInv'
<1>1. Length \in Nat /\ TypeOK
  BY DEF ListInv, TypeOK, Length
<1>2. TypeOK'
  BY <1>1 DEF UnlockNode, TypeOK, Goto, PC, Length, client
<1>3. Others(t)
  BY <1>1, SlotAssumption DEF UnlockNode, Others, Goto, TypeOK, ListIsFree, client
<1>4. /\ pc'[t] = "u_search" /\ Key_(t)' = k /\ iter'[t] = Length /\ lock' = t
      /\ HoldOf(t)' = holds[t][k] /\ UNCHANGED <<items, program, holds>>
  BY <1>1 DEF UnlockNode, Goto, TypeOK, Key_, HoldOf, Length, client
<1>5. /\ k \in program[t]
      /\ IF holds[t][k].count > 0
           THEN \E j \in 1..Length : items[j].address = k
           ELSE \A u \in Thread \ {t} : k \notin program[u]
  BY DEF UnlockNode, ListInv, HoldsInv, Index
<1>6. CallInv(t)'
  BY <1>1, <1>4, <1>5 DEF UnlockNode, CallInv, ListInv, CallsInv, ListPc, ItemPc, WaitPc,
                          Index, Length
<1>7. TargetInv(t)' /\ SearchInv(t)'
  BY <1>4 DEF TargetInv, SearchInv, ItemPc, WaitPc
<1> QED BY <1>2, <1>3, <1>4, <1>6, <1>7, CallStep DEF UnlockNode

LEMMA SearchHitStep ==
  ASSUME ListInv, NEW t \in Thread, SearchHit(t)
  PROVE  ListInv'
<1>1. Length \in Nat /\ TypeOK /\ CallInv(t)
  BY DEF ListInv, TypeOK, Length, CallsInv
<1>2. TypeOK'
  BY <1>1 DEF SearchHit, TypeOK, Goto, PC, client
<1>3. Others(t)
  BY <1>1 DEF SearchHit, Others, Goto, TypeOK, client
<1>4. /\ pc[t] = "search" /\ pc'[t] = "enter" /\ Key_(t)' = Key_(t) /\ HoldOf(t)' = HoldOf(t)
      /\ UNCHANGED <<items, program, holds, want, iter, lock>>
  BY <1>1 DEF SearchHit, Goto, TypeOK, Key_, HoldOf, client
<1>5. iter[t] \in Index /\ items[iter[t]].address = Key_(t)
  BY <1>1 DEF SearchHit, CallInv, Index, Key_, at
<1>6. Key_(t) # NullAddress
  BY <1>1, <1>4, SlotAssumption DEF CallInv, TypeOK
<1>7. CallInv(t)'
  BY <1>1, <1>4, <1>5 DEF CallInv, ListPc, ItemPc, WaitPc, Index, Length
<1>8. TargetInv(t)' /\ SearchInv(t)'
  BY <1>4, <1>5, <1>6 DEF TargetInv, SearchInv, ListInv, ItemsInv, NoTwoItems, Index, Length
<1> QED BY <1>2, <1>3, <1>4, <1>7, <1>8, CallStep

LEMMA SearchMissStep ==
  ASSUME ListInv, NEW t \in Thread, SearchMiss(t)
  PROVE  ListInv'
<1>1. Length \in Nat /\ TypeOK /\ CallInv(t) /\ SearchInv(t)
  BY DEF ListInv, TypeOK, Length, CallsInv
<1>2. iter[t] \in Index /\ iter[t] \in 1..Length /\ pc[t] = "search" /\ firstFree[t] \in 0..Length
  BY <1>1 DEF SearchMiss, CallInv, SearchInv, Index
<1>3. TypeOK'
  BY <1>1, <1>2 DEF SearchMiss, TypeOK, client
<1>4. Others(t)
  BY <1>1 DEF SearchMiss, Others, TypeOK, client
<1>5. /\ iter'[t] = iter[t] - 1 /\ pc'[t] = "search" /\ Key_(t)' = Key_(t) /\ HoldOf(t)' = HoldOf(t)
      /\ UNCHANGED <<items, program, holds, want, pc, lock>>
      /\ OneAddress' = OneAddress /\ OneProgram' = OneProgram
      /\ items[iter[t]].address # Key_(t)
      /\ firstFree'[t] = IF firstFree[t] = 0 /\ items[iter[t]].address = NullAddress
                           THEN iter[t] ELSE firstFree[t]
  BY <1>1 DEF SearchMiss, TypeOK, Key_, HoldOf, client, OneAddress, OneProgram, at, IsFree
<1>6. CallInv(t)'
  BY <1>1, <1>2, <1>5 DEF CallInv, ListPc, ItemPc, WaitPc, Index, Length
<1>7. TargetInv(t)'
  BY <1>5 DEF TargetInv, ItemPc, WaitPc
<1>8. SearchInv(t)'
  <2>1. firstFree'[t] \in 0..Length' /\ Length' = Length
    BY <1>1, <1>2, <1>5 DEF Length
  <2>2. OneAddress => firstFree'[t] # 0
    <3>1. OneAddress => items[iter[t]].address = NullAddress
      BY <1>2, <1>5, OneAddressItems
    <3> QED BY <1>2, <1>5, <3>1
  <2>3. ASSUME OneProgram, NEW j \in iter[t]..Length
        PROVE  items[j].address # Key_(t) /\ (firstFree'[t] = 0 => items[j].address # NullAddress)
    <3>1. CASE j = iter[t]
      BY <1>2, <1>5, <3>1
    <3>2. CASE j # iter[t]
      BY <1>1, <1>2, <1>5, <2>3, <3>2 DEF SearchInv
    <3> QED BY <3>1, <3>2
  <2>4. OneProgram /\ firstFree'[t] # 0 => items[firstFree'[t]].address = NullAddress
    BY <1>1, <1>2, <1>5 DEF SearchInv
  <2>5. iter'[t] + 1 = iter[t]
    BY <1>2, <1>5
  <2> QED BY <1>5, <2>1, <2>2, <2>3, <2>4, <2>5 DEF SearchInv
<1> QED BY <1>2, <1>3, <1>4, <1>5, <1>6, <1>7, <1>8, CallStep
LEMMA UseFreeStep ==
  ASSUME ListInv, NEW t \in Thread, UseFree(t)
  PROVE  ListInv'
<1>1. Length \in Nat /\ TypeOK /\ CallInv(t) /\ SearchInv(t)
  BY DEF ListInv, TypeOK, Length, CallsInv
<1>2. TypeOK'
  BY <1>1 DEF UseFree, TypeOK, Goto, PC, client
<1>3. Others(t)
  BY <1>1 DEF UseFree, Others, Goto, TypeOK, client
<1>4. /\ pc[t] = "search" /\ pc'[t] = "enter" /\ Key_(t)' = Key_(t) /\ HoldOf(t)' = HoldOf(t)
      /\ UNCHANGED <<items, program, holds, want, lock>>
      /\ iter[t] = 0 /\ iter'[t] = firstFree[t] /\ firstFree[t] \in Index
  BY <1>1 DEF UseFree, Goto, TypeOK, Key_, HoldOf, client, SearchInv, Index
<1>5. CallInv(t)'
  BY <1>1, <1>4 DEF CallInv, ListPc, ItemPc, WaitPc, Index, Length
<1>6. /\ items[firstFree[t]].address \in {NullAddress, Key_(t)}
      /\ \A j \in Index \ {firstFree[t]} : items[j].address # Key_(t)
  <2>1. CASE OneAddress
    BY <1>1, <1>4, <2>1, OneAddressItems DEF ListInv, SizeInv, Index
  <2>2. CASE OneProgram
    BY <1>1, <1>4, <2>2 DEF SearchInv, Index
  <2> QED BY <2>1, <2>2 DEF ListInv, UseInv
<1>7. TargetInv(t)' /\ SearchInv(t)'
  BY <1>4, <1>6 DEF TargetInv, SearchInv, Index, Length
<1> QED BY <1>2, <1>3, <1>4, <1>5, <1>7, CallStep

LEMMA UnlockSearchStep ==
  ASSUME ListInv, NEW t \in Thread, UnlockSearch(t)
  PROVE  ListInv'
<1>1. Length \in Nat /\ TypeOK /\ CallInv(t)
  BY DEF ListInv, TypeOK, Length, CallsInv
<1>2. /\ pc[t] = "u_search" /\ iter[t] \in 1..Length /\ iter[t] \in Index
      /\ Key_(t) \in program[t] /\ Key_(t) \in Key /\ Key_(t) # NullAddress
  BY <1>1, SlotAssumption DEF UnlockSearch, CallInv, Index, TypeOK
<1>3. TypeOK'
  <2>1. iter' \in [Thread -> Nat]
    <3>1. iter[t] - 1 \in Nat /\ iter \in [Thread -> Nat]
      BY <1>1, <1>2 DEF TypeOK
    <3>2. iter' = iter \/ iter' = [iter EXCEPT ![t] = iter[t] - 1]
      BY DEF UnlockSearch
    <3> QED BY <3>1, <3>2
  <2>2. pc' \in [Thread -> PC]
    BY <1>1 DEF UnlockSearch, TypeOK, Goto, PC
  <2> QED BY <1>1, <2>1, <2>2 DEF UnlockSearch, TypeOK, client
<1>4. Others(t)
  BY <1>1 DEF UnlockSearch, Others, Goto, TypeOK, client
<1>5. /\ Key_(t)' = Key_(t) /\ HoldOf(t)' = HoldOf(t)
      /\ UNCHANGED <<items, program, holds, want, lock>>
  BY DEF UnlockSearch, Key_, HoldOf, client
<1>6. CASE items[iter[t]].address = Key_(t)
  <2>1. pc'[t] = "u_item" /\ iter'[t] = iter[t]
    BY <1>1, <1>6 DEF UnlockSearch, Goto, TypeOK, at, Key_
  <2>2. HoldOf(t).count > 0
    <3>1. PICK u \in Thread : holds[u][Key_(t)].count > 0
      BY <1>2, <1>6 DEF ListInv, ItemsInv, RecordInv
    <3>2. Key_(t) \in program[u]
      BY <1>2, <3>1 DEF ListInv, HoldsInv
    <3>3. CASE u = t
      BY <3>1, <3>3 DEF HoldOf
    <3>4. CASE u # t
      BY <1>1, <1>2, <3>2, <3>4 DEF CallInv
    <3> QED BY <3>3, <3>4
  <2>3. CallInv(t)'
    BY <1>1, <1>2, <1>5, <2>1, <2>2 DEF CallInv, ListPc, ItemPc, WaitPc, Index, Length
  <2>4. TargetInv(t)' /\ SearchInv(t)'
    BY <1>2, <1>5, <1>6, <2>1 DEF TargetInv, SearchInv, ListInv, ItemsInv, NoTwoItems, Index, Length
  <2> QED BY <1>2, <1>3, <1>4, <1>5, <2>1, <2>3, <2>4, CallStep
<1>7. CASE items[iter[t]].address # Key_(t)
  <2>1. pc'[t] = "u_search" /\ iter'[t] = iter[t] - 1
    BY <1>1, <1>2, <1>7 DEF UnlockSearch, TypeOK, at, Key_
  <2>2. HoldOf(t).count > 0 => \E j \in 1..(iter[t] - 1) : items[j].address = Key_(t)
    BY <1>1, <1>2, <1>7 DEF CallInv
  <2>3. CallInv(t)'
    BY <1>1, <1>2, <1>5, <2>1, <2>2 DEF CallInv, ListPc, ItemPc, WaitPc, Index, Length
  <2>4. TargetInv(t)' /\ SearchInv(t)'
    BY <2>1 DEF TargetInv, SearchInv, ItemPc, WaitPc
  <2> QED BY <1>2, <1>3, <1>4, <1>5, <2>1, <2>3, <2>4, CallStep
<1> QED BY <1>6, <1>7

(* The address that is not found is not held: nothing is released.         *)
LEMMA UnlockNotFoundStep ==
  ASSUME ListInv, NEW t \in Thread, UnlockNotFound(t)
  PROVE  ListInv'
<1>1. Length \in Nat /\ TypeOK /\ CallInv(t)
  BY DEF ListInv, TypeOK, Length, CallsInv
<1>2. pc[t] = "u_search" /\ iter[t] = 0 /\ Key_(t) \in Key /\ HoldOf(t) \in Hold
  BY <1>1, SlotAssumption DEF UnlockNotFound, CallInv, TypeOK, HoldOf
<1>3. HoldOf(t).count = 0 /\ HoldOf(t) = NoHold
  <2>1. HoldOf(t).count = 0
    BY <1>1, <1>2 DEF CallInv, Hold
  <2>2. HoldOf(t).mode = "NONE"
    BY <1>2, <2>1 DEF ListInv, HoldsInv, HoldOf
  <2> QED BY <1>2, <2>1, <2>2 DEF Hold, NoHold
<1>4. holds' = holds
  BY <1>1, <1>2, <1>3 DEF UnlockNotFound, Released, OneLess, NoHold, TypeOK, HoldOf, Key_
<1>5. /\ pc'[t] = "idle" /\ lock' = NoThread /\ UNCHANGED <<items, want, iter, firstFree, program, calls>>
  BY <1>1 DEF UnlockNotFound, Released, Goto, TypeOK
<1>6. TypeOK'
  BY <1>1, <1>4 DEF UnlockNotFound, Released, TypeOK, Goto, PC
<1>7. Others(t)
  BY <1>1, <1>4, <1>5, SlotAssumption DEF UnlockNotFound, Released, Others, Goto, TypeOK, CallInv, ListPc
<1>8. CallInv(t)' /\ TargetInv(t)' /\ SearchInv(t)'
  BY <1>1, <1>2, <1>5, SlotAssumption DEF CallInv, TargetInv, SearchInv, ListPc, ItemPc, WaitPc, Index, Length
<1> QED BY <1>2, <1>4, <1>5, <1>6, <1>7, <1>8, CallStep

(* An item is added when no item has the address and none is free: the     *)
(* items have the other addresses in use, each its own.                    *)
LEMMA NoneFree ==
  ASSUME ListInv, NEW t \in Thread, pc[t] = "search", iter[t] = 0, firstFree[t] = 0
  PROVE  /\ OneAddress => Length = 0
         /\ Length + 1 <= Cardinality(Used)
         /\ \A i \in Index : items[i].address # Key_(t)
<1>1. Length \in Nat /\ TypeOK /\ CallInv(t) /\ SearchInv(t)
  BY DEF ListInv, TypeOK, Length, CallsInv
<1>2. Key_(t) \in Used /\ Used \subseteq Key
  BY <1>1, SlotAssumption DEF CallInv, Used, TypeOK
<1>3. IsFiniteSet(Used) /\ IsFiniteSet(Used \ {Key_(t)})
      /\ Cardinality(Used) \in Nat /\ Cardinality(Used \ {Key_(t)}) = Cardinality(Used) - 1
      /\ Cardinality(Used \ {Key_(t)}) \in Nat
  BY <1>2, SlotAssumption, FS_Subset, FS_CardinalityType, FS_RemoveElement
<1>4. OneAddress => Length = 0
  BY <1>1 DEF SearchInv
<1>5. CASE OneAddress
  BY <1>1, <1>3, <1>4, <1>5 DEF Index
<1>6. CASE OneProgram
  <2>1. \A i \in Index : items[i].address # Key_(t) /\ items[i].address # NullAddress
    BY <1>1, <1>6 DEF SearchInv, Index
  <2>2. \A i \in Index : items[i].address \in Used \ {Key_(t)}
    <3> TAKE i \in Index
    <3>1. items[i].address \in Key
      BY <2>1, ItemFields DEF ListInv
    <3>2. PICK u \in Thread : holds[u][items[i].address].count > 0
      BY <2>1 DEF ListInv, ItemsInv, RecordInv
    <3> QED BY <2>1, <3>1, <3>2 DEF ListInv, HoldsInv, Used
  <2> DEFINE f == [i \in 1..Length |-> items[i].address]
  <2>3. f \in Injection(1..Length, Used \ {Key_(t)})
    BY <2>1, <2>2 DEF Injection, IsInjective, ListInv, ItemsInv, NoTwoItems, Index
  <2>4. Cardinality(1..Length) <= Cardinality(Used \ {Key_(t)}) /\ Cardinality(1..Length) = Length
    BY <1>1, <1>3, <2>3, FS_Injection, FS_Interval
  <2> QED BY <1>1, <1>3, <1>4, <2>1, <2>4
<1> QED BY <1>5, <1>6 DEF ListInv, UseInv

LEMMA AddItemStep ==
  ASSUME ListInv, NEW t \in Thread, AddItem(t)
  PROVE  ListInv'
<1>0. PICK n : n = Length + 1
  OBVIOUS
<1>1. Length \in Nat /\ TypeOK /\ CallInv(t) /\ Length = Len(items)
  BY DEF ListInv, TypeOK, Length, CallsInv
<1>2. /\ OneAddress => Length = 0
      /\ n <= Cardinality(Used)
      /\ \A i \in Index : items[i].address # Key_(t)
  BY <1>0, NoneFree DEF AddItem
<1>3. NewItem \in Item
  BY SlotAssumption DEF NewItem, Item
<1>4. items' \in Seq(Item) /\ Length' = n /\ items'[n] = NewItem
      /\ \A i \in Index : items'[i] = items[i]
  BY <1>0, <1>1, <1>3, AppendProperties DEF AddItem, TypeOK, Length, Index
<1>5. Index' = Index \cup {n} /\ n \notin Index
  BY <1>0, <1>1, <1>4 DEF Index
<1>6. TypeOK'
  BY <1>1, <1>4 DEF AddItem, TypeOK, Goto, PC, client, Length
<1>7. Others(t)
  BY <1>1 DEF AddItem, Others, Goto, TypeOK, client
<1>8. /\ pc[t] = "search" /\ pc'[t] = "enter" /\ Key_(t)' = Key_(t) /\ HoldOf(t)' = HoldOf(t)
      /\ UNCHANGED <<program, holds, want, lock>> /\ iter'[t] = n
      /\ OneAddress' = OneAddress /\ OneProgram' = OneProgram /\ Used' = Used
  BY <1>0, <1>1 DEF AddItem, Goto, TypeOK, Key_, HoldOf, client, OneAddress, OneProgram, Used,
                    Length
<1>9. HoldsInv'
  BY <1>4, <1>5, <1>8 DEF HoldsInv, ListInv
<1>10. \A u \in Thread : iter[u] # n \/ pc[u] \notin ItemPc
  BY <1>5 DEF ListInv, CallsInv, CallInv
<1>11. ItemsInv'
  <2>1. NoTwoItems'
    BY <1>4, <1>5 DEF NewItem, NoTwoItems, ListInv, ItemsInv
  <2>2. ASSUME NEW i \in Index PROVE RecordInv(i)' /\ MarkInv(i)'
    <3>1. items'[i] = items[i] /\ i # n /\ RecordInv(i) /\ MarkInv(i)
      BY <1>4, <1>5 DEF ListInv, ItemsInv
    <3>2. \A u \in Thread : Drains(u, i)' <=> Drains(u, i)
      BY <1>7, <1>8, <3>1 DEF Drains, Others
    <3> QED BY <1>8, <3>1, <3>2 DEF RecordInv, MarkInv, Reads, Writes
  <2>3. RecordInv(n)'
    <3>1. IsSum(0, [u \in Thread |-> 0])
      <4>1. Tokens([u \in Thread |-> 0]) = {}
        BY DEF Tokens
      <4> QED BY <4>1, FS_EmptySet DEF IsSum
    <3> QED BY <1>4, <3>1, SlotAssumption DEF RecordInv, NewItem, Reads, Writes
  <2>4. MarkInv(n)'
    BY <1>4, <1>7, <1>8, <1>10 DEF MarkInv, NewItem, Drains, Others, ItemPc, WaitPc
  <2> QED BY <1>5, <2>1, <2>2, <2>3, <2>4 DEF ItemsInv
<1>12. ASSUME NEW u \in Thread PROVE CallInv(u)' /\ TargetInv(u)' /\ SearchInv(u)'
  <2>1. \A i \in Index' : items'[i].data_lock = u <=> i \in Index /\ items[i].data_lock = u
    BY <1>4, <1>5, SlotAssumption DEF NewItem
  <2>2. CASE u = t
    <3>1. CallInv(t)'
      BY <1>1, <1>5, <1>8, <2>1, <2>2 DEF CallInv, ListPc, ItemPc, WaitPc
    <3>2. TargetInv(t)' /\ SearchInv(t)'
      BY <1>0, <1>2, <1>4, <1>5, <1>8 DEF TargetInv, SearchInv, NewItem
    <3> QED BY <2>2, <3>1, <3>2
  <2>3. CASE u # t
    <3>1. /\ pc'[u] = pc[u] /\ want'[u] = want[u] /\ iter'[u] = iter[u] /\ Key_(u)' = Key_(u)
          /\ firstFree'[u] = firstFree[u] /\ HoldOf(u)' = HoldOf(u) /\ program' = program
          /\ (lock' = u <=> lock = u)
      BY <1>7, <2>3 DEF Others, Key_, HoldOf
    <3>2. CallInv(u) /\ TargetInv(u) /\ pc[u] \notin ListPc
      BY <1>1, <1>8, <2>3 DEF ListInv, CallsInv, CallInv, ListPc
    <3>3. pc[u] \in ItemPc => Length = 0
      BY <1>2, <1>8, <2>3, TwoCalls DEF ItemPc, WaitPc
    <3>4. pc[u] \notin ItemPc
      BY <1>1, <3>2, <3>3 DEF CallInv, Index
    <3>5. \A i \in Index' : items'[i].data_lock # u
      BY <2>1, <3>2, <3>4 DEF CallInv, ItemPc
    <3> QED
      BY <3>1, <3>2, <3>4, <3>5 DEF CallInv, TargetInv, SearchInv, ListPc, ItemPc
  <2> QED BY <2>2, <2>3
<1>13. SizeInv' /\ UseInv'
  BY <1>0, <1>2, <1>4, <1>8 DEF SizeInv, UseInv, ListInv
<1> QED BY <1>6, <1>9, <1>11, <1>12, <1>13 DEF ListInv, CallsInv
-----------------------------------------------------------------------------
(* Then the steps on an item.  Those that change its data_lock and its     *)
(* mark, and nothing else.                                                 *)
LEMMA QuietItemStep ==
  ASSUME ListInv, NEW t \in Thread, pc[t] \in ItemPc, Others(t), TypeOK',
         NEW i, i = iter[t], ChangesOnly(i), DataLockOf(t, i), SameRecords(i),
         pc'[t] \in ItemPc, iter' = iter, want' = want, holds' = holds,
         MarkInv(i)', CallInv(t)'
  PROVE  ListInv'
<1>1. PICK k : k = Key_(t)
  OBVIOUS
<1>2. /\ i \in Index /\ k \in Key /\ items[i].address \in {NullAddress, k}
      /\ \A u \in Thread : holds[u][k].count > 0 => items[i].address = k
      /\ \A u \in Thread : holds[u][k].mode = "NONE" <=> holds[u][k].count = 0
  BY <1>1, AtItem
<1>3. RecordInv(i)'
  <2>1. RecordInv(i)
    BY <1>2 DEF ListInv, ItemsInv
  <2>2. \A u \in Thread : \A a : Reads(u, a)' = Reads(u, a) /\ (Writes(u, a)' <=> Writes(u, a))
    BY DEF Reads, Writes
  <2> QED BY <2>1, <2>2 DEF SameRecords, RecordInv
<1>4. Key_(t)' = k
  BY <1>1 DEF Key_
<1>5. /\ pc'[t] \in {"idle"} \cup ItemPc /\ iter'[t] = i
      /\ \A a \in Key \ {k} : holds'[t][a] = holds[t][a]
      /\ holds'[t][k].mode = "NONE" <=> holds'[t][k].count = 0
      /\ \A u \in Thread : holds'[u][k].count > 0 => items'[i].address = k
      /\ items'[i].address \in {NullAddress, k}
  BY <1>2 DEF SameRecords
<1> QED BY <1>1, <1>3, <1>4, <1>5, ItemStep

LEMMA EnterItemStep ==
  ASSUME ListInv, NEW t \in Thread, EnterItem(t)
  PROVE  ListInv'
<1>1. TypeOK /\ CallInv(t) /\ pc[t] = "enter" /\ pc[t] \in ItemPc
  BY DEF ListInv, CallsInv, EnterItem, ItemPc
<1>2. PICK i : i = iter[t]
  OBVIOUS
<1>3. i \in Index /\ i \in 1..Len(items) /\ items[i] \in Item /\ items[i].data_lock = NoThread
  BY <1>1, <1>2, AtItem, ItemFields DEF Index, Length, EnterItem, at
<1>4. PICK r : r = [items[i] EXCEPT !.data_lock = t]
  OBVIOUS
<1>5. r \in Item /\ r.data_lock = t
  BY <1>3, <1>4 DEF Item
<1>6. items' = [items EXCEPT ![i] = r] /\ items'[i] = r
      /\ \A j \in Index \ {i} : items'[j] = items[j]
  <2>1. items' = [items EXCEPT ![i] = r]
    BY <1>2, <1>4 DEF EnterItem
  <2> QED BY <1>1, <1>3, <2>1 DEF TypeOK, Index, Length
<1>7. items' \in Seq(Item) /\ Index' = Index
  BY <1>1, <1>3, <1>5, <1>6 DEF TypeOK, Index, Length
<1>8. TypeOK'
  BY <1>1, <1>7 DEF EnterItem, TypeOK, Goto, PC, client
<1>9. Others(t) /\ lock' # t
  BY <1>1, SlotAssumption DEF EnterItem, Others, Goto, TypeOK, client, CallInv, ListPc
<1>10. /\ pc'[t] = "inside" /\ UNCHANGED <<program, holds, want, iter>>
       /\ Key_(t)' = Key_(t) /\ HoldOf(t)' = HoldOf(t)
  BY <1>1 DEF EnterItem, Goto, TypeOK, client, Key_, HoldOf
<1>11. CallInv(t)'
  BY <1>1, <1>2, <1>3, <1>5, <1>6, <1>7, <1>9, <1>10, SlotAssumption
     DEF CallInv, ListPc, ItemPc, WaitPc
<1>12. MarkInv(i)'
  <2>1. \A u \in Thread : Drains(u, i)' <=> Drains(u, i)
    BY <1>1, <1>9, <1>10 DEF Drains, Others
  <2> QED BY <1>3, <1>4, <1>6, <2>1 DEF MarkInv, ListInv, ItemsInv, Item
<1>13. pc'[t] \in ItemPc
  BY <1>10 DEF ItemPc
<1>14. ChangesOnly(i) /\ DataLockOf(t, i) /\ SameRecords(i)
  <2>1. ChangesOnly(i)
    BY <1>1, <1>3, <1>6 DEF ChangesOnly, Index, Length, TypeOK
  <2>2. DataLockOf(t, i)
    BY <1>3, <1>5, <1>6, SlotAssumption DEF DataLockOf
  <2>3. SameRecords(i)
    BY <1>3, <1>4, <1>6 DEF SameRecords, Item
  <2> QED BY <2>1, <2>2, <2>3
<1> QED BY <1>1, <1>2, <1>8, <1>9, <1>10, <1>11, <1>12, <1>13, <1>14, QuietItemStep

(* What the steps under data_lock share.                                   *)
LEMMA LeaveItem ==
  ASSUME ListInv, NEW t \in Thread, pc[t] \in ItemPc,
         pc[t] = "inside" \/ at(t).data_lock = NoThread,
         NEW i, i = iter[t], NEW q \in Item, Leave(t, q)
  PROVE  /\ i \in Index /\ items[i] \in Item /\ at(t) = items[i]
         /\ items' \in Seq(Item) /\ Index' = Index
         /\ items'[i] = [q EXCEPT !.data_lock = NoThread] /\ items'[i] \in Item
         /\ ChangesOnly(i) /\ DataLockOf(t, i)
         /\ \A j \in Index : items'[j].data_lock # t
<1>1. TypeOK /\ CallInv(t) /\ i \in Index /\ i \in 1..Len(items) /\ items[i] \in Item
      /\ at(t) = items[i]
  BY AtItem, ItemFields DEF ListInv, CallsInv, Index, Length, at
<1>2. PICK r : r = [q EXCEPT !.data_lock = NoThread]
  OBVIOUS
<1>3. r \in Item /\ r.data_lock = NoThread
  BY <1>2 DEF Item
<1>4. /\ items' = [items EXCEPT ![i] = r] /\ items'[i] = r
      /\ \A j \in Index \ {i} : items'[j] = items[j]
      /\ items' \in Seq(Item) /\ Index' = Index /\ Length' = Length
  BY <1>1, <1>2, <1>3 DEF Leave, TypeOK, Index, Length
<1>5. items[i].data_lock = t \/ items[i].data_lock = NoThread
  BY <1>1 DEF CallInv
<1>6. \A j \in Index \ {i} : items[j].data_lock # t
  BY <1>1 DEF CallInv
<1>7. /\ items'[i] = [q EXCEPT !.data_lock = NoThread] /\ items'[i] \in Item
  BY <1>2, <1>3, <1>4
<1>8. \A u \in Thread : items'[i].data_lock # u
  BY <1>3, <1>4, SlotAssumption
<1>9. \A u \in Thread \ {t} : items[i].data_lock # u
  BY <1>5, SlotAssumption
<1>10. \A j \in Index : items'[j].data_lock # t
  BY <1>4, <1>6, <1>8
<1> QED BY <1>1, <1>4, <1>7, <1>8, <1>9, <1>10 DEF ChangesOnly, DataLockOf

(* A call that waits keeps the rest of the item as it was.                 *)
LEMMA WaitStep ==
  ASSUME ListInv, NEW t \in Thread, NEW l \in WaitPc, pc[t] \in {"inside", "w_wait"},
         pc[t] = "inside" \/ at(t).data_lock = NoThread,
         HoldOf(t).mode = "NONE", (l = "r_wait") <=> (want[t].lockT = "READ"),
         NEW s \in {"not_exclusive", "exclusive"},
         Leave(t, [at(t) EXCEPT !.status = s]), Waits(t, l),
         NEW i, i = iter[t], MarkInv(i)'
  PROVE  ListInv'
<1>1. TypeOK /\ CallInv(t) /\ pc[t] \in ItemPc
  BY DEF ListInv, CallsInv, ItemPc, WaitPc
<1>2. at(t) = items[i] /\ i \in Index /\ items[i] \in Item
  BY <1>1, AtItem, ItemFields DEF at, ListInv
<1>3. PICK q : q = [at(t) EXCEPT !.status = s]
  OBVIOUS
<1>4. q \in Item
  BY <1>2, <1>3 DEF Item
<1>5. /\ items' \in Seq(Item) /\ Index' = Index /\ ChangesOnly(i) /\ DataLockOf(t, i)
      /\ items'[i] = [q EXCEPT !.data_lock = NoThread]
      /\ \A j \in Index : items'[j].data_lock # t
  <2>1. Leave(t, q)
    BY <1>3
  <2> QED BY <1>1, <1>4, <2>1, LeaveItem
<1>6. TypeOK'
  BY <1>1, <1>5 DEF Waits, TypeOK, Goto, PC, WaitPc, client
<1>7. Others(t)
  BY <1>1 DEF Waits, Others, Goto, TypeOK, client
<1>8. /\ pc'[t] = l /\ UNCHANGED <<program, holds, want, iter, lock>>
      /\ Key_(t)' = Key_(t) /\ HoldOf(t)' = HoldOf(t)
  BY <1>1 DEF Waits, Goto, TypeOK, client, Key_, HoldOf
<1>9. want[t].lockT \in {"READ", "WRITE"}
  BY <1>1 DEF TypeOK, LockT
<1>10. CallInv(t)'
  BY <1>1, <1>5, <1>8, <1>9 DEF CallInv, ListPc, ItemPc, WaitPc
<1>11. SameRecords(i)
  BY <1>2, <1>3, <1>4, <1>5 DEF SameRecords, Item
<1>12. pc'[t] \in ItemPc
  BY <1>8 DEF ItemPc
<1> QED BY <1>1, <1>5, <1>6, <1>7, <1>8, <1>10, <1>11, <1>12, QuietItemStep
LEMMA ReadWaitStep ==
  ASSUME ListInv, NEW t \in Thread, ReadWait(t)
  PROVE  ListInv'
<1>1. TypeOK /\ CallInv(t) /\ pc[t] = "inside" /\ pc[t] \in ItemPc /\ want[t].lockT = "READ"
  BY DEF ListInv, CallsInv, ReadWait, ItemPc
<1>2. PICK i, k : i = iter[t] /\ k = Key_(t)
  OBVIOUS
<1>3. /\ i \in Index /\ k \in Key /\ at(t) = items[i] /\ items[i] \in Item
      /\ items[i].writer_thread_id # t /\ ~ IsReader(t)
      /\ items[i].readers[t] = Reads(t, k)
      /\ items[i].writer_thread_id = t <=> Writes(t, k)
  BY <1>1, <1>2, AtItem, ItemFields DEF at, ReadWait
<1>4. k # NullAddress /\ holds[t][k] \in Hold
  BY <1>1, <1>3, SlotAssumption DEF TypeOK
<1>5. items[i].readers[t] = 0
  <2>1. IsSum(items[i].total_readers_count, items[i].readers)
    BY <1>3 DEF ListInv, ItemsInv, RecordInv
  <2>2. items[i].readers \in [Thread -> Nat] /\ items[i].total_readers_count \in Nat
    BY <1>3 DEF Item
  <2>3. items[i].total_readers_count = 0 => items[i].readers[t] = 0
    BY <2>1, <2>2, SumZero
  <2> QED BY <1>1, <1>3, <2>2, <2>3 DEF IsReader
<1>6. HoldOf(t).mode = "NONE"
  <2>1. holds[t][k].mode # "WRITE"
    BY <1>3, <1>4 DEF Writes
  <2>2. holds[t][k].mode # "READ"
    BY <1>3, <1>4, <1>5 DEF Reads, ListInv, HoldsInv
  <2> QED BY <1>2, <1>4, <2>1, <2>2 DEF Hold, LockT, HoldOf
<1>7. /\ items[i].status \in {"not_exclusive", "exclusive"}
      /\ [items[i] EXCEPT !.status = items[i].status] = items[i]
  BY <1>3 DEF Item
<1>8. Leave(t, [at(t) EXCEPT !.status = items[i].status]) /\ Waits(t, "r_wait")
  BY <1>3, <1>7 DEF ReadWait
<1>9. MarkInv(i)'
  <2>1. items'[i] = [items[i] EXCEPT !.data_lock = NoThread]
    BY <1>1, <1>2, <1>3, <1>7, <1>8, LeaveItem
  <2>2. \A u \in Thread : Drains(u, i)' <=> Drains(u, i)
    BY <1>1, <1>8 DEF Drains, Waits, Goto, TypeOK
  <2> QED BY <1>3, <2>1, <2>2 DEF MarkInv, ListInv, ItemsInv, Item
<1> QED BY <1>1, <1>2, <1>6, <1>7, <1>8, <1>9, WaitStep DEF WaitPc

(* Whoever waits to write, or marks the item to do so, holds nothing.      *)
LEMMA WantsToWrite ==
  ASSUME ListInv, NEW t \in Thread, pc[t] \in {"inside", "w_wait"},
         want[t].lockT = "WRITE", at(t).writer_thread_id # t
  PROVE  HoldOf(t).mode = "NONE"
<1>1. TypeOK /\ CallInv(t) /\ pc[t] \in ItemPc
  BY DEF ListInv, CallsInv, ItemPc, WaitPc
<1>2. PICK i, k : i = iter[t] /\ k = Key_(t)
  OBVIOUS
<1>3. k \in Key /\ k # NullAddress /\ (items[i].writer_thread_id = t <=> Writes(t, k))
  BY <1>1, <1>2, AtItem
<1>4. holds[t][k] \in Hold /\ HoldOf(t) = holds[t][k]
  BY <1>1, <1>2, <1>3 DEF TypeOK, HoldOf
<1>5. holds[t][k].mode # "WRITE"
  BY <1>2, <1>3 DEF Writes, at
<1>6. holds[t][k].mode # "READ"
  BY <1>1, <1>4 DEF CallInv, WaitPc
<1> QED BY <1>4, <1>5, <1>6 DEF Hold, LockT

LEMMA WriteWaitStep ==
  ASSUME ListInv, NEW t \in Thread, WriteWait(t)
  PROVE  ListInv'
<1>1. /\ TypeOK /\ pc[t] = "inside" /\ pc[t] \in ItemPc
      /\ want[t].lockT = "WRITE" /\ HoldOf(t).mode = "NONE"
  BY WantsToWrite DEF ListInv, WriteWait, ItemPc
<1>2. PICK i : i = iter[t]
  OBVIOUS
<1>3. i \in Index /\ at(t) = items[i] /\ items[i] \in Item
  BY <1>1, <1>2, AtItem, ItemFields DEF at
<1>4. /\ items[i].status \in {"not_exclusive", "exclusive"}
      /\ [items[i] EXCEPT !.status = items[i].status] = items[i]
  BY <1>3 DEF Item
<1>5. Leave(t, [at(t) EXCEPT !.status = items[i].status]) /\ Waits(t, "w_wait")
  BY <1>3, <1>4 DEF WriteWait
<1>6. MarkInv(i)'
  <2>1. items'[i] = [items[i] EXCEPT !.data_lock = NoThread]
    BY <1>1, <1>2, <1>3, <1>4, <1>5, LeaveItem
  <2>2. \A u \in Thread : Drains(u, i)' <=> Drains(u, i)
    BY <1>1, <1>5 DEF Drains, Waits, Goto, TypeOK
  <2> QED BY <1>3, <2>1, <2>2 DEF MarkInv, ListInv, ItemsInv, Item
<1> QED BY <1>1, <1>2, <1>4, <1>5, <1>6, WaitStep DEF WaitPc

LEMMA ReserveStep ==
  ASSUME ListInv, NEW t \in Thread, Reserve(t)
  PROVE  ListInv'
<1>1. /\ TypeOK /\ pc[t] \in {"inside", "w_wait"} /\ pc[t] \in ItemPc
      /\ pc[t] = "inside" \/ at(t).data_lock = NoThread
      /\ want[t].lockT = "WRITE" /\ HoldOf(t).mode = "NONE"
  BY WantsToWrite DEF ListInv, Reserve, Running, ItemPc, WaitPc
<1>2. PICK i : i = iter[t]
  OBVIOUS
<1>3. i \in Index /\ at(t) = items[i] /\ items[i] \in Item /\ items[i].status = "not_exclusive"
  BY <1>1, <1>2, AtItem, ItemFields DEF at, Reserve
<1>4. PICK q : q = [items[i] EXCEPT !.status = "exclusive"]
  OBVIOUS
<1>5. q \in Item /\ Leave(t, q) /\ Leave(t, [at(t) EXCEPT !.status = "exclusive"])
      /\ Waits(t, "drain")
  BY <1>3, <1>4 DEF Reserve, Item
<1>6. MarkInv(i)'
  <2>1. items'[i] = [q EXCEPT !.data_lock = NoThread]
    BY <1>1, <1>2, <1>5, LeaveItem
  <2>2. items'[i].status = "exclusive" /\ items'[i].writer_thread_id = items[i].writer_thread_id
    BY <1>3, <1>4, <2>1 DEF Item
  <2>3. items[i].writer_thread_id = NoThread /\ \A u \in Thread : ~ Drains(u, i)
    <3>1. items[i].writer_thread_id \in Thread \cup {NoThread}
      BY <1>3 DEF Item
    <3> QED BY <1>3, <3>1 DEF MarkInv, ListInv, ItemsInv
  <2>4. \A u \in Thread : Drains(u, i)' <=> u = t
    BY <1>1, <1>2, <1>5, <2>3 DEF Drains, Waits, Goto, TypeOK
  <2> QED BY <2>2, <2>3, <2>4 DEF MarkInv
<1>7. "drain" \in WaitPc /\ "exclusive" \in {"not_exclusive", "exclusive"}
  BY DEF WaitPc
<1> QED BY <1>1, <1>2, <1>5, <1>6, <1>7, WaitStep
-----------------------------------------------------------------------------
(* The steps that grant a lock or release it: the call ends, the hold of   *)
(* its address becomes h and the item is left as q.                        *)
Ends(t, k, h) ==
  /\ holds' = [holds EXCEPT ![t][k] = h]
  /\ lock' \in Thread \cup {NoThread}
  /\ lock' # t
  /\ \A u \in Thread \ {t} : lock' = u <=> lock = u
  /\ Goto(t, "idle")
  /\ UNCHANGED <<want, iter, firstFree, program, calls>>

LEMMA EndStep ==
  ASSUME ListInv, NEW t \in Thread, pc[t] \in ItemPc,
         pc[t] = "inside" \/ at(t).data_lock = NoThread,
         NEW i, i = iter[t], NEW k, k = Key_(t), NEW h \in Hold, Ends(t, k, h),
         NEW q \in Item, Leave(t, q), q.address \in {NullAddress, k},
         h.mode = "NONE" <=> h.count = 0, h.count > 0 => q.address = k,
         \A u \in Thread \ {t} : holds[u][k].count > 0 => q.address = k,
         RecordInv(i)', MarkInv(i)'
  PROVE  ListInv'
<1>1. TypeOK /\ CallInv(t)
  BY DEF ListInv, CallsInv
<1>2. /\ items' \in Seq(Item) /\ Index' = Index /\ ChangesOnly(i) /\ DataLockOf(t, i)
      /\ items'[i] = [q EXCEPT !.data_lock = NoThread]
      /\ \A j \in Index : items'[j].data_lock # t
  BY LeaveItem
<1>3. k \in Key
  BY AtItem
<1>4. /\ holds' \in [Thread -> [Key -> Hold]] /\ holds'[t][k] = h
      /\ \A a \in Key \ {k} : holds'[t][a] = holds[t][a]
      /\ \A u \in Thread \ {t} : holds'[u] = holds[u]
  BY <1>1, <1>3 DEF Ends, TypeOK
<1>5. TypeOK'
  BY <1>1, <1>2, <1>4 DEF Ends, Goto, TypeOK, PC
<1>6. Others(t)
  BY <1>1, <1>4 DEF Ends, Goto, Others, TypeOK
<1>7. /\ pc'[t] = "idle" /\ UNCHANGED <<want, iter>> /\ lock' # t
      /\ Key_(t)' = k /\ iter'[t] = i /\ pc'[t] \in {"idle"} \cup ItemPc
  BY <1>1 DEF Ends, Goto, TypeOK, Key_
<1>8. CallInv(t)'
  BY <1>2, <1>7 DEF CallInv, ListPc, ItemPc, WaitPc
<1>9. items'[i].address = q.address
  BY <1>2 DEF Item
<1>10. /\ items'[i].address \in {NullAddress, k}
       /\ holds'[t][k].mode = "NONE" <=> holds'[t][k].count = 0
       /\ \A u \in Thread : holds'[u][k].count > 0 => items'[i].address = k
  BY <1>4, <1>9
<1> QED BY <1>2, <1>4, <1>5, <1>6, <1>7, <1>8, <1>10, ItemStep

(* What such a step starts from, and where its item and holds are after.   *)
LEMMA EndOfCall ==
  ASSUME ListInv, NEW t \in Thread, pc[t] \in ItemPc,
         pc[t] = "inside" \/ at(t).data_lock = NoThread,
         NEW i, i = iter[t], NEW k, k = Key_(t), NEW h \in Hold, Ends(t, k, h),
         NEW q \in Item, Leave(t, q)
  PROVE  /\ items'[i].address = q.address /\ items'[i].readers = q.readers
         /\ items'[i].total_readers_count = q.total_readers_count
         /\ items'[i].writer_thread_id = q.writer_thread_id
         /\ items'[i].writer_thread_lock_count = q.writer_thread_lock_count
         /\ items'[i].status = q.status
         /\ \A u \in Thread : holds'[u][k] = IF u = t THEN h ELSE holds[u][k]
         /\ \A u \in Thread : Drains(u, i)' <=> Drains(u, i) /\ u # t
<1>1. TypeOK /\ k \in Key
  BY AtItem DEF ListInv
<1>2. items'[i] = [q EXCEPT !.data_lock = NoThread]
  BY LeaveItem
<1>3. \A u \in Thread : holds'[u][k] = IF u = t THEN h ELSE holds[u][k]
  BY <1>1 DEF Ends, TypeOK
<1>4. \A u \in Thread : Drains(u, i)' <=> Drains(u, i) /\ u # t
  BY <1>1 DEF Ends, Goto, TypeOK, Drains
<1> QED BY <1>2, <1>3, <1>4 DEF Item

(* The item of a call, as the grants and releases use it.                  *)
LEMMA ItemRecords ==
  ASSUME ListInv, NEW t \in Thread, pc[t] \in ItemPc, NEW i, i = iter[t], NEW k, k = Key_(t)
  PROVE  /\ i \in Index /\ at(t) = items[i] /\ items[i] \in Item
         /\ k \in Key /\ k # NullAddress /\ items[i].address \in {NullAddress, k}
         /\ RecordInv(i) /\ MarkInv(i)
         /\ items[i].readers \in [Thread -> Nat] /\ items[i].total_readers_count \in Nat
         /\ IsSum(items[i].total_readers_count, items[i].readers)
         /\ items[i].writer_thread_id # NoThread => items[i].total_readers_count = 0
         /\ items[i].writer_thread_id \in Thread \cup {NoThread}
         /\ \A u \in Thread :
              /\ holds[u][k] \in Hold
              /\ holds[u][k].count > 0 => items[i].address = k
              /\ holds[u][k].mode = "NONE" <=> holds[u][k].count = 0
              /\ items[i].readers[u] = IF holds[u][k].mode = "READ" THEN holds[u][k].count ELSE 0
              /\ items[i].writer_thread_id = u <=> holds[u][k].mode = "WRITE"
              /\ holds[u][k].mode = "WRITE" =>
                   items[i].writer_thread_lock_count = holds[u][k].count
<1>1. TypeOK
  BY DEF ListInv
<1>2. i \in Index /\ k \in Key /\ k # NullAddress /\ items[i].address \in {NullAddress, k}
  BY AtItem
<1>3. items[i] \in Item /\ at(t) = items[i]
  BY <1>1, <1>2, ItemFields DEF at
<1>4. RecordInv(i) /\ MarkInv(i)
  BY <1>2 DEF ListInv, ItemsInv
<1>5. \A u \in Thread : holds[u][k] \in Hold
  BY <1>1, <1>2 DEF TypeOK
<1>6. \A u \in Thread :
        /\ holds[u][k].count > 0 => items[i].address = k
        /\ holds[u][k].mode = "NONE" <=> holds[u][k].count = 0
        /\ items[i].readers[u] = IF holds[u][k].mode = "READ" THEN holds[u][k].count ELSE 0
        /\ items[i].writer_thread_id = u <=> holds[u][k].mode = "WRITE"
        /\ holds[u][k].mode = "WRITE" => items[i].writer_thread_lock_count = holds[u][k].count
  BY <1>2, AtItem DEF Reads, Writes
<1> QED BY <1>2, <1>3, <1>4, <1>5, <1>6 DEF RecordInv, Item

LEMMA ReLockByWriterStep ==
  ASSUME ListInv, NEW t \in Thread, ReLockByWriter(t)
  PROVE  ListInv'
<1>1. TypeOK /\ CallInv(t) /\ pc[t] = "inside" /\ pc[t] \in ItemPc
  BY DEF ListInv, CallsInv, ReLockByWriter, ItemPc
<1>2. PICK i, k : i = iter[t] /\ k = Key_(t)
  OBVIOUS
<1>3. /\ at(t) = items[i] /\ items[i] \in Item /\ k \in Key /\ k # NullAddress
      /\ items[i].writer_thread_id = t /\ RecordInv(i) /\ MarkInv(i)
      /\ items[i].total_readers_count = 0 /\ holds[t][k] \in Hold
      /\ holds[t][k].mode = "WRITE" /\ holds[t][k].count # 0
      /\ items[i].writer_thread_lock_count = holds[t][k].count
      /\ items[i].address = k
      /\ \A u \in Thread :
           /\ items[i].readers[u] = IF holds[u][k].mode = "READ" THEN holds[u][k].count ELSE 0
           /\ items[i].writer_thread_id = u <=> holds[u][k].mode = "WRITE"
  BY <1>1, <1>2, ItemRecords, SlotAssumption DEF ReLockByWriter, Hold
<1>4. PICK h : h = [mode |-> "WRITE", count |-> holds[t][k].count + 1]
  OBVIOUS
<1>5. PICK q : q = [at(t) EXCEPT !.writer_thread_lock_count = @ + 1, !.address = want[t].key]
  OBVIOUS
<1>6. h \in Hold /\ q \in Item /\ Leave(t, q)
  <2>1. h \in Hold
    BY <1>3, <1>4 DEF Hold, LockT
  <2>2. q \in Item
    <3>1. q = [items[i] EXCEPT !.writer_thread_lock_count = items[i].writer_thread_lock_count + 1,
                               !.address = k]
      BY <1>2, <1>3, <1>5 DEF Key_
    <3>2. items[i].writer_thread_lock_count + 1 \in Nat
      BY <1>3 DEF Item
    <3> QED BY <1>3, <3>1, <3>2 DEF Item
  <2> QED BY <1>5, <2>1, <2>2 DEF ReLockByWriter
<1>12. /\ q.address = k /\ q.readers = items[i].readers /\ q.total_readers_count = 0
       /\ q.writer_thread_id = t /\ q.writer_thread_lock_count = h.count
       /\ q.status = items[i].status
  BY <1>2, <1>3, <1>4, <1>5 DEF Item, Key_
<1>7. Ends(t, k, h)
  BY <1>1, <1>2, <1>3, <1>4 DEF ReLockByWriter, Granted, Ends, TypeOK, CallInv, ListPc, Key_
<1>8. /\ items'[i].address = k /\ items'[i].readers = items[i].readers
      /\ items'[i].total_readers_count = 0
      /\ items'[i].writer_thread_id = t
      /\ items'[i].writer_thread_lock_count = h.count
      /\ items'[i].status = items[i].status
      /\ \A u \in Thread : holds'[u][k] = IF u = t THEN h ELSE holds[u][k]
      /\ \A u \in Thread : Drains(u, i)' <=> Drains(u, i) /\ u # t
  BY <1>1, <1>2, <1>6, <1>7, <1>12, EndOfCall
<1>9. RecordInv(i)'
  <2>1. h.count > 0 /\ h.mode = "WRITE"
    BY <1>3, <1>4 DEF Hold
  <2>2. \E u \in Thread : holds'[u][k].count > 0
    BY <1>8, <2>1
  <2>3. ASSUME NEW u \in Thread
        PROVE  /\ Reads(u, k)' = items[i].readers[u]
               /\ Writes(u, k)' <=> u = t
               /\ Writes(u, k)' => h.count = holds'[u][k].count
    BY <1>3, <1>8, <2>1 DEF Reads, Writes
  <2>4. IsSum(0, items[i].readers)
    BY <1>3 DEF RecordInv
  <2> QED BY <1>8, <2>2, <2>3, <2>4 DEF RecordInv
<1>10. MarkInv(i)'
  BY <1>1, <1>3, <1>8 DEF MarkInv, Drains
<1>11. /\ q.address = k /\ h.count > 0 /\ h.mode = "WRITE"
  BY <1>2, <1>3, <1>4, <1>5 DEF Item, Key_, Hold
<1> QED BY <1>1, <1>2, <1>6, <1>7, <1>9, <1>10, <1>11, EndStep

(* A reader is let in when nobody writes: the records of the item, free or *)
(* not, are the holds of the address it gets.                              *)
LEMMA ReadGrantStep ==
  ASSUME ListInv, NEW t \in Thread, ReadGrant(t)
  PROVE  ListInv'
<1>1. /\ TypeOK /\ CallInv(t) /\ pc[t] \in {"inside", "r_wait"} /\ pc[t] \in ItemPc
      /\ pc[t] = "inside" \/ at(t).data_lock = NoThread
  BY DEF ListInv, CallsInv, ReadGrant, Running, ItemPc, WaitPc
<1>2. PICK i, k : i = iter[t] /\ k = Key_(t)
  OBVIOUS
<1>3. /\ at(t) = items[i] /\ items[i] \in Item /\ k \in Key /\ k # NullAddress
      /\ items[i].writer_thread_id # t /\ RecordInv(i) /\ MarkInv(i)
      /\ items[i].readers \in [Thread -> Nat] /\ items[i].total_readers_count \in Nat
      /\ IsSum(items[i].total_readers_count, items[i].readers)
      /\ items[i].writer_thread_id \in Thread \cup {NoThread}
      /\ items[i].writer_thread_id # NoThread => items[i].total_readers_count = 0
      /\ \A u \in Thread :
           /\ holds[u][k] \in Hold
           /\ holds[u][k].mode = "NONE" <=> holds[u][k].count = 0
           /\ items[i].readers[u] = IF holds[u][k].mode = "READ" THEN holds[u][k].count ELSE 0
           /\ items[i].writer_thread_id = u <=> holds[u][k].mode = "WRITE"
  BY <1>1, <1>2, ItemRecords DEF ReadGrant
<1>4. items[i].writer_thread_id = NoThread
  <2>1. IsReader(t) => items[i].writer_thread_id = NoThread
    BY <1>3 DEF IsReader
  <2>2. items[i].status # "exclusive" => items[i].writer_thread_id = NoThread
    BY <1>3 DEF MarkInv
  <2> QED BY <1>3, <2>1, <2>2 DEF ReadGrant, MustWaitToRead
<1>5. PICK h : h = [mode |-> "READ", count |-> holds[t][k].count + 1]
  OBVIOUS
<1>6. PICK q : q = [at(t) EXCEPT !.readers[t] = @ + 1, !.total_readers_count = @ + 1,
                                 !.address = want[t].key]
  OBVIOUS
<1>7. /\ h \in Hold /\ h.mode = "READ" /\ h.count = items[i].readers[t] + 1
      /\ h.count > 0
  <2>1. holds[t][k].count \in Nat /\ holds[t][k].mode \in {"READ", "NONE"}
    BY <1>3, <1>4, SlotAssumption DEF Hold, LockT
  <2> QED BY <1>3, <1>5, <2>1 DEF Hold, LockT
<1>8. /\ q.address = k /\ q.total_readers_count = items[i].total_readers_count + 1
      /\ q.readers \in [Thread -> Nat]
      /\ \A u \in Thread : q.readers[u] = IF u = t THEN items[i].readers[t] + 1
                                                   ELSE items[i].readers[u]
      /\ q.writer_thread_id = items[i].writer_thread_id
      /\ q.status = items[i].status
  BY <1>2, <1>3, <1>6 DEF Item, Key_
<1>9. q \in Item /\ Leave(t, q)
  <2>1. q = [items[i] EXCEPT !.readers = q.readers, !.total_readers_count = q.total_readers_count,
                             !.address = k]
    BY <1>2, <1>3, <1>6 DEF Item, Key_
  <2>2. q.total_readers_count \in Nat
    BY <1>3, <1>8
  <2>3. q \in Item
    BY <1>3, <1>8, <2>1, <2>2 DEF Item
  <2> QED BY <1>6, <2>3 DEF ReadGrant
<1>10. Ends(t, k, h)
  BY <1>1, <1>2, <1>3, <1>5 DEF ReadGrant, Granted, Ends, TypeOK, CallInv, ListPc, Key_
<1>11. /\ items'[i].address = k /\ items'[i].readers = q.readers
       /\ items'[i].total_readers_count = items[i].total_readers_count + 1
       /\ items'[i].writer_thread_id = NoThread /\ items'[i].status = items[i].status
       /\ \A u \in Thread : holds'[u][k] = IF u = t THEN h ELSE holds[u][k]
       /\ \A u \in Thread : Drains(u, i)' <=> Drains(u, i) /\ u # t
  BY <1>1, <1>2, <1>4, <1>7, <1>8, <1>9, <1>10, EndOfCall
<1>12. RecordInv(i)'
  <2>1. \E u \in Thread : holds'[u][k].count > 0
    BY <1>7, <1>11
  <2>2. ASSUME NEW u \in Thread PROVE Reads(u, k)' = q.readers[u] /\ ~ Writes(u, k)'
    BY <1>3, <1>4, <1>7, <1>8, <1>11, SlotAssumption DEF Reads, Writes
  <2>3. IsSum(items[i].total_readers_count + 1, q.readers)
    BY <1>3, <1>8, SumUp
  <2> QED BY <1>11, <2>1, <2>2, <2>3, SlotAssumption DEF RecordInv
<1>13. MarkInv(i)'
  BY <1>1, <1>3, <1>4, <1>11 DEF MarkInv, Drains
<1> QED BY <1>1, <1>2, <1>7, <1>8, <1>9, <1>10, <1>12, <1>13, EndStep

(* The thread that marked the item gets it when the readers are gone.      *)
LEMMA WriteGrantStep ==
  ASSUME ListInv, NEW t \in Thread, WriteGrant(t)
  PROVE  ListInv'
<1>1. TypeOK /\ CallInv(t) /\ pc[t] = "drain" /\ pc[t] \in ItemPc /\ at(t).data_lock = NoThread
  BY DEF ListInv, CallsInv, WriteGrant, ItemPc, WaitPc
<1>2. PICK i, k : i = iter[t] /\ k = Key_(t)
  OBVIOUS
<1>3. /\ at(t) = items[i] /\ items[i] \in Item /\ k \in Key /\ k # NullAddress
      /\ RecordInv(i) /\ MarkInv(i) /\ items[i].total_readers_count = 0
      /\ items[i].readers \in [Thread -> Nat]
      /\ IsSum(items[i].total_readers_count, items[i].readers)
      /\ \A u \in Thread :
           /\ holds[u][k].mode = "NONE" <=> holds[u][k].count = 0
           /\ items[i].readers[u] = IF holds[u][k].mode = "READ" THEN holds[u][k].count ELSE 0
           /\ items[i].writer_thread_id = u <=> holds[u][k].mode = "WRITE"
  BY <1>1, <1>2, ItemRecords DEF WriteGrant
<1>4. Drains(t, i) /\ items[i].writer_thread_id = NoThread /\ items[i].status = "exclusive"
  BY <1>1, <1>2, <1>3 DEF Drains, MarkInv
<1>5. holds[t][k].mode = "NONE" /\ holds[t][k].count = 0
  BY <1>1, <1>2, <1>3 DEF CallInv, WaitPc, HoldOf
<1>6. \A u \in Thread : items[i].readers[u] = 0
  BY <1>3, SumZero
<1>7. PICK h : h = [mode |-> "WRITE", count |-> 1]
  OBVIOUS
<1>8. PICK q : q = [at(t) EXCEPT !.writer_thread_id = t, !.writer_thread_lock_count = 1,
                                 !.address = want[t].key]
  OBVIOUS
<1>9. h \in Hold /\ q \in Item /\ Leave(t, q)
  <2>1. q = [items[i] EXCEPT !.writer_thread_id = t, !.writer_thread_lock_count = 1, !.address = k]
    BY <1>2, <1>3, <1>8 DEF Key_
  <2>2. q \in Item
    BY <1>3, <2>1 DEF Item
  <2> QED BY <1>7, <1>8, <2>2 DEF WriteGrant, Hold, LockT
<1>10. Ends(t, k, h)
  BY <1>1, <1>2, <1>3, <1>5, <1>7 DEF WriteGrant, Granted, Ends, TypeOK, CallInv, ListPc, Key_
<1>11. /\ q.address = k /\ q.readers = items[i].readers /\ q.total_readers_count = 0
       /\ q.writer_thread_id = t /\ q.writer_thread_lock_count = 1 /\ q.status = "exclusive"
  BY <1>2, <1>3, <1>4, <1>8 DEF Item, Key_
<1>12. /\ items'[i].address = k /\ items'[i].readers = items[i].readers
       /\ items'[i].total_readers_count = 0 /\ items'[i].writer_thread_id = t
       /\ items'[i].writer_thread_lock_count = 1 /\ items'[i].status = "exclusive"
       /\ \A u \in Thread : holds'[u][k] = IF u = t THEN h ELSE holds[u][k]
       /\ \A u \in Thread : Drains(u, i)' <=> Drains(u, i) /\ u # t
  BY <1>1, <1>2, <1>9, <1>10, <1>11, EndOfCall
<1>13. RecordInv(i)'
  <2>1. \E u \in Thread : holds'[u][k].count > 0
    BY <1>7, <1>12
  <2>2. ASSUME NEW u \in Thread
        PROVE  /\ Reads(u, k)' = 0
               /\ Writes(u, k)' <=> u = t
               /\ Writes(u, k)' => holds'[u][k].count = 1
    BY <1>3, <1>4, <1>6, <1>7, <1>12, SlotAssumption DEF Reads, Writes
  <2> QED BY <1>3, <1>6, <1>12, <2>1, <2>2 DEF RecordInv
<1>14. MarkInv(i)'
  BY <1>3, <1>4, <1>12, SlotAssumption DEF MarkInv
<1>15. h.mode = "WRITE" /\ h.count = 1
  BY <1>7
<1> QED BY <1>1, <1>2, <1>9, <1>10, <1>11, <1>13, <1>14, <1>15, EndStep

(* unlock() goes by the records of the item, which are those of the        *)
(* address: what it releases is the lock that the caller holds.            *)
LEMMA UnlockItemStep ==
  ASSUME ListInv, NEW t \in Thread, UnlockItem(t)
  PROVE  ListInv'
<1>1. TypeOK /\ CallInv(t) /\ pc[t] = "u_item" /\ pc[t] \in ItemPc /\ at(t).data_lock = NoThread
  BY DEF ListInv, CallsInv, UnlockItem, ItemPc
<1>2. PICK i, k : i = iter[t] /\ k = Key_(t)
  OBVIOUS
<1>3. /\ at(t) = items[i] /\ items[i] \in Item /\ k \in Key /\ k # NullAddress
      /\ RecordInv(i) /\ MarkInv(i)
      /\ items[i].readers \in [Thread -> Nat] /\ items[i].total_readers_count \in Nat
      /\ IsSum(items[i].total_readers_count, items[i].readers)
      /\ items[i].writer_thread_id \in Thread \cup {NoThread}
      /\ items[i].writer_thread_id # NoThread => items[i].total_readers_count = 0
      /\ \A u \in Thread :
           /\ holds[u][k] \in Hold
           /\ holds[u][k].count > 0 => items[i].address = k
           /\ holds[u][k].mode = "NONE" <=> holds[u][k].count = 0
           /\ items[i].readers[u] = IF holds[u][k].mode = "READ" THEN holds[u][k].count ELSE 0
           /\ items[i].writer_thread_id = u <=> holds[u][k].mode = "WRITE"
           /\ holds[u][k].mode = "WRITE" => items[i].writer_thread_lock_count = holds[u][k].count
  BY <1>1, <1>2, ItemRecords
<1>4. holds[t][k].count \in Nat \ {0} /\ holds[t][k].mode \in {"READ", "WRITE"}
      /\ items[i].address = k
  BY <1>1, <1>2, <1>3 DEF CallInv, HoldOf, Hold, LockT
<1>5. PICK h : h = OneLess(holds[t][k])
  OBVIOUS
<1>6. /\ h \in Hold /\ h.count = holds[t][k].count - 1
      /\ h.mode = IF holds[t][k].count = 1 THEN "NONE" ELSE holds[t][k].mode
      /\ h.mode = "NONE" <=> h.count = 0
  <2>1. CASE holds[t][k].count = 1
    BY <1>5, <2>1 DEF OneLess, NoHold, Hold
  <2>2. CASE holds[t][k].count # 1
    <3>1. h = [holds[t][k] EXCEPT !.count = holds[t][k].count - 1]
      BY <1>4, <1>5, <2>2 DEF OneLess
    <3>2. h \in Hold /\ h.mode = holds[t][k].mode /\ h.count = holds[t][k].count - 1
      <4>1. holds[t][k] \in Hold /\ holds[t][k].count - 1 \in Nat
        BY <1>3, <1>4
      <4> QED BY <3>1, <4>1 DEF Hold
    <3> QED BY <1>4, <2>2, <3>2
  <2> QED BY <2>1, <2>2
<1>7. Ends(t, k, h)
  <2>1. holds' = [holds EXCEPT ![t][k] = h]
    BY <1>2, <1>5 DEF UnlockItem, Released, Key_
  <2>2. lock = t /\ lock' = NoThread /\ t # NoThread
    BY <1>1, SlotAssumption DEF UnlockItem, Released, CallInv, ListPc
  <2> QED BY <2>1, <2>2, SlotAssumption DEF UnlockItem, Released, Ends
<1>8. PICK q : q = Unlocked(items[i], t)
  OBVIOUS
<1>9. Leave(t, q)
  BY <1>3, <1>8 DEF UnlockItem
<1>10. CASE holds[t][k].mode = "READ"
  <2>1. items[i].readers[t] = holds[t][k].count /\ items[i].total_readers_count > 0
        /\ items[i].writer_thread_id = NoThread
    <3>1. items[i].readers[t] = holds[t][k].count
      BY <1>3, <1>10
    <3>2. items[i].total_readers_count # 0
      BY <1>3, <1>4, <3>1, SumZero
    <3> QED BY <1>3, <3>1, <3>2
  <2>2. PICK a : a = IF items[i].total_readers_count = 1 THEN NullAddress ELSE k
    OBVIOUS
  <2>3. q = [items[i] EXCEPT !.total_readers_count = items[i].total_readers_count - 1,
                             !.address = a,
                             !.readers[t] = items[i].readers[t] - 1]
    <3>1. q = [items[i] EXCEPT
                 !.total_readers_count = @ - 1,
                 !.address = a,
                 !.readers[t] = IF @ > 0 THEN @ - 1 ELSE @]
      BY <1>4, <1>8, <2>1, <2>2 DEF Unlocked, UnlocksARead, AddressAfterRead
    <3>2. items[i].readers[t] > 0
      BY <1>4, <2>1
    <3> QED BY <3>1, <3>2
  <2>4. /\ q.address = a /\ q.total_readers_count = items[i].total_readers_count - 1
        /\ q.readers \in [Thread -> Nat]
        /\ \A u \in Thread : q.readers[u] = IF u = t THEN items[i].readers[t] - 1
                                                     ELSE items[i].readers[u]
        /\ q.writer_thread_id = NoThread /\ q.status = items[i].status
    BY <1>3, <1>4, <2>1, <2>3 DEF Item
  <2>5. IsSum(items[i].total_readers_count - 1, q.readers)
    BY <1>3, <1>4, <2>1, <2>4, SumDown
  <2>6. q \in Item
    <3>1. q = [items[i] EXCEPT !.total_readers_count = q.total_readers_count,
                               !.address = a, !.readers = q.readers]
      BY <1>3, <2>3, <2>4 DEF Item
    <3>2. q.total_readers_count \in Nat /\ a \in Key \cup {NullAddress}
      BY <1>3, <2>1, <2>2, <2>4
    <3> QED BY <1>3, <2>4, <3>1, <3>2 DEF Item
  <2>7. /\ items'[i].address = a /\ items'[i].readers = q.readers
        /\ items'[i].total_readers_count = items[i].total_readers_count - 1
        /\ items'[i].writer_thread_id = NoThread /\ items'[i].status = items[i].status
        /\ \A u \in Thread : holds'[u][k] = IF u = t THEN h ELSE holds[u][k]
        /\ \A u \in Thread : Drains(u, i)' <=> Drains(u, i) /\ u # t
    BY <1>1, <1>2, <1>6, <1>7, <1>9, <2>4, <2>6, EndOfCall
  <2>8. ASSUME NEW u \in Thread
        PROVE  /\ holds'[u][k].mode # "WRITE"
               /\ q.readers[u] = IF holds'[u][k].mode = "READ" THEN holds'[u][k].count ELSE 0
               /\ holds'[u][k].mode = "NONE" <=> holds'[u][k].count = 0
               /\ holds'[u][k] \in Hold
    BY <1>3, <1>4, <1>6, <1>10, <2>1, <2>4, <2>7, SlotAssumption
  <2>9. \A u \in Thread : holds'[u][k].count = q.readers[u]
    BY <2>8 DEF Hold, LockT
  <2>10. a = NullAddress <=> \A u \in Thread : holds'[u][k].count = 0
    BY <1>3, <2>1, <2>2, <2>4, <2>5, <2>9, SumZero
  <2>11. RecordInv(i)'
    <3>1. CASE a = NullAddress
      BY <2>5, <2>7, <2>9, <2>10, <3>1, SlotAssumption DEF RecordInv, Reads, Writes
    <3>2. CASE a = k
      <4>1. \E u \in Thread : holds'[u][k].count > 0
        BY <1>3, <2>8, <2>10, <3>2 DEF Hold
      <4>2. \A u \in Thread : Reads(u, k)' = q.readers[u] /\ ~ Writes(u, k)'
        BY <1>3, <2>8 DEF Reads, Writes
      <4> QED BY <2>5, <2>7, <3>2, <4>1, <4>2, SlotAssumption DEF RecordInv
    <3> QED BY <2>2, <3>1, <3>2
  <2>12. MarkInv(i)'
    BY <1>1, <1>3, <2>1, <2>7 DEF MarkInv, Drains
  <2>13. /\ q.address \in {NullAddress, k}
         /\ h.count > 0 => q.address = k
         /\ \A u \in Thread \ {t} : holds[u][k].count > 0 => q.address = k
    <3>1. \A u \in Thread : holds'[u][k].count > 0 => a = k
      BY <2>2, <2>10
    <3> QED BY <2>2, <2>4, <2>7, <3>1
  <2> QED BY <1>1, <1>2, <1>6, <1>7, <1>9, <2>6, <2>11, <2>12, <2>13, EndStep
<1>11. CASE holds[t][k].mode = "WRITE"
  <2>1. /\ items[i].writer_thread_id = t /\ items[i].total_readers_count = 0
        /\ items[i].status = "exclusive"
        /\ items[i].writer_thread_lock_count = holds[t][k].count
        /\ \A u \in Thread : ~ Drains(u, i)
    BY <1>3, <1>11, SlotAssumption DEF MarkInv
  <2>2. ASSUME NEW u \in Thread, u # t
        PROVE  holds[u][k].mode = "NONE" /\ holds[u][k].count = 0
    <3>1. items[i].readers[u] = 0
      BY <1>3, <2>1, SumZero
    <3>2. holds[u][k].mode # "WRITE"
      BY <1>3, <2>1, <2>2
    <3> QED BY <1>3, <3>1, <3>2 DEF Hold, LockT
  <2>3. CASE holds[t][k].count # 1
    <3>1. q = [items[i] EXCEPT !.writer_thread_lock_count = holds[t][k].count - 1]
      BY <1>8, <2>1, <2>3 DEF Unlocked, UnlocksARead
    <3>2. holds[t][k].count - 1 \in Nat /\ h.mode = "WRITE" /\ h.count > 0
      BY <1>4, <1>6, <1>11, <2>3
    <3>3. q \in Item
      BY <1>3, <3>1, <3>2 DEF Item
    <3>4. /\ q.address = k /\ q.readers = items[i].readers /\ q.total_readers_count = 0
          /\ q.writer_thread_id = t /\ q.writer_thread_lock_count = h.count
          /\ q.status = "exclusive"
      BY <1>3, <1>4, <1>6, <2>1, <3>1 DEF Item
    <3>5. /\ items'[i].address = k /\ items'[i].readers = items[i].readers
          /\ items'[i].total_readers_count = 0 /\ items'[i].writer_thread_id = t
          /\ items'[i].writer_thread_lock_count = h.count /\ items'[i].status = "exclusive"
          /\ \A u \in Thread : holds'[u][k] = IF u = t THEN h ELSE holds[u][k]
          /\ \A u \in Thread : Drains(u, i)' <=> Drains(u, i) /\ u # t
      BY <1>1, <1>2, <1>6, <1>7, <1>9, <3>3, <3>4, EndOfCall
    <3>6. RecordInv(i)'
      <4>1. \E u \in Thread : holds'[u][k].count > 0
        BY <3>2, <3>5
      <4>2. ASSUME NEW u \in Thread
            PROVE  /\ Reads(u, k)' = items[i].readers[u]
                   /\ Writes(u, k)' <=> u = t
                   /\ Writes(u, k)' => holds'[u][k].count = h.count
        BY <1>3, <1>11, <2>2, <3>2, <3>5 DEF Reads, Writes
      <4>3. IsSum(0, items[i].readers)
        BY <1>3, <2>1
      <4> QED BY <3>5, <4>1, <4>2, <4>3 DEF RecordInv
    <3>7. MarkInv(i)'
      BY <2>1, <3>5, SlotAssumption DEF MarkInv
    <3>8. h.mode # "NONE" /\ q.address \in {NullAddress, k}
          /\ \A u \in Thread \ {t} : holds[u][k].count > 0 => q.address = k
      BY <3>2, <3>4
    <3> QED BY <1>1, <1>2, <1>6, <1>7, <1>9, <3>3, <3>4, <3>6, <3>7, <3>8, EndStep
  <2>4. CASE holds[t][k].count = 1
    <3>1. q = [items[i] EXCEPT !.writer_thread_lock_count = 0, !.writer_thread_id = NoThread,
                               !.status = "not_exclusive", !.address = NullAddress]
      BY <1>8, <2>1, <2>4 DEF Unlocked, UnlocksARead
    <3>2. q \in Item
      BY <1>3, <3>1 DEF Item
    <3>3. /\ q.address = NullAddress /\ q.readers = items[i].readers /\ q.total_readers_count = 0
          /\ q.writer_thread_id = NoThread /\ q.status = "not_exclusive"
          /\ h.mode = "NONE" /\ h.count = 0
      BY <1>3, <1>6, <2>1, <2>4, <3>1 DEF Item
    <3>4. /\ items'[i].address = NullAddress /\ items'[i].readers = items[i].readers
          /\ items'[i].total_readers_count = 0 /\ items'[i].writer_thread_id = NoThread
          /\ items'[i].status = "not_exclusive"
          /\ \A u \in Thread : holds'[u][k] = IF u = t THEN h ELSE holds[u][k]
          /\ \A u \in Thread : Drains(u, i)' <=> Drains(u, i) /\ u # t
      BY <1>1, <1>2, <1>6, <1>7, <1>9, <3>2, <3>3, EndOfCall
    <3>5. RecordInv(i)'
      <4>1. IsSum(0, items[i].readers) /\ \A u \in Thread : items[i].readers[u] = 0
        BY <1>3, <2>1, SumZero
      <4> QED BY <3>4, <4>1, SlotAssumption DEF RecordInv, Reads, Writes
    <3>6. MarkInv(i)'
      BY <2>1, <3>4 DEF MarkInv
    <3>7. \A u \in Thread \ {t} : holds[u][k].count > 0 => q.address = k
      BY <2>2
    <3> QED BY <1>1, <1>2, <1>6, <1>7, <1>9, <3>2, <3>3, <3>5, <3>6, <3>7, EndStep
  <2> QED BY <2>3, <2>4
<1> QED BY <1>4, <1>10, <1>11

-----------------------------------------------------------------------------
(* ListInvariant: at every step of any number of threads, the records of   *)
(* the items are the locks that the programs hold, each address has one    *)
(* item, and the calls of lockNode and unlockNode that are under way are   *)
(* at the item of their address, or will find it.                          *)
THEOREM ListInvariant == ASSUME NeverShared PROVE Spec => []ListInv
<1>1. Init => ListInv
  BY InitInv
<1>2. ListInv /\ [Next]_vars => ListInv'
  <2> SUFFICES ASSUME ListInv, [Next]_vars PROVE ListInv'
    OBVIOUS
  <2>1. CASE UNCHANGED vars
    <3>1. UNCHANGED <<lock, items, pc, want, iter, firstFree, program, holds, calls>>
      BY <2>1 DEF vars, call, client
    <3>2. TypeOK' /\ UseInv' /\ SizeInv'
      <4>1. TypeOK'
        BY <3>1 DEF ListInv, TypeOK
      <4>2. OneAddress' = OneAddress /\ OneProgram' = OneProgram /\ Used' = Used /\ Length' = Length
        BY <3>1 DEF OneAddress, OneProgram, Used, Length
      <4> QED BY <4>1, <4>2 DEF ListInv, UseInv, SizeInv
    <3>3. HoldsInv' /\ NoTwoItems'
      BY <3>1 DEF ListInv, HoldsInv, ItemsInv, NoTwoItems, Index, Length
    <3>4. ASSUME NEW i \in Index PROVE RecordInv(i)' /\ MarkInv(i)'
      BY <3>1 DEF ListInv, ItemsInv, RecordInv, MarkInv, Reads, Writes, Drains
    <3>5. ASSUME NEW t \in Thread PROVE CallInv(t)' /\ TargetInv(t)' /\ SearchInv(t)'
      <4>1. CallInv(t) /\ TargetInv(t) /\ SearchInv(t)
        BY DEF ListInv, CallsInv
      <4>2. CallInv(t)'
        BY <3>1, <4>1 DEF CallInv, HoldOf, Key_, Index, Length
      <4>3. TargetInv(t)' /\ SearchInv(t)'
        BY <3>1, <4>1 DEF TargetInv, SearchInv, Key_, Index, Length, OneAddress, OneProgram
      <4> QED BY <4>2, <4>3
    <3>6. Index' = Index
      BY <3>1 DEF Index, Length
    <3> QED BY <3>2, <3>3, <3>4, <3>5, <3>6 DEF ListInv, ItemsInv, CallsInv
  <2>2. ASSUME NEW t \in Thread, NewCall(t) PROVE ListInv'
    BY <2>2, LockNodeStep, UnlockNodeStep DEF NewCall
  <2>3. ASSUME NEW t \in Thread, InLockNode(t) PROVE ListInv'
    BY <2>3, SearchHitStep, SearchMissStep, UseFreeStep, AddItemStep DEF InLockNode
  <2>4. ASSUME NEW t \in Thread, InItem(t) PROVE ListInv'
    BY <2>4, EnterItemStep, ReLockByWriterStep, ReadGrantStep, ReadWaitStep, WriteWaitStep,
       ReserveStep, WriteGrantStep DEF InItem
  <2>5. ASSUME NEW t \in Thread, InUnlockNode(t) PROVE ListInv'
    BY <2>5, UnlockSearchStep, UnlockNotFoundStep, UnlockItemStep DEF InUnlockNode
  <2> QED BY <2>1, <2>2, <2>3, <2>4, <2>5 DEF Next
<1> QED BY <1>1, <1>2, PTL DEF Spec

(* What a locked address has: one item, with the records of its holds.     *)
LEMMA HeldAddress ==
  ASSUME ListInv, NEW k \in Key, NEW t \in Thread, holds[t][k].count > 0
  PROVE  \E i \in Index :
           /\ Matching(k) = {i} /\ Found(k) = i
           /\ \A u \in Thread :
                /\ items[i].readers[u] = Reads(u, k)
                /\ items[i].writer_thread_id = u <=> Writes(u, k)
                /\ Writes(u, k) => items[i].writer_thread_lock_count = holds[u][k].count
           /\ items[i].writer_thread_id # NoThread => \A u \in Thread : items[i].readers[u] = 0
<1>1. PICK i \in Index : items[i].address = k
  BY DEF ListInv, HoldsInv
<1>2. k # NullAddress
  BY SlotAssumption
<1>3. Matching(k) = {i}
  BY <1>1, <1>2 DEF Matching, ListInv, ItemsInv, NoTwoItems, Index, Length
<1>4. Found(k) = i
  <2>1. i \in Nat
    BY <1>1 DEF Index, Length, ListInv, TypeOK
  <2> QED BY <1>3, <2>1 DEF Found
<1>5. RecordInv(i)
  BY DEF ListInv, ItemsInv
<1>6. items[i].writer_thread_id # NoThread => \A u \in Thread : items[i].readers[u] = 0
  <2>1. items[i].readers \in [Thread -> Nat]
    BY ItemFields DEF ListInv
  <2> QED BY <1>5, <2>1, SumZero DEF RecordInv
<1> QED BY <1>1, <1>3, <1>4, <1>5, <1>6 DEF RecordInv

(* KeyExclusionHolds: an address that a program has locked for writing is  *)
(* locked by no other.                                                     *)
THEOREM KeyExclusionHolds == ASSUME NeverShared PROVE Spec => []KeyExclusion
<1>1. ListInv => KeyExclusion
  <2> SUFFICES ASSUME ListInv, NEW k \in Key, NEW t \in Thread, NEW u \in Thread, t # u,
                      holds[t][k].mode = "WRITE"
               PROVE  holds[u][k].mode = "NONE"
    BY DEF KeyExclusion
  <2>1. holds[t][k] \in Hold /\ holds[u][k] \in Hold /\ k # NullAddress
    BY SlotAssumption DEF ListInv, TypeOK
  <2>2. /\ holds[t][k].mode = "NONE" <=> holds[t][k].count = 0
        /\ holds[u][k].mode = "NONE" <=> holds[u][k].count = 0
    BY DEF ListInv, HoldsInv
  <2>3. holds[t][k].count > 0
    BY <2>1, <2>2 DEF Hold
  <2>4. PICK i \in Index :
          /\ \A v \in Thread :
               /\ items[i].readers[v] = Reads(v, k)
               /\ items[i].writer_thread_id = v <=> Writes(v, k)
          /\ items[i].writer_thread_id # NoThread => \A v \in Thread : items[i].readers[v] = 0
    BY <2>3, HeldAddress
  <2>5. items[i].writer_thread_id = t /\ Reads(u, k) = 0 /\ ~ Writes(u, k)
    BY <2>1, <2>4, SlotAssumption DEF Writes
  <2> QED BY <2>1, <2>2, <2>5 DEF Reads, Writes, Hold, LockT
<1> QED BY <1>1, ListInvariant, PTL

(* HolderIsFoundHolds: unlockNode would find, for each address that is     *)
(* locked, the item whose records have the lock of the caller.             *)
THEOREM HolderIsFoundHolds == ASSUME NeverShared PROVE Spec => []HolderIsFound
<1>1. ListInv => HolderIsFound
  <2> SUFFICES ASSUME ListInv, NEW t \in Thread, NEW k \in Key, holds[t][k].count > 0
               PROVE  /\ Matching(k) # {}
                      /\ LET r == items[Found(k)] IN
                           IF holds[t][k].mode = "WRITE"
                             THEN /\ r.writer_thread_id = t
                                  /\ r.writer_thread_lock_count = holds[t][k].count
                             ELSE r.readers[t] = holds[t][k].count
    BY DEF HolderIsFound
  <2>1. holds[t][k] \in Hold /\ k # NullAddress
    BY SlotAssumption DEF ListInv, TypeOK
  <2>2. holds[t][k].mode # "NONE"
    BY <2>1 DEF ListInv, HoldsInv, Hold
  <2>3. PICK i \in Index :
          /\ Matching(k) = {i} /\ Found(k) = i
          /\ items[i].readers[t] = Reads(t, k)
          /\ items[i].writer_thread_id = t <=> Writes(t, k)
          /\ Writes(t, k) => items[i].writer_thread_lock_count = holds[t][k].count
    BY HeldAddress
  <2> QED BY <2>1, <2>2, <2>3 DEF Reads, Writes, Hold, LockT
<1> QED BY <1>1, ListInvariant, PTL

(* SlotInvHolds: an address has one item at most, and the list never has   *)
(* more items than addresses in use: an item whose lock was released is    *)
(* found and used again.                                                   *)
THEOREM SlotInvHolds == ASSUME NeverShared PROVE Spec => []SlotInv
<1>1. ASSUME ListInv, NEW k \in Key PROVE Cardinality(Matching(k)) <= 1
  <2>1. CASE Matching(k) = {}
    BY <2>1, FS_EmptySet
  <2>2. ASSUME NEW i \in Matching(k) PROVE Matching(k) = {i}
    BY <1>1, <2>2, SlotAssumption DEF Matching, ListInv, ItemsInv, NoTwoItems, Index, Length
  <2>3. ASSUME NEW i \in Matching(k) PROVE Cardinality(Matching(k)) = 1
    BY <2>2, FS_Singleton
  <2> QED BY <2>1, <2>3
<1>2. ListInv => SlotInv
  BY <1>1 DEF ListInv, SlotInv, SizeInv, Used, Length
<1> QED BY <1>2, ListInvariant, PTL
=============================================================================

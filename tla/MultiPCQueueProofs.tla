------------------------- MODULE MultiPCQueueProofs -------------------------
(***************************************************************************)
(* Proofs about the multiple producer, multiple consumer queue, for every  *)
(* ring size, every set of threads and every set of values.                *)
(***************************************************************************)
EXTENDS MultiPCQueue, SequenceTheorems, TLAPS

-----------------------------------------------------------------------------
(* A queue as a function of its places, and as a sequence.                  *)

(* A function that has one element more than another, and agrees with it   *)
(* below, is what Append makes of it.                                      *)
LEMMA AppendGives ==
  ASSUME NEW S, NEW n \in Nat, NEW f \in [1..n -> S], NEW v \in S,
         NEW g \in [1..n+1 -> S], \A i \in 1..n : g[i] = f[i], g[n+1] = v
  PROVE  g = Append(f, v) /\ Len(f) = n
<1>1. f \in Seq(S) /\ Len(f) = n /\ g \in Seq(S) /\ Len(g) = n + 1
  OBVIOUS
<1> QED BY <1>1, AppendProperties, SeqEqual

(* The same for Tail: one element less, each moved up. *)
LEMMA TailGives ==
  ASSUME NEW S, NEW n \in Nat, n > 0, NEW f \in [1..n -> S],
         NEW g \in [1..n-1 -> S], \A i \in 1..n-1 : g[i] = f[i+1]
  PROVE  f # <<>> /\ Head(f) = f[1] /\ g = Tail(f)
<1>1. f \in Seq(S) /\ Len(f) = n /\ g \in Seq(S) /\ Len(g) = n - 1
  OBVIOUS
<1>2. f # <<>> /\ Head(f) = f[1]
  BY <1>1
<1> QED BY <1>1, <1>2, HeadTailProperties, SeqEqual

(* Offsets stay inside the ring, and no two have the same next one. *)
LEMMA Ring ==
  /\ \A s \in Slot : NextOf(s) \in Slot
  /\ \A s, r \in Slot : NextOf(s) = NextOf(r) => s = r
  /\ 0 \in Slot
BY QueueAssumption DEF Slot, NextOf

(* Distances: what is between, when the other end moves on. *)
LEMMA Distance ==
  ASSUME NEW t \in Slot, NEW s \in Slot
  PROVE  /\ Dist(t, s) \in 0..N-1
         /\ Dist(t, NextOf(s)) = Dist(t, s) + 1 \/ (NextOf(s) = t /\ Dist(t, s) + 1 = N)
         /\ \A u \in Slot : Dist(t, s) = Dist(t, u) => s = u
BY QueueAssumption DEF Slot, NextOf, Dist

(* The queued entries when one is added at the head. *)
LEMMA BetweenAdd ==
  ASSUME NEW tail \in Slot, NEW head \in Slot, NEW queued \in SUBSET Slot,
         Between(tail, head, queued), head \notin queued
  PROVE  Between(tail, NextOf(head), queued \cup {head})
<1>1. CASE head = tail
  <2>1. queued = {}
    BY <1>1 DEF Between
  <2>2. CASE NextOf(head) = tail
    <3>1. Slot = {head}
      BY <1>1, <2>2, QueueAssumption DEF Slot, NextOf
    <3> QED BY <2>1, <2>2, <3>1 DEF Between
  <2>3. CASE NextOf(head) # tail
    <3>1. \A s \in Slot : Dist(tail, s) < Dist(tail, NextOf(head)) <=> s = head
      BY <1>1, <2>3, QueueAssumption DEF Slot, NextOf, Dist
    <3> QED BY <2>1, <2>3, <3>1 DEF Between
  <2> QED BY <2>2, <2>3
<1>2. CASE head # tail
  <2>1. queued = {s \in Slot : Dist(tail, s) < Dist(tail, head)}
    BY <1>2 DEF Between
  <2>2. CASE NextOf(head) = tail
    <3>1. \A s \in Slot : Dist(tail, s) < Dist(tail, head) \/ s = head
      BY <1>2, <2>2, QueueAssumption DEF Slot, NextOf, Dist
    <3> QED BY <2>1, <2>2, <3>1 DEF Between
  <2>3. CASE NextOf(head) # tail
    <3>1. \A s \in Slot : Dist(tail, s) < Dist(tail, NextOf(head))
                            <=> Dist(tail, s) < Dist(tail, head) \/ s = head
      BY <1>2, <2>3, QueueAssumption DEF Slot, NextOf, Dist
    <3> QED BY <2>1, <2>3, <3>1 DEF Between
  <2> QED BY <2>2, <2>3
<1> QED BY <1>1, <1>2

(* The queued entries when the one at the tail is taken away. *)
LEMMA BetweenRemove ==
  ASSUME NEW tail \in Slot, NEW head \in Slot, NEW queued \in SUBSET Slot,
         Between(tail, head, queued), tail \in queued
  PROVE  Between(NextOf(tail), head, queued \ {tail})
<1>1. CASE head = tail
  <2>1. queued = Slot
    BY <1>1 DEF Between
  <2>2. CASE NextOf(tail) = head
    <3>1. Slot = {tail}
      BY <1>1, <2>2, QueueAssumption DEF Slot, NextOf
    <3> QED BY <2>1, <2>2, <3>1 DEF Between
  <2>3. CASE NextOf(tail) # head
    <3>1. \A s \in Slot : Dist(NextOf(tail), s) < Dist(NextOf(tail), head) <=> s # tail
      BY <1>1, <2>3, QueueAssumption DEF Slot, NextOf, Dist
    <3> QED BY <2>1, <2>3, <3>1 DEF Between
  <2> QED BY <2>2, <2>3
<1>2. CASE head # tail
  <2>1. queued = {s \in Slot : Dist(tail, s) < Dist(tail, head)}
    BY <1>2 DEF Between
  <2>2. CASE NextOf(tail) = head
    <3>1. \A s \in Slot : Dist(tail, s) < Dist(tail, head) => s = tail
      BY <1>2, <2>2, QueueAssumption DEF Slot, NextOf, Dist
    <3> QED BY <2>1, <2>2, <3>1 DEF Between
  <2>3. CASE NextOf(tail) # head
    <3>1. \A s \in Slot : Dist(NextOf(tail), s) < Dist(NextOf(tail), head)
                            <=> Dist(tail, s) < Dist(tail, head) /\ s # tail
      BY <1>2, <2>3, QueueAssumption DEF Slot, NextOf, Dist
    <3> QED BY <2>1, <2>3, <3>1 DEF Between
  <2> QED BY <2>2, <2>3
<1> QED BY <1>1, <1>2

(* A side has one thread in a call at a time, through the lock or because  *)
(* it has one thread.                                                      *)
LEMMA OnePerSide ==
  ASSUME LockInv, NEW t \in Thread, NEW u \in Thread, Busy(t), Busy(u),
         t \in Producer <=> u \in Producer
  PROVE  t = u
BY QueueAssumption DEF LockInv, Busy, Alone

(* What a thread is is not what another is. *)
LEMMA Sides ==
  /\ \A p \in Producer : p \in Thread /\ p \notin Consumer
  /\ \A c \in Consumer : c \in Thread /\ c \notin Producer
  /\ \A t \in Thread : t \notin Producer => t \in Consumer
BY QueueAssumption DEF Thread

-----------------------------------------------------------------------------
(* A new queue: all free, nobody in a call. *)
LEMMA InitHolds == Init => QueueInv
<1> SUFFICES ASSUME Init PROVE QueueInv OBVIOUS
<1>1. TypeOK
  BY Ring, QueueAssumption DEF Init, TypeOK, Flags, PC
<1>2. LockInv /\ CallInv /\ OwnerInv /\ OneOwner
  BY DEF Init, LockInv, CallInv, OwnerInv, OneOwner, Busy, InStores
<1>3. Queued = {} /\ HeadAfter = TailAfter
  BY Sides DEF Init, Queued, HeadAfter, TailAfter, Allocating, Taking
<1>4. SpaceInv /\ SpaceIsThere
  BY Sides DEF Init, SpaceInv, SpaceIsThere
<1> QED BY <1>1, <1>2, <1>3, <1>4 DEF QueueInv, Between

(* Every step keeps the types. *)
LEMMA TypeStep == QueueInv /\ [Next]_vars => TypeOK'
<1> SUFFICES ASSUME QueueInv, [Next]_vars PROVE TypeOK' OBVIOUS
<1> USE DEF QueueInv, TypeOK, ring, users, space, local
<1>1. CASE UNCHANGED vars
  BY <1>1 DEF vars
<1>2. ASSUME NEW p \in Producer, AllocStrideDirect(p) PROVE TypeOK'
  BY <1>2, Sides DEF AllocStrideDirect, Begin, Goto, PC
<1>3. ASSUME NEW c \in Consumer, GetNextCompleteDirect(c) PROVE TypeOK'
  BY <1>3, Sides DEF GetNextCompleteDirect, Begin, Goto, PC
<1>4. ASSUME NEW t \in Thread, TestSucceeds(t) \/ TestFails(t) PROVE TypeOK'
  BY <1>4, Ring DEF TestSucceeds, TestFails, End, Goto, PC
<1>5. ASSUME NEW t \in Thread, StoreEntryID(t) \/ StoreOffset(t) PROVE TypeOK'
  <2>1. /\ UNCHANGED <<data, active, unlocked, room, stop>>
        /\ entryID' \in [Slot -> Flags]
        /\ qhead' \in Slot /\ qtail' \in Slot
    BY <1>5, Ring DEF StoreEntryID, StoreOffset, Stored, Flags, Taken
  <2>2. /\ pc' \in [Thread -> PC] /\ last' \in Val
        /\ lock' \in Thread \cup {NoThread}
        /\ entryPtr' \in [Thread -> Slot] /\ handles' \in [Thread -> SUBSET Slot]
    BY SMTT(30), <1>5, Ring DEF StoreEntryID, StoreOffset, Stored, End, Goto, PC
  <2> QED BY <2>1, <2>2
<1>6. ASSUME NEW p \in Producer, NEW s \in Slot, NEW v \in Val, Fill(p, s, v) PROVE TypeOK'
  BY <1>6 DEF Fill
<1>7. ASSUME NEW t \in Thread, NEW s \in Slot, NEW flags \in Flags, Gives(t, s, flags) PROVE TypeOK'
  BY <1>7 DEF Gives
<1>8. ASSUME NEW p \in Producer, FreeSpaceBegin(p) PROVE TypeOK'
  BY <1>8, Sides, QueueAssumption DEF FreeSpaceBegin, Goto, PC
<1>9. ASSUME NEW p \in Producer, InFreeSpace(p) PROVE TypeOK'
  <2>1. CASE FreeSpaceReturn(p)
    BY <2>1, Sides, Ring, QueueAssumption DEF FreeSpaceReturn, Goto, PC
  <2>2. CASE FreeSpaceStep(p)
    <3>1. room < N
      <4>1. /\ room = Dist(qhead, entryPtr[p]) \/ (room = N /\ entryPtr[p] = qhead)
            /\ room <= IF stop = qhead THEN N ELSE Dist(qhead, stop)
            /\ ~ (room > 0 /\ entryPtr[p] = stop)
        BY <2>2 DEF FreeSpaceStep, RoomEnds, SpaceInv
      <4>2. entryPtr[p] \in Slot
        BY Sides
      <4> QED BY <4>1, <4>2, QueueAssumption DEF Dist, Slot
    <3> QED BY <2>2, <3>1, Sides, Ring, QueueAssumption DEF FreeSpaceStep
  <2> QED BY <1>9, <2>1, <2>2 DEF InFreeSpace
<1>10. CASE ResetAsync
  BY <1>10, Ring DEF ResetAsync
<1> QED
  <2>1. "complete" \in Flags /\ "free" \in Flags
    BY DEF Flags
  <2> QED
    BY <1>1, <1>2, <1>3, <1>4, <1>5, <1>6, <1>7, <1>8, <1>9, <1>10, <2>1, Sides
       DEF Next, InCall, Complete, FreeEntryDirect, Freed

(* The two ways to do a store: first, or last and then the call returns.   *)
LEMMA StoreCases ==
  ASSUME NEW t \in Thread, NEW other, Stored(t, other), pc \in [Thread -> PC]
  PROVE  /\ UNCHANGED <<data, users, space>>
         /\ \/ /\ pc[t] = "stores" /\ pc' = [pc EXCEPT ![t] = other]
               /\ UNCHANGED <<lock, entryPtr, handles>>
            \/ /\ pc[t] # "stores" /\ pc' = [pc EXCEPT ![t] = "idle"]
               /\ lock' = IF t \in unlocked THEN lock ELSE NoThread
               /\ entryPtr' = [entryPtr EXCEPT ![t] = 0]
               /\ handles' = [handles EXCEPT ![t] = @ \cup {entryPtr[t]}]
               /\ UNCHANGED last
BY DEF Stored, Goto, End

(* Every step keeps the lock with the thread that is in a call. *)
LEMMA LockStep == QueueInv /\ [Next]_vars => LockInv'
<1> SUFFICES ASSUME QueueInv, [Next]_vars PROVE LockInv' OBVIOUS
<1>0. /\ LockInv /\ pc \in [Thread -> PC] /\ handles \in [Thread -> SUBSET Slot]
      /\ unlocked \in SUBSET active /\ active \in SUBSET Thread
  BY QueueAssumption DEF QueueInv, TypeOK
<1> USE <1>0 DEF LockInv, Busy, Alone
<1>1. CASE UNCHANGED vars
  BY <1>1 DEF vars, users, local
<1>2. ASSUME NEW t \in Thread, Begin(t), UNCHANGED <<users, handles>> PROVE LockInv'
  BY <1>2, QueueAssumption DEF Begin, LockIsFree, Goto, users
<1>3. ASSUME NEW t \in Thread, TestSucceeds(t) PROVE LockInv'
  BY <1>3 DEF TestSucceeds, Goto, users
<1>4. ASSUME NEW t \in Thread, TestFails(t) PROVE LockInv'
  BY <1>4, QueueAssumption DEF TestFails, End, Goto, users
<1>5. ASSUME NEW t \in Thread, StoreEntryID(t) \/ StoreOffset(t) PROVE LockInv'
  <2>1. PICK other \in {"offset", "entryID"} : Stored(t, other) /\ pc[t] \in {"stores", "entryID", "offset"}
    BY <1>5 DEF StoreEntryID, StoreOffset
  <2> QED BY <2>1, StoreCases, QueueAssumption DEF users
<1>6. ASSUME NEW p \in Producer, NEW s \in Slot, NEW v \in Val, Fill(p, s, v) PROVE LockInv'
  BY <1>6 DEF Fill, users, local
<1>7. ASSUME NEW t \in Thread, NEW s \in Slot, NEW flags, Gives(t, s, flags) PROVE LockInv'
  BY <1>7 DEF Gives, users
<1>8. ASSUME NEW p \in Producer, FreeSpaceBegin(p) PROVE LockInv'
  BY <1>8, Sides DEF FreeSpaceBegin, Goto, users
<1>9. ASSUME NEW p \in Producer, InFreeSpace(p) PROVE LockInv'
  BY <1>9, Sides DEF InFreeSpace, FreeSpaceStep, FreeSpaceReturn, Goto, users
<1>10. CASE ResetAsync
  BY <1>10 DEF ResetAsync, users, local
<1> QED
  BY <1>1, <1>2, <1>3, <1>4, <1>5, <1>6, <1>7, <1>8, <1>9, <1>10, Sides
     DEF Next, InCall, Complete, FreeEntryDirect, Freed, AllocStrideDirect, GetNextCompleteDirect

(* What a store does, and that nobody else of its side is in a call.       *)
LEMMA StoreFacts ==
  ASSUME QueueInv, NEW t \in Thread
  PROVE  /\ StoreEntryID(t) =>
              /\ UNCHANGED <<qhead, qtail, data, users, space>>
              /\ entryID' = [entryID EXCEPT ![entryPtr[t]] = IF t \in Producer THEN "allocated" ELSE "taken"]
              /\ \/ /\ pc[t] = "stores" /\ pc' = [pc EXCEPT ![t] = "offset"]
                    /\ UNCHANGED <<entryPtr, handles>>
                 \/ /\ pc[t] = "entryID" /\ pc' = [pc EXCEPT ![t] = "idle"]
                    /\ entryPtr' = [entryPtr EXCEPT ![t] = 0]
                    /\ handles' = [handles EXCEPT ![t] = @ \cup {entryPtr[t]}]
         /\ StoreOffset(t) =>
              /\ UNCHANGED <<entryID, data, users, space>>
              /\ IF t \in Producer THEN qhead' = NextOf(entryPtr[t]) /\ qtail' = qtail
                                    ELSE qtail' = NextOf(entryPtr[t]) /\ qhead' = qhead
              /\ \/ /\ pc[t] = "stores" /\ pc' = [pc EXCEPT ![t] = "entryID"]
                    /\ UNCHANGED <<entryPtr, handles>>
                 \/ /\ pc[t] = "offset" /\ pc' = [pc EXCEPT ![t] = "idle"]
                    /\ entryPtr' = [entryPtr EXCEPT ![t] = 0]
                    /\ handles' = [handles EXCEPT ![t] = @ \cup {entryPtr[t]}]
<1>1. pc \in [Thread -> PC]
  BY DEF QueueInv, TypeOK
<1>2. StoreEntryID(t) => pc[t] \in {"stores", "entryID"} /\ Stored(t, "offset")
  BY DEF StoreEntryID
<1>3. StoreOffset(t) => pc[t] \in {"stores", "offset"} /\ Stored(t, "entryID")
  BY DEF StoreOffset
<1>4. StoreEntryID(t) =>
        /\ UNCHANGED <<qhead, qtail>>
        /\ entryID' = [entryID EXCEPT ![entryPtr[t]] = IF t \in Producer THEN "allocated" ELSE "taken"]
  BY DEF StoreEntryID, Taken
<1>5. StoreOffset(t) =>
        /\ UNCHANGED entryID
        /\ IF t \in Producer THEN qhead' = NextOf(entryPtr[t]) /\ qtail' = qtail
                              ELSE qtail' = NextOf(entryPtr[t]) /\ qhead' = qhead
  BY DEF StoreOffset
<1> QED BY <1>1, <1>2, <1>3, <1>4, <1>5, StoreCases

(* The entry of a call is nobody else's, and nobody else of its side is in *)
(* one: nothing but the call itself disturbs what it knows of the entry.   *)
LEMMA CallStep == QueueInv /\ [Next]_vars => CallInv'
<1> SUFFICES ASSUME QueueInv, [Next]_vars PROVE CallInv' OBVIOUS
<1>0. /\ LockInv /\ CallInv /\ OwnerInv /\ OneOwner
      /\ pc \in [Thread -> PC] /\ handles \in [Thread -> SUBSET Slot]
      /\ entryID \in [Slot -> Flags] /\ entryPtr \in [Thread -> Slot]
  BY DEF QueueInv, TypeOK
<1>a. \A t, u \in Thread : Busy(t) /\ Busy(u) /\ (t \in Producer <=> u \in Producer) => t = u
  BY <1>0, OnePerSide
<1> USE <1>0
<1>1. CASE UNCHANGED vars
  BY <1>1 DEF vars, ring, local, CallInv
<1>2. ASSUME NEW p \in Producer, AllocStrideDirect(p) PROVE CallInv'
  BY <1>2, Sides DEF AllocStrideDirect, Begin, Goto, ring, CallInv
<1>3. ASSUME NEW c \in Consumer, GetNextCompleteDirect(c) PROVE CallInv'
  BY <1>3, Sides DEF GetNextCompleteDirect, Begin, Goto, ring, CallInv
<1>4. ASSUME NEW t \in Thread, TestSucceeds(t) PROVE CallInv'
  BY <1>4 DEF TestSucceeds, Goto, ring, CallInv, Usable, CanAlloc, CanGet
<1>5. ASSUME NEW t \in Thread, TestFails(t) PROVE CallInv'
  BY <1>5 DEF TestFails, End, Goto, ring, CallInv
<1>6. ASSUME NEW t \in Thread, StoreEntryID(t) PROVE CallInv'
  <2>1. /\ pc[t] \in {"stores", "entryID", "offset"}
        /\ \A u \in Thread : u # t => entryPtr'[u] = entryPtr[u] /\ pc'[u] = pc[u]
        /\ \A u \in Thread : u # t /\ (t \in Producer <=> u \in Producer) =>
             pc[u] \notin {"test", "stores", "entryID", "offset"}
    BY <1>6, <1>a, StoreFacts DEF Busy
  <2> QED BY <1>6, <2>1, StoreFacts DEF CallInv
<1>7. ASSUME NEW t \in Thread, StoreOffset(t) PROVE CallInv'
  <2>1. /\ pc[t] \in {"stores", "entryID", "offset"}
        /\ \A u \in Thread : u # t => entryPtr'[u] = entryPtr[u] /\ pc'[u] = pc[u]
        /\ \A u \in Thread : u # t /\ (t \in Producer <=> u \in Producer) =>
             pc[u] \notin {"test", "stores", "entryID", "offset"}
    BY <1>7, <1>a, StoreFacts DEF Busy
  <2> QED BY <1>7, <2>1, StoreFacts DEF CallInv
<1>8. ASSUME NEW p \in Producer, NEW s \in Slot, NEW v \in Val, Fill(p, s, v) PROVE CallInv'
  BY <1>8 DEF Fill, ring, local, CallInv
<1>9. ASSUME NEW t \in Thread, NEW s \in Slot, NEW flags, Gives(t, s, flags) PROVE CallInv'
  BY <1>9 DEF Gives, CallInv, OwnerInv, InStores
<1>10. ASSUME NEW p \in Producer, FreeSpaceBegin(p) PROVE CallInv'
  BY <1>10, Sides DEF FreeSpaceBegin, Goto, ring, CallInv
<1>11. ASSUME NEW p \in Producer, InFreeSpace(p) PROVE CallInv'
  BY <1>11, Sides DEF InFreeSpace, FreeSpaceStep, FreeSpaceReturn, Goto, ring, CallInv
<1>12. CASE ResetAsync
  BY <1>12 DEF ResetAsync, local, CallInv
<1> QED
  BY <1>1, <1>2, <1>3, <1>4, <1>5, <1>6, <1>7, <1>8, <1>9, <1>10, <1>11, <1>12, Sides
     DEF Next, InCall, Complete, FreeEntryDirect, Freed, CallInv

(* Every step: what a call works on is in nobody's hands, what is in use   *)
(* has an owner.                                                           *)
LEMMA OwnerStep == QueueInv /\ [Next]_vars => OwnerInv'
<1> SUFFICES ASSUME QueueInv, [Next]_vars PROVE OwnerInv' OBVIOUS
<1>0. /\ LockInv /\ CallInv /\ OwnerInv /\ OneOwner
      /\ pc \in [Thread -> PC] /\ handles \in [Thread -> SUBSET Slot]
      /\ entryID \in [Slot -> Flags] /\ entryPtr \in [Thread -> Slot]
  BY DEF QueueInv, TypeOK
<1>a. \A t, u \in Thread : InStores(t) /\ InStores(u) /\ t # u => entryPtr[t] # entryPtr[u]
  <2> SUFFICES ASSUME NEW t \in Thread, NEW u \in Thread, InStores(t), InStores(u), t # u
               PROVE  entryPtr[t] # entryPtr[u]
    OBVIOUS
  <2>1. ~ (t \in Producer <=> u \in Producer)
    BY <1>0, OnePerSide DEF Busy, InStores
  <2> QED BY <1>0, <2>1 DEF CallInv, InStores
<1> USE <1>0
<1>1. CASE UNCHANGED vars
  BY <1>1 DEF vars, ring, local, OwnerInv, OneOwner, InStores
<1>2. ASSUME NEW t \in Thread, NEW s, Begin(t), entryPtr' = [entryPtr EXCEPT ![t] = s],
             UNCHANGED <<ring, handles>>
      PROVE  OwnerInv'
  BY <1>2 DEF Begin, Goto, ring, OwnerInv, OneOwner, InStores
<1>3. ASSUME NEW t \in Thread, TestSucceeds(t) PROVE OwnerInv'
  BY <1>3 DEF TestSucceeds, Goto, ring, Usable, CanAlloc, CanGet, OwnerInv, OneOwner, InStores
<1>4. ASSUME NEW t \in Thread, TestFails(t) PROVE OwnerInv'
  BY <1>4 DEF TestFails, End, Goto, ring, OwnerInv, OneOwner, InStores
<1>5. ASSUME NEW p \in Producer, NEW s \in Slot, NEW v \in Val, Fill(p, s, v) PROVE OwnerInv'
  BY <1>5 DEF Fill, ring, local, OwnerInv, OneOwner, InStores
<1>6. ASSUME NEW t \in Thread, StoreEntryID(t) PROVE OwnerInv'
  <2>1. /\ InStores(t) /\ entryPtr[t] \in Slot
        /\ \A u \in Thread : u # t => /\ entryPtr'[u] = entryPtr[u] /\ pc'[u] = pc[u]
                                      /\ handles'[u] = handles[u]
    BY <1>6, StoreFacts DEF InStores
  <2>2. \A v, u \in Thread : InStores(u)' => entryPtr'[u] \notin handles'[v]
    BY <1>6, <1>a, <2>1, StoreFacts DEF OwnerInv, InStores
  <2>3. \A s \in Slot : entryID'[s] \in {"allocated", "taken"} =>
          \E v \in Thread : s \in handles'[v] \/ (pc'[v] = "offset" /\ entryPtr'[v] = s)
    BY <1>6, <2>1, StoreFacts DEF OwnerInv
  <2> QED BY <2>2, <2>3 DEF OwnerInv
<1>7. ASSUME NEW t \in Thread, StoreOffset(t) PROVE OwnerInv'
  <2>1. /\ InStores(t) /\ entryPtr[t] \in Slot
        /\ \A u \in Thread : u # t => /\ entryPtr'[u] = entryPtr[u] /\ pc'[u] = pc[u]
                                      /\ handles'[u] = handles[u]
    BY <1>7, StoreFacts DEF InStores
  <2>2. \A v, u \in Thread : InStores(u)' => entryPtr'[u] \notin handles'[v]
    BY <1>7, <1>a, <2>1, StoreFacts DEF OwnerInv, InStores
  <2>3. \A s \in Slot : entryID'[s] \in {"allocated", "taken"} =>
          \E v \in Thread : s \in handles'[v] \/ (pc'[v] = "offset" /\ entryPtr'[v] = s)
    BY <1>7, <2>1, StoreFacts DEF OwnerInv
  <2> QED BY <2>2, <2>3 DEF OwnerInv
<1>8. ASSUME NEW t \in Thread, NEW s \in Slot, NEW flags \in {"complete", "free"}, Gives(t, s, flags)
      PROVE  OwnerInv'
  BY <1>8 DEF Gives, OwnerInv, OneOwner, InStores
<1>9. ASSUME NEW p \in Producer, FreeSpaceBegin(p) \/ InFreeSpace(p) PROVE OwnerInv'
  BY <1>9, Sides DEF FreeSpaceBegin, InFreeSpace, FreeSpaceStep, FreeSpaceReturn, Goto, ring, OwnerInv, OneOwner, InStores
<1>10. CASE ResetAsync
  BY <1>10 DEF ResetAsync, local, OwnerInv, OneOwner, InStores
<1> QED
  BY <1>1, <1>2, <1>3, <1>4, <1>5, <1>6, <1>7, <1>8, <1>9, <1>10, Sides
     DEF Next, InCall, Complete, FreeEntryDirect, Freed, AllocStrideDirect, GetNextCompleteDirect, Flags

(* Every step: an entry is in one thread's hands.                          *)
LEMMA OneOwnerStep == QueueInv /\ [Next]_vars => OneOwner'
<1> SUFFICES ASSUME QueueInv, [Next]_vars PROVE OneOwner' OBVIOUS
<1>0. /\ LockInv /\ CallInv /\ OwnerInv /\ OneOwner
      /\ pc \in [Thread -> PC] /\ handles \in [Thread -> SUBSET Slot]
      /\ entryID \in [Slot -> Flags] /\ entryPtr \in [Thread -> Slot]
  BY DEF QueueInv, TypeOK
<1> USE <1>0
<1>1. CASE UNCHANGED vars
  BY <1>1 DEF vars, ring, local, OneOwner
<1>2. ASSUME NEW t \in Thread, Begin(t), UNCHANGED <<ring, handles>> PROVE OneOwner'
  BY <1>2 DEF Begin, Goto, ring, OneOwner
<1>3. ASSUME NEW t \in Thread, TestSucceeds(t) PROVE OneOwner'
  BY <1>3 DEF TestSucceeds, Goto, ring, Usable, CanAlloc, CanGet, OneOwner
<1>4. ASSUME NEW t \in Thread, TestFails(t) PROVE OneOwner'
  BY <1>4 DEF TestFails, End, Goto, ring, OneOwner
<1>5. ASSUME NEW p \in Producer, NEW s \in Slot, NEW v \in Val, Fill(p, s, v) PROVE OneOwner'
  BY <1>5 DEF Fill, ring, local, OneOwner
<1>6. ASSUME NEW t \in Thread, StoreEntryID(t) PROVE OneOwner'
  <2>1. /\ InStores(t) /\ entryPtr[t] \in Slot
        /\ \A u \in Thread : u # t => /\ entryPtr'[u] = entryPtr[u] /\ pc'[u] = pc[u]
                                      /\ handles'[u] = handles[u]
    BY <1>6, StoreFacts DEF InStores
  <2>2. \A v \in Thread : entryPtr[t] \notin handles[v]
    BY <2>1 DEF OwnerInv
  <2> QED BY <1>6, <2>1, <2>2, StoreFacts DEF OneOwner
<1>7. ASSUME NEW t \in Thread, StoreOffset(t) PROVE OneOwner'
  <2>1. /\ InStores(t) /\ entryPtr[t] \in Slot
        /\ \A u \in Thread : u # t => /\ entryPtr'[u] = entryPtr[u] /\ pc'[u] = pc[u]
                                      /\ handles'[u] = handles[u]
    BY <1>7, StoreFacts DEF InStores
  <2>2. \A v \in Thread : entryPtr[t] \notin handles[v]
    BY <2>1 DEF OwnerInv
  <2>3. pc[t] = "offset" => entryID[entryPtr[t]] = IF t \in Producer THEN "allocated" ELSE "taken"
    BY DEF CallInv
  <2> QED BY <1>7, <2>1, <2>2, <2>3, StoreFacts DEF OneOwner
<1>8. ASSUME NEW t \in Thread, NEW s \in Slot, NEW flags \in {"complete", "free"}, Gives(t, s, flags)
      PROVE  OneOwner'
  BY <1>8 DEF Gives, OneOwner
<1>9. ASSUME NEW p \in Producer, FreeSpaceBegin(p) \/ InFreeSpace(p) PROVE OneOwner'
  BY <1>9, Sides DEF FreeSpaceBegin, InFreeSpace, FreeSpaceStep, FreeSpaceReturn, Goto, ring, OneOwner
<1>10. CASE ResetAsync
  BY <1>10 DEF ResetAsync, local, OneOwner
<1> QED
  BY <1>1, <1>2, <1>3, <1>4, <1>5, <1>6, <1>7, <1>8, <1>9, <1>10, Sides
     DEF Next, InCall, Complete, FreeEntryDirect, Freed, AllocStrideDirect, GetNextCompleteDirect, Flags

(* Every step: what FreeSpace has counted is free and stays inside its     *)
(* limits, since nobody else allocates while the only producer counts.     *)
LEMMA SpaceStep == QueueInv /\ [Next]_vars => SpaceInv' /\ SpaceIsThere'
<1> SUFFICES ASSUME QueueInv, [Next]_vars, NEW p \in Producer, pc'[p] = "space"
             PROVE  /\ room' = Dist(qhead', entryPtr'[p]) \/ (room' = N /\ entryPtr'[p] = qhead')
                    /\ room' <= IF stop' = qhead' THEN N ELSE Dist(qhead', stop')
                    /\ \A s \in Slot : Dist(qhead', s) < room' => entryID'[s] = "free"
  BY DEF SpaceInv, SpaceIsThere, Dist
<1>0. /\ LockInv /\ CallInv /\ OwnerInv /\ OneOwner /\ SpaceInv /\ SpaceIsThere
      /\ pc \in [Thread -> PC] /\ handles \in [Thread -> SUBSET Slot] /\ p \in Thread
      /\ entryID \in [Slot -> Flags] /\ entryPtr \in [Thread -> Slot]
      /\ room \in 0..N /\ qhead \in Slot /\ qtail \in Slot /\ stop \in Slot
  BY Sides DEF QueueInv, TypeOK
<1> USE <1>0
<1>a. ASSUME pc[p] = "space", NEW t \in Producer, t # p
      PROVE  t \notin active /\ pc[t] = "idle" /\ handles[t] = {}
  BY <1>a, Sides DEF LockInv, Alone
<1>1. CASE FreeSpaceBegin(p)
  <2>1. /\ room' = 0 /\ stop' = qtail /\ entryPtr'[p] = qhead /\ qhead' = qhead
    BY <1>1 DEF FreeSpaceBegin, ring
  <2> QED BY <2>1, QueueAssumption, SMTT(20) DEF Dist, Slot
<1>2. CASE FreeSpaceStep(p)
  <2>1. /\ room' = room + 1 /\ entryPtr'[p] = NextOf(entryPtr[p]) /\ qhead' = qhead
        /\ stop' = stop /\ entryID' = entryID /\ entryID[entryPtr[p]] = "free"
        /\ ~ (room > 0 /\ entryPtr[p] = stop) /\ pc[p] = "space"
    BY <1>2 DEF FreeSpaceStep, RoomEnds, CountsAsFree, ring
  <2>2. /\ room = Dist(qhead, entryPtr[p]) \/ (room = N /\ entryPtr[p] = qhead)
        /\ room <= IF stop = qhead THEN N ELSE Dist(qhead, stop)
    BY <2>1 DEF SpaceInv
  <2>3. entryPtr[p] \in Slot
    OBVIOUS
  <2>4. room = Dist(qhead, entryPtr[p]) /\ room < N
    BY <2>1, <2>2, <2>3, QueueAssumption DEF Dist, Slot
  <2>5. \/ Dist(qhead, NextOf(entryPtr[p])) = room + 1
        \/ room + 1 = N /\ NextOf(entryPtr[p]) = qhead
    BY <2>3, <2>4, Distance
  <2>6. room + 1 <= IF stop = qhead THEN N ELSE Dist(qhead, stop)
    BY <2>1, <2>2, <2>3, <2>4, QueueAssumption DEF Dist, Slot
  <2>7. ASSUME NEW s \in Slot, Dist(qhead, s) < room + 1 PROVE entryID[s] = "free"
    <3>1. CASE Dist(qhead, s) < room
      BY <2>1, <3>1 DEF SpaceIsThere
    <3>2. CASE Dist(qhead, s) = room
      <4>1. s = entryPtr[p]
        BY <2>3, <2>4, <3>2, Distance
      <4> QED BY <2>1, <4>1
    <3> QED BY <2>4, <2>7, <3>1, <3>2, Distance
  <2> QED BY <2>1, <2>5, <2>6, <2>7
<1>3. CASE ~ FreeSpaceBegin(p) /\ ~ FreeSpaceStep(p)
  <2> DEFINE Kept ==
        /\ pc[p] = "space" /\ qhead' = qhead /\ entryPtr'[p] = entryPtr[p]
        /\ room' = room /\ stop' = stop
        /\ \A s \in Slot : entryID[s] = "free" => entryID'[s] = "free"
  <2>1. ASSUME UNCHANGED vars PROVE Kept
    BY <2>1 DEF vars, ring, local, space
  <2>2. ASSUME NEW t \in Thread, NEW s, Begin(t), entryPtr' = [entryPtr EXCEPT ![t] = s],
               UNCHANGED <<ring, space>>
        PROVE  Kept
    BY <2>2 DEF Begin, Goto, ring, space
  <2>3. ASSUME NEW t \in Thread, TestSucceeds(t) \/ TestFails(t) PROVE Kept
    BY <2>3 DEF TestSucceeds, TestFails, End, Goto, ring, space
  <2>4. ASSUME NEW t \in Thread, StoreEntryID(t) PROVE Kept
    <3>1. t # p /\ pc[p] = "space" /\ pc[t] # "idle"
      BY <2>4, StoreFacts
    <3>2. t \notin Producer
      BY <1>a, <3>1
    <3>3. pc[t] \in {"stores", "entryID"} => entryID[entryPtr[t]] = "complete"
      BY <3>2 DEF CallInv
    <3> QED BY <2>4, <3>1, <3>3, StoreFacts DEF space
  <2>5. ASSUME NEW t \in Thread, StoreOffset(t) PROVE Kept
    <3>1. t # p /\ pc[p] = "space" /\ pc[t] # "idle"
      BY <2>5, StoreFacts
    <3>2. t \notin Producer
      BY <1>a, <3>1
    <3> QED BY <2>5, <3>1, <3>2, StoreFacts DEF space
  <2>6. ASSUME NEW t \in Producer, NEW s \in Slot, NEW v \in Val, Fill(t, s, v) PROVE Kept
    BY <2>6 DEF Fill, ring, local, space
  <2>7. ASSUME NEW t \in Thread, NEW s \in Slot, NEW flags, Gives(t, s, flags) PROVE Kept
    BY <2>7 DEF Gives, space, OneOwner
  <2>8. ASSUME NEW t \in Producer, FreeSpaceBegin(t) PROVE Kept
    <3>1. t # p /\ pc[p] = "space" /\ t \in active
      BY <1>3, <2>8, Sides DEF FreeSpaceBegin, Goto
    <3> QED BY <1>a, <3>1
  <2>9. ASSUME NEW t \in Producer, InFreeSpace(t) PROVE Kept
    <3>1. t # p /\ pc[p] = "space" /\ pc[t] = "space"
      BY <1>3, <2>9, Sides DEF InFreeSpace, FreeSpaceStep, FreeSpaceReturn, Goto
    <3> QED BY <1>a, <3>1
  <2>10. ASSUME ResetAsync PROVE Kept
    BY <2>10 DEF ResetAsync, local
  <2>11. Kept
    BY <2>1, <2>2, <2>3, <2>4, <2>5, <2>6, <2>7, <2>8, <2>9, <2>10, Sides
       DEF Next, InCall, Complete, FreeEntryDirect, Freed, AllocStrideDirect, GetNextCompleteDirect
  <2> QED BY <2>11 DEF SpaceInv, SpaceIsThere
<1> QED BY <1>1, <1>2, <1>3

(* The first store of an allocate puts the entry at the head into the      *)
(* queue, the second changes nothing of it.                                *)
LEMMA ProducerStore ==
  ASSUME QueueInv, NEW p \in Producer, StoreEntryID(p) \/ StoreOffset(p)
  PROVE  /\ TailAfter' = TailAfter /\ data' = data
         /\ IF pc[p] = "stores"
              THEN /\ HeadAfter' = NextOf(HeadAfter) /\ HeadAfter \notin Queued
                   /\ Queued' = Queued \cup {HeadAfter} /\ entryID[HeadAfter] = "free"
                   /\ entryPtr[p] = HeadAfter
              ELSE HeadAfter' = HeadAfter /\ Queued' = Queued
         /\ \A s \in Queued' : entryID'[s] = "complete" <=> entryID[s] = "complete"
<1>0. /\ LockInv /\ CallInv /\ OwnerInv /\ OneOwner
      /\ pc \in [Thread -> PC] /\ handles \in [Thread -> SUBSET Slot]
      /\ entryID \in [Slot -> Flags] /\ entryPtr \in [Thread -> Slot]
      /\ qhead \in Slot /\ qtail \in Slot
  BY DEF QueueInv, TypeOK
<1> USE <1>0
<1>1. /\ p \in Thread /\ entryPtr[p] \in Slot
      /\ pc[p] \in {"stores", "entryID", "offset"}
      /\ \A u \in Thread : u # p => entryPtr'[u] = entryPtr[u] /\ pc'[u] = pc[u]
  BY StoreFacts, Sides
<1>2. \A u \in Producer : u # p => pc[u] \notin {"test", "stores", "entryID", "offset"}
  BY <1>1, OnePerSide, Sides DEF Busy
<1>3. TailAfter' = TailAfter /\ data' = data
  BY <1>1, StoreFacts, Sides DEF TailAfter
<1>4. \A s \in Slot : Taking(s)' <=> Taking(s)
  BY <1>1, Sides DEF Taking
<1>5. \A s \in Slot : Allocating(s) <=> pc[p] = "entryID" /\ s = entryPtr[p]
  BY <1>2 DEF Allocating
<1>6. \A s \in Slot : Allocating(s)' <=> pc'[p] = "entryID" /\ s = entryPtr'[p]
  BY <1>1, <1>2, Sides DEF Allocating
<1>7. HeadAfter = IF pc[p] = "offset" THEN NextOf(qhead) ELSE qhead
  BY <1>2 DEF HeadAfter
<1>8. HeadAfter' = IF pc'[p] = "offset" THEN NextOf(qhead') ELSE qhead'
  BY <1>1, <1>2, Sides DEF HeadAfter
<1>9. /\ ~ Taking(entryPtr[p])
      /\ pc[p] \in {"stores", "offset"} => entryPtr[p] = qhead
      /\ pc[p] \in {"stores", "entryID"} => entryID[entryPtr[p]] = "free"
      /\ pc[p] = "offset" => entryID[entryPtr[p]] = "allocated"
  BY <1>1, Sides DEF CallInv, Taking
<1>10. /\ \A s \in Slot : s \in Queued <=>
             (entryID[s] \in {"allocated", "complete"} \/ Allocating(s)) /\ ~ Taking(s)
       /\ \A s \in Slot : s \in Queued' <=>
             (entryID'[s] \in {"allocated", "complete"} \/ Allocating(s)') /\ ~ Taking(s)'
       /\ Queued \subseteq Slot /\ Queued' \subseteq Slot
  BY DEF Queued
<1>11. CASE StoreEntryID(p)
  <2>1. /\ qhead' = qhead /\ entryID' = [entryID EXCEPT ![entryPtr[p]] = "allocated"]
        /\ \/ pc[p] = "stores" /\ pc'[p] = "offset" /\ entryPtr'[p] = entryPtr[p]
           \/ pc[p] = "entryID" /\ pc'[p] = "idle"
    BY <1>1, <1>11, StoreFacts, Sides
  <2>2. CASE pc[p] = "stores"
    <3>1. /\ HeadAfter = qhead /\ HeadAfter' = NextOf(qhead) /\ entryPtr[p] = qhead
      BY <1>7, <1>8, <1>9, <2>1, <2>2
    <3>2. \A s \in Slot : s \in Queued' <=> s \in Queued \/ s = qhead
      BY <1>1, <1>4, <1>5, <1>6, <1>9, <1>10, <2>1, <2>2, <3>1
    <3>3. qhead \notin Queued
      BY <1>1, <1>4, <1>5, <1>6, <1>9, <1>10, <2>1, <2>2, <3>1
    <3> QED BY <1>1, <1>3, <1>9, <1>10, <2>1, <2>2, <3>1, <3>2, <3>3
  <2>3. CASE pc[p] = "entryID"
    <3>1. HeadAfter' = HeadAfter
      BY <1>7, <1>8, <1>9, <2>1, <2>3
    <3>2. \A s \in Slot : s \in Queued' <=> s \in Queued
      BY <1>1, <1>4, <1>5, <1>6, <1>9, <1>10, <2>1, <2>3, <3>1
    <3>3. Queued' = Queued
      BY <1>10, <3>2
    <3>4. \A s \in Slot : s \in Queued => (entryID'[s] = "complete" <=> entryID[s] = "complete")
      BY <1>1, <1>5, <1>9, <1>10, <2>1, <2>3
    <3> QED BY <1>3, <1>10, <2>3, <3>1, <3>3, <3>4
  <2> QED BY <2>1, <2>2, <2>3
<1>12. CASE StoreOffset(p)
  <2>1. /\ qhead' = NextOf(entryPtr[p]) /\ entryID' = entryID
        /\ \/ pc[p] = "stores" /\ pc'[p] = "entryID" /\ entryPtr'[p] = entryPtr[p]
           \/ pc[p] = "offset" /\ pc'[p] = "idle"
    BY <1>1, <1>12, StoreFacts, Sides
  <2>2. CASE pc[p] = "stores"
    <3>1. /\ HeadAfter = qhead /\ HeadAfter' = NextOf(qhead) /\ entryPtr[p] = qhead
      BY <1>7, <1>8, <1>9, <2>1, <2>2
    <3>2. \A s \in Slot : s \in Queued' <=> s \in Queued \/ s = qhead
      BY <1>1, <1>4, <1>5, <1>6, <1>9, <1>10, <2>1, <2>2, <3>1
    <3>3. qhead \notin Queued
      BY <1>1, <1>4, <1>5, <1>6, <1>9, <1>10, <2>1, <2>2, <3>1
    <3> QED BY <1>1, <1>3, <1>9, <1>10, <2>1, <2>2, <3>1, <3>2, <3>3
  <2>3. CASE pc[p] = "offset"
    <3>1. HeadAfter' = HeadAfter
      BY <1>7, <1>8, <1>9, <2>1, <2>3
    <3>2. \A s \in Slot : s \in Queued' <=> s \in Queued
      BY <1>1, <1>4, <1>5, <1>6, <1>9, <1>10, <2>1, <2>3, <3>1
    <3>3. Queued' = Queued
      BY <1>10, <3>2
    <3>4. \A s \in Slot : s \in Queued => (entryID'[s] = "complete" <=> entryID[s] = "complete")
      BY <1>1, <1>5, <1>9, <1>10, <2>1, <2>3
    <3> QED BY <1>3, <1>10, <2>3, <3>1, <3>3, <3>4
  <2> QED BY <2>1, <2>2, <2>3
<1> QED BY <1>11, <1>12

(* The first store of a get takes the entry at the tail out of the queue,  *)
(* the second changes nothing of it.                                       *)
LEMMA ConsumerStore ==
  ASSUME QueueInv, NEW c \in Consumer, StoreEntryID(c) \/ StoreOffset(c)
  PROVE  /\ HeadAfter' = HeadAfter /\ data' = data
         /\ IF pc[c] = "stores"
              THEN /\ TailAfter' = NextOf(TailAfter) /\ TailAfter \in Queued
                   /\ Queued' = Queued \ {TailAfter} /\ entryID[TailAfter] = "complete"
                   /\ entryPtr[c] = TailAfter
              ELSE TailAfter' = TailAfter /\ Queued' = Queued
         /\ \A s \in Queued' : entryID'[s] = "complete" <=> entryID[s] = "complete"
<1>0. /\ LockInv /\ CallInv /\ OwnerInv /\ OneOwner
      /\ pc \in [Thread -> PC] /\ handles \in [Thread -> SUBSET Slot]
      /\ entryID \in [Slot -> Flags] /\ entryPtr \in [Thread -> Slot]
      /\ qhead \in Slot /\ qtail \in Slot
  BY DEF QueueInv, TypeOK
<1> USE <1>0
<1>1. /\ c \in Thread /\ entryPtr[c] \in Slot
      /\ pc[c] \in {"stores", "entryID", "offset"}
      /\ \A u \in Thread : u # c => entryPtr'[u] = entryPtr[u] /\ pc'[u] = pc[u]
  BY StoreFacts, Sides
<1>2. \A u \in Consumer : u # c => pc[u] \notin {"test", "stores", "entryID", "offset"}
  BY <1>1, OnePerSide, Sides DEF Busy
<1>3. HeadAfter' = HeadAfter /\ data' = data
  BY <1>1, StoreFacts, Sides DEF HeadAfter
<1>4. \A s \in Slot : Allocating(s)' <=> Allocating(s)
  BY <1>1, Sides DEF Allocating
<1>5. \A s \in Slot : Taking(s) <=> pc[c] = "entryID" /\ s = entryPtr[c]
  BY <1>2 DEF Taking
<1>6. \A s \in Slot : Taking(s)' <=> pc'[c] = "entryID" /\ s = entryPtr'[c]
  BY <1>1, <1>2, Sides DEF Taking
<1>7. TailAfter = IF pc[c] = "offset" THEN NextOf(qtail) ELSE qtail
  BY <1>2 DEF TailAfter
<1>8. TailAfter' = IF pc'[c] = "offset" THEN NextOf(qtail') ELSE qtail'
  BY <1>1, <1>2, Sides DEF TailAfter
<1>9. /\ ~ Allocating(entryPtr[c])
      /\ pc[c] \in {"stores", "offset"} => entryPtr[c] = qtail
      /\ pc[c] \in {"stores", "entryID"} => entryID[entryPtr[c]] = "complete"
      /\ pc[c] = "offset" => entryID[entryPtr[c]] = "taken"
  BY <1>1, Sides DEF CallInv, Allocating
<1>10. /\ \A s \in Slot : s \in Queued <=>
             (entryID[s] \in {"allocated", "complete"} \/ Allocating(s)) /\ ~ Taking(s)
       /\ \A s \in Slot : s \in Queued' <=>
             (entryID'[s] \in {"allocated", "complete"} \/ Allocating(s)') /\ ~ Taking(s)'
       /\ Queued \subseteq Slot /\ Queued' \subseteq Slot
  BY DEF Queued
<1>11. CASE StoreEntryID(c)
  <2>1. /\ qtail' = qtail /\ entryID' = [entryID EXCEPT ![entryPtr[c]] = "taken"]
        /\ \/ pc[c] = "stores" /\ pc'[c] = "offset" /\ entryPtr'[c] = entryPtr[c]
           \/ pc[c] = "entryID" /\ pc'[c] = "idle"
    BY <1>1, <1>11, StoreFacts, Sides
  <2>2. CASE pc[c] = "stores"
    <3>1. /\ TailAfter = qtail /\ TailAfter' = NextOf(qtail) /\ entryPtr[c] = qtail
      BY <1>7, <1>8, <1>9, <2>1, <2>2
    <3>2. \A s \in Slot : s \in Queued' <=> s \in Queued /\ s # qtail
      BY <1>1, <1>4, <1>5, <1>6, <1>9, <1>10, <2>1, <2>2, <3>1
    <3>3. qtail \in Queued
      BY <1>1, <1>4, <1>5, <1>6, <1>9, <1>10, <2>1, <2>2, <3>1
    <3> QED BY <1>1, <1>3, <1>9, <1>10, <2>1, <2>2, <3>1, <3>2, <3>3
  <2>3. CASE pc[c] = "entryID"
    <3>1. TailAfter' = TailAfter
      BY <1>7, <1>8, <1>9, <2>1, <2>3
    <3>2. \A s \in Slot : s \in Queued' <=> s \in Queued
      BY <1>1, <1>4, <1>5, <1>6, <1>9, <1>10, <2>1, <2>3, <3>1
    <3>3. Queued' = Queued
      BY <1>10, <3>2
    <3>4. \A s \in Slot : s \in Queued => (entryID'[s] = "complete" <=> entryID[s] = "complete")
      BY <1>1, <1>5, <1>9, <1>10, <2>1, <2>3
    <3> QED BY <1>3, <1>10, <2>3, <3>1, <3>3, <3>4
  <2> QED BY <2>1, <2>2, <2>3
<1>12. CASE StoreOffset(c)
  <2>1. /\ qtail' = NextOf(entryPtr[c]) /\ entryID' = entryID
        /\ \/ pc[c] = "stores" /\ pc'[c] = "entryID" /\ entryPtr'[c] = entryPtr[c]
           \/ pc[c] = "offset" /\ pc'[c] = "idle"
    BY <1>1, <1>12, StoreFacts, Sides
  <2>2. CASE pc[c] = "stores"
    <3>1. /\ TailAfter = qtail /\ TailAfter' = NextOf(qtail) /\ entryPtr[c] = qtail
      BY <1>7, <1>8, <1>9, <2>1, <2>2
    <3>2. \A s \in Slot : s \in Queued' <=> s \in Queued /\ s # qtail
      BY <1>1, <1>4, <1>5, <1>6, <1>9, <1>10, <2>1, <2>2, <3>1
    <3>3. qtail \in Queued
      BY <1>1, <1>4, <1>5, <1>6, <1>9, <1>10, <2>1, <2>2, <3>1
    <3> QED BY <1>1, <1>3, <1>9, <1>10, <2>1, <2>2, <3>1, <3>2, <3>3
  <2>3. CASE pc[c] = "offset"
    <3>1. TailAfter' = TailAfter
      BY <1>7, <1>8, <1>9, <2>1, <2>3
    <3>2. \A s \in Slot : s \in Queued' <=> s \in Queued
      BY <1>1, <1>4, <1>5, <1>6, <1>9, <1>10, <2>1, <2>3, <3>1
    <3>3. Queued' = Queued
      BY <1>10, <3>2
    <3>4. \A s \in Slot : s \in Queued => (entryID'[s] = "complete" <=> entryID[s] = "complete")
      BY <1>1, <1>5, <1>9, <1>10, <2>1, <2>3
    <3> QED BY <1>3, <1>10, <2>3, <3>1, <3>3, <3>4
  <2> QED BY <2>1, <2>2, <2>3
<1> QED BY <1>11, <1>12

(* What the entries of the queue and its ends depend on.                   *)
LEMMA EndsSame ==
  ASSUME UNCHANGED <<qhead, qtail>>,
         \A t \in Thread : /\ pc'[t] = "offset" <=> pc[t] = "offset"
                           /\ pc'[t] = "entryID" <=> pc[t] = "entryID"
                           /\ pc[t] = "entryID" => entryPtr'[t] = entryPtr[t],
         \A s \in Slot : entryID'[s] \in {"allocated", "complete"} <=>
                           entryID[s] \in {"allocated", "complete"}
  PROVE  HeadAfter' = HeadAfter /\ TailAfter' = TailAfter /\ Queued' = Queued
<1>1. HeadAfter' = HeadAfter /\ TailAfter' = TailAfter
  BY Sides DEF HeadAfter, TailAfter
<1>2. \A s \in Slot : (Allocating(s)' <=> Allocating(s)) /\ (Taking(s)' <=> Taking(s))
  BY Sides DEF Allocating, Taking
<1> QED BY <1>1, <1>2 DEF Queued

(* The steps of calls and programs that neither put an entry into the      *)
(* queue nor take one out; Complete makes one of them complete.            *)
LEMMA QuietStep ==
  ASSUME QueueInv,
         \/ UNCHANGED vars
         \/ \E p \in Producer : \/ AllocStrideDirect(p) \/ FreeSpaceBegin(p) \/ InFreeSpace(p)
                                \/ \E s \in Slot, v \in Val : Fill(p, s, v)
         \/ \E c \in Consumer : GetNextCompleteDirect(c)
         \/ \E t \in Thread : TestSucceeds(t) \/ TestFails(t)
         \/ \E t \in Thread, s \in Slot : Complete(t, s) \/ FreeEntryDirect(t, s)
  PROVE  HeadAfter' = HeadAfter /\ TailAfter' = TailAfter /\ Queued' = Queued
<1>0. /\ OneOwner /\ pc \in [Thread -> PC] /\ handles \in [Thread -> SUBSET Slot]
      /\ entryID \in [Slot -> Flags] /\ entryPtr \in [Thread -> Slot]
  BY DEF QueueInv, TypeOK
<1> USE <1>0
<1> DEFINE Same ==
      /\ UNCHANGED <<qhead, qtail>>
      /\ \A t \in Thread : /\ pc'[t] = "offset" <=> pc[t] = "offset"
                           /\ pc'[t] = "entryID" <=> pc[t] = "entryID"
                           /\ pc[t] = "entryID" => entryPtr'[t] = entryPtr[t]
      /\ \A s \in Slot : entryID'[s] \in {"allocated", "complete"} <=>
                          entryID[s] \in {"allocated", "complete"}
<1>1. ASSUME UNCHANGED vars PROVE Same
  BY <1>1 DEF vars, ring, local
<1>2. ASSUME NEW t \in Thread, AllocStrideDirect(t) \/ GetNextCompleteDirect(t) PROVE Same
  BY <1>2 DEF AllocStrideDirect, GetNextCompleteDirect, Begin, Goto, ring
<1>3. ASSUME NEW p \in Producer, FreeSpaceBegin(p) \/ InFreeSpace(p) PROVE Same
  BY <1>3, Sides DEF FreeSpaceBegin, InFreeSpace, FreeSpaceStep, FreeSpaceReturn, Goto, ring
<1>4. ASSUME NEW p \in Producer, NEW s \in Slot, NEW v \in Val, Fill(p, s, v) PROVE Same
  BY <1>4 DEF Fill, ring, local
<1>5. ASSUME NEW t \in Thread, TestSucceeds(t) \/ TestFails(t) PROVE Same
  BY <1>5 DEF TestSucceeds, TestFails, End, Goto, ring
<1>6. ASSUME NEW t \in Thread, NEW s \in Slot, Complete(t, s) \/ FreeEntryDirect(t, s) PROVE Same
  BY <1>6, Sides DEF Complete, FreeEntryDirect, Freed, Gives, OneOwner
<1>7. Same
  BY <1>1, <1>2, <1>3, <1>4, <1>5, <1>6, Sides
<1> QED BY <1>7, EndsSame

(* A reset finds the queue empty and leaves it empty. *)
LEMMA ResetStep ==
  ASSUME QueueInv, ResetAsync
  PROVE  /\ HeadAfter = TailAfter /\ HeadAfter' = TailAfter'
         /\ Queued = {} /\ Queued' = {}
<1>1. /\ \A t \in Thread : pc[t] = "idle" /\ pc'[t] = "idle"
      /\ \A s \in Slot : entryID[s] = "free" /\ entryID'[s] = "free"
      /\ qhead' = 0 /\ qtail' = 0
  BY DEF ResetAsync, local
<1>2. Queued = {} /\ Queued' = {}
  BY <1>1, Sides DEF Queued, Allocating
<1>3. HeadAfter = qhead /\ TailAfter = qtail /\ HeadAfter' = 0 /\ TailAfter' = 0
  BY <1>1, Sides DEF HeadAfter, TailAfter
<1>4. qhead \in Slot /\ qtail \in Slot /\ Between(qtail, qhead, {})
  BY <1>2, <1>3 DEF QueueInv, TypeOK
<1>5. qhead = qtail
  <2>1. Dist(qtail, qtail) = 0 /\ (qhead # qtail => Dist(qtail, qhead) > 0)
    BY <1>4, QueueAssumption DEF Dist, Slot
  <2> QED BY <1>4, <2>1 DEF Between
<1> QED BY <1>2, <1>3, <1>5

(* Every step leaves the entries of the queue between its ends. *)
LEMMA EndsStep == QueueInv /\ TypeOK' /\ [Next]_vars => Between(TailAfter, HeadAfter, Queued)'
<1> SUFFICES ASSUME QueueInv, TypeOK', [Next]_vars
             PROVE  Between(TailAfter', HeadAfter', Queued')
  BY DEF Between, Dist
<1>1. /\ HeadAfter \in Slot /\ TailAfter \in Slot /\ Queued \subseteq Slot
      /\ Between(TailAfter, HeadAfter, Queued)
  BY Ring DEF QueueInv, TypeOK, HeadAfter, TailAfter, Queued
<1>2. ASSUME HeadAfter' = HeadAfter, TailAfter' = TailAfter, Queued' = Queued
      PROVE  Between(TailAfter', HeadAfter', Queued')
  BY <1>1, <1>2
<1>3. ASSUME NEW p \in Producer, StoreEntryID(p) \/ StoreOffset(p)
      PROVE  Between(TailAfter', HeadAfter', Queued')
  BY <1>1, <1>2, <1>3, ProducerStore, BetweenAdd
<1>4. ASSUME NEW c \in Consumer, StoreEntryID(c) \/ StoreOffset(c)
      PROVE  Between(TailAfter', HeadAfter', Queued')
  BY <1>1, <1>2, <1>4, ConsumerStore, BetweenRemove
<1>5. CASE ResetAsync
  BY <1>5, ResetStep DEF Between
<1> QED BY <1>2, <1>3, <1>4, <1>5, QuietStep, Sides DEF Next, InCall

(* QueueInvariance: the reason why the queue loses and doubles nothing is  *)
(* preserved by every step of every thread.                                *)
THEOREM QueueInvariance == Spec => []QueueInv
<1>1. QueueInv /\ [Next]_vars => QueueInv'
  <2> SUFFICES ASSUME QueueInv, [Next]_vars PROVE QueueInv' OBVIOUS
  <2>1. TypeOK' BY TypeStep
  <2>2. LockInv' /\ CallInv' BY LockStep, CallStep
  <2>3. OwnerInv' /\ OneOwner' BY OwnerStep, OneOwnerStep
  <2>4. SpaceInv' /\ SpaceIsThere' BY SpaceStep
  <2>5. Between(TailAfter, HeadAfter, Queued)' BY <2>1, EndsStep
  <2> QED BY <2>1, <2>2, <2>3, <2>4, <2>5 DEF QueueInv
<1> QED BY <1>1, InitHolds, PTL DEF Spec

(* SingleOwner: an entry is in the hands of one thread at a time, and of   *)
(* nobody when it can be allocated or got.                                 *)
THEOREM SingleOwner == Spec => []OneOwner
<1>1. QueueInv => OneOwner BY DEF QueueInv
<1> QED BY <1>1, QueueInvariance, PTL

(* FreeSpaceHolds: the only producer can allocate what FreeSpace counted.  *)
THEOREM FreeSpaceHolds == Spec => []SpaceIsThere
<1>1. QueueInv => SpaceIsThere BY DEF QueueInv
<1> QED BY <1>1, QueueInvariance, PTL

-----------------------------------------------------------------------------
(* The refinement. *)
Entry == Val \cup {NoVal}
fifo == [i \in 1..Used |-> Content(i)]
FifoStep == [Fifo!Next]_<<fifo, last>>

(* Where the entries of the queue are. *)
EndsOK ==
  /\ TailAfter \in Slot /\ HeadAfter \in Slot /\ Queued \in SUBSET Slot
  /\ Between(TailAfter, HeadAfter, Queued)

LEMMA EndsType == QueueInv => EndsOK
BY Ring DEF QueueInv, TypeOK, HeadAfter, TailAfter, Queued, EndsOK

(* How long the queue is: the position after its last one is at the head. *)
LEMMA Length ==
  ASSUME EndsOK
  PROVE  /\ Used \in 0..N /\ SlotAt(Used + 1) = HeadAfter
         /\ SlotAt(1) = TailAfter
         /\ Used = 0 <=> Queued = {}
         /\ HeadAfter \in Queued <=> Used = N
         /\ TailAfter \in Queued <=> Used > 0
<1>1. CASE HeadAfter = TailAfter
  <2>1. Queued = {} \/ Queued = Slot
    BY <1>1 DEF EndsOK, Between
  <2> QED BY <1>1, <2>1, QueueAssumption DEF EndsOK, Used, SlotAt, Slot
<1>2. CASE HeadAfter # TailAfter
  <2>1. /\ Used = Dist(TailAfter, HeadAfter)
        /\ Queued = {s \in Slot : Dist(TailAfter, s) < Dist(TailAfter, HeadAfter)}
    BY <1>2 DEF EndsOK, Between, Used
  <2>2. Used \in 1..N-1 /\ SlotAt(Used + 1) = HeadAfter /\ SlotAt(1) = TailAfter
    BY <1>2, <2>1, QueueAssumption DEF EndsOK, SlotAt, Dist, Slot
  <2>3. HeadAfter \notin Queued /\ TailAfter \in Queued
    BY <1>2, <2>1, QueueAssumption DEF EndsOK, Dist, Slot
  <2> QED BY <2>2, <2>3, QueueAssumption
<1> QED BY <1>1, <1>2

(* A position of the queue is one of its entries, and each its own. *)
LEMMA Position ==
  ASSUME EndsOK, NEW i \in 1..Used
  PROVE  /\ SlotAt(i) \in Queued /\ SlotAt(i) \in Slot
         /\ \A j \in 1..Used : i # j => SlotAt(i) # SlotAt(j)
<1>1. Used \in 0..N /\ i \in 1..N
  BY Length, QueueAssumption
<1>2. SlotAt(i) \in Slot /\ Dist(TailAfter, SlotAt(i)) = i - 1
  BY <1>1, QueueAssumption DEF EndsOK, SlotAt, Dist, Slot
<1>3. \A j \in 1..Used : i # j => SlotAt(i) # SlotAt(j)
  BY <1>1, QueueAssumption DEF EndsOK, SlotAt, Slot
<1>4. SlotAt(i) \in Queued
  <2>1. CASE HeadAfter = TailAfter
    BY <1>1, <1>2, <2>1 DEF EndsOK, Between, Used
  <2>2. CASE HeadAfter # TailAfter
    BY <1>1, <1>2, <2>2 DEF EndsOK, Between, Used
  <2> QED BY <2>1, <2>2
<1> QED BY <1>2, <1>3, <1>4

(* Every entry of the queue has a position. *)
LEMMA PositionOf ==
  ASSUME EndsOK, NEW s \in Queued
  PROVE  \E i \in 1..Used : SlotAt(i) = s
<1>1. s \in Slot /\ Used \in 0..N /\ Dist(TailAfter, s) \in 0..N-1
  BY Length, Distance DEF EndsOK
<1>2. Dist(TailAfter, s) < Used
  <2>1. CASE HeadAfter = TailAfter
    BY <1>1, <2>1, QueueAssumption DEF EndsOK, Used
  <2>2. CASE HeadAfter # TailAfter
    BY <1>1, <2>2 DEF EndsOK, Between, Used
  <2> QED BY <2>1, <2>2
<1>3. SlotAt(Dist(TailAfter, s) + 1) = s
  BY <1>1, QueueAssumption DEF EndsOK, SlotAt, Dist, Slot
<1>4. Dist(TailAfter, s) + 1 \in 1..Used
  BY <1>1, <1>2
<1> QED BY <1>3, <1>4

(* The queue is a sequence of values and of unpublished entries. *)
LEMMA FifoType == QueueInv => fifo \in [1..Used -> Entry]
<1> SUFFICES ASSUME QueueInv, NEW i \in 1..Used PROVE Content(i) \in Entry
  BY DEF fifo
<1>1. data \in [Slot -> Val]
  BY DEF QueueInv, TypeOK
<1>2. SlotAt(i) \in Slot
  BY EndsType, Position
<1> QED BY <1>1, <1>2 DEF Content, Entry

(* A step that changes neither the queue nor what is in it is a stutter. *)
LEMMA Stutters ==
  ASSUME QueueInv, HeadAfter' = HeadAfter, TailAfter' = TailAfter, Queued' = Queued, last' = last,
         \A s \in Queued : /\ entryID'[s] = "complete" <=> entryID[s] = "complete"
                           /\ entryID[s] = "complete" => data'[s] = data[s]
  PROVE  FifoStep
<1>1. Used' = Used /\ \A i \in 1..Used : SlotAt(i)' = SlotAt(i)
  BY DEF Used, SlotAt
<1>2. \A i \in 1..Used : SlotAt(i) \in Queued
  BY EndsType, Position
<1>3. ASSUME NEW i \in 1..Used PROVE Content(i)' = Content(i)
  <2>1. SlotAt(i)' = SlotAt(i) /\ SlotAt(i) \in Queued
    BY <1>1, <1>2
  <2>2. /\ entryID'[SlotAt(i)] = "complete" <=> entryID[SlotAt(i)] = "complete"
        /\ entryID[SlotAt(i)] = "complete" => data'[SlotAt(i)] = data[SlotAt(i)]
    BY <2>1
  <2> QED BY <2>1, <2>2 DEF Content
<1>4. fifo' = fifo
  BY <1>1, <1>3 DEF fifo
<1> QED BY <1>4 DEF FifoStep

(* The first store of an allocate reserves an entry. *)
LEMMA ReserveStep ==
  ASSUME QueueInv, TypeOK', NEW p \in Producer, StoreEntryID(p) \/ StoreOffset(p), pc[p] = "stores"
  PROVE  FifoStep
<1>1. /\ TailAfter' = TailAfter /\ HeadAfter' = NextOf(HeadAfter) /\ data' = data
      /\ HeadAfter \notin Queued /\ Queued' = Queued \cup {HeadAfter}
      /\ entryID[HeadAfter] = "free"
      /\ \A s \in Queued' : entryID'[s] = "complete" <=> entryID[s] = "complete"
  BY ProducerStore
<1>2. last' = last
  <2>1. p \notin Consumer
    BY Sides
  <2> QED BY <2>1 DEF StoreEntryID, StoreOffset, Stored
<1>3. /\ EndsOK /\ Used \in 0..N /\ Used # N /\ SlotAt(Used + 1) = HeadAfter
      /\ HeadAfter \in Slot /\ TailAfter \in Slot
  BY <1>1, EndsType, Length DEF EndsOK
<1>4. Used' = Used + 1 /\ Used \in Nat /\ Used < N
  <2>1. Used \in Nat /\ Used < N
    BY <1>3, QueueAssumption
  <2>2. CASE HeadAfter = TailAfter
    <3>1. Queued = {} /\ Used = 0
      BY <1>1, <1>3, <2>2 DEF EndsOK, Between, Used
    <3>2. Used' = IF NextOf(TailAfter) # TailAfter THEN Dist(TailAfter, NextOf(TailAfter)) ELSE N
      BY <1>1, <2>2 DEF Used
    <3>3. IF NextOf(TailAfter) # TailAfter THEN Dist(TailAfter, NextOf(TailAfter)) = 1 ELSE N = 1
      BY <1>3, QueueAssumption DEF NextOf, Dist, Slot
    <3> QED BY <2>1, <3>1, <3>2, <3>3
  <2>3. CASE HeadAfter # TailAfter
    <3>1. Used = Dist(TailAfter, HeadAfter)
      BY <2>3 DEF Used
    <3>2. Used' = IF NextOf(HeadAfter) # TailAfter THEN Dist(TailAfter, NextOf(HeadAfter)) ELSE N
      BY <1>1 DEF Used
    <3>3. Dist(TailAfter, NextOf(HeadAfter)) = Dist(TailAfter, HeadAfter) + 1
            \/ (NextOf(HeadAfter) = TailAfter /\ Dist(TailAfter, HeadAfter) + 1 = N)
      BY <1>3, Distance
    <3>4. NextOf(HeadAfter) = TailAfter => Dist(TailAfter, NextOf(HeadAfter)) = 0
      BY <1>3, QueueAssumption DEF Dist, Slot
    <3> QED BY <2>1, <3>1, <3>2, <3>3, <3>4
  <2> QED BY <2>1, <2>2, <2>3
<1>5. \A i \in 1..Used+1 : SlotAt(i)' = SlotAt(i)
  BY <1>1 DEF SlotAt
<1>6. \A i \in 1..Used : Content(i)' = Content(i)
  <2> SUFFICES ASSUME NEW i \in 1..Used PROVE Content(i)' = Content(i)
    OBVIOUS
  <2>1. SlotAt(i) \in Queued /\ i \in 1..Used+1
    BY <1>3, <1>4, Position
  <2>2. SlotAt(i)' = SlotAt(i) /\ (entryID'[SlotAt(i)] = "complete" <=> entryID[SlotAt(i)] = "complete")
    BY <1>1, <1>5, <2>1
  <2> QED BY <1>1, <2>2 DEF Content
<1>7. Content(Used)' = NoVal
  <2>1. SlotAt(Used)' = HeadAfter
    BY <1>1, <1>3, <1>4 DEF SlotAt
  <2>2. entryID'[HeadAfter] # "complete"
    BY <1>1
  <2> QED BY <2>1, <2>2 DEF Content
<1>8. fifo \in [1..Used -> Entry] /\ \A i \in 1..Used : Content(i) \in Entry /\ fifo[i] = Content(i)
  BY FifoType DEF fifo
<1>9. /\ \A i \in 1..Used : fifo'[i] = fifo[i]
      /\ fifo'[Used + 1] = NoVal
      /\ fifo' \in [1..Used+1 -> Entry]
  <2>1. fifo' = [i \in 1..Used+1 |-> Content(i)']
    BY <1>4 DEF fifo
  <2>2. Content(Used)' = fifo'[Used']
    BY <1>4, <2>1
  <2>3. 1..Used \subseteq 1..Used+1 /\ Used + 1 \in 1..Used+1
    BY <1>4
  <2>4. ASSUME NEW i \in 1..Used+1 PROVE Content(i)' \in Entry
    <3>1. CASE i \in 1..Used
      BY <1>6, <1>8, <3>1
    <3>2. CASE i = Used'
      BY <1>7, <3>2 DEF Entry
    <3> QED BY <1>4, <3>1, <3>2
  <2> QED BY <1>4, <1>6, <1>7, <1>8, <2>1, <2>2, <2>3, <2>4
<1>10. fifo' = Append(fifo, NoVal) /\ Len(fifo) = Used
  BY <1>4, <1>8, <1>9, AppendGives DEF Entry
<1>11. Fifo!Reserve
  BY <1>2, <1>4, <1>10 DEF Fifo!Reserve, fifo
<1> QED BY <1>11 DEF FifoStep, Fifo!Next

(* The first store of a get takes the oldest entry. *)
LEMMA TakeStep ==
  ASSUME QueueInv, TypeOK', NEW c \in Consumer, StoreEntryID(c) \/ StoreOffset(c), pc[c] = "stores"
  PROVE  FifoStep
<1>1. /\ HeadAfter' = HeadAfter /\ TailAfter' = NextOf(TailAfter) /\ data' = data
      /\ TailAfter \in Queued /\ Queued' = Queued \ {TailAfter}
      /\ entryID[TailAfter] = "complete" /\ entryPtr[c] = TailAfter
      /\ \A s \in Queued' : entryID'[s] = "complete" <=> entryID[s] = "complete"
  BY ConsumerStore
<1>2. last' = data[TailAfter]
  BY <1>1 DEF StoreEntryID, StoreOffset, Stored
<1>3. /\ EndsOK /\ Used \in 0..N /\ Used > 0 /\ SlotAt(1) = TailAfter
      /\ HeadAfter \in Slot /\ TailAfter \in Slot
  BY <1>1, EndsType, Length DEF EndsOK
<1>4. Used' = Used - 1 /\ Used \in Nat /\ Used > 0 /\ Used <= N
  <2>1. Used \in Nat /\ Used > 0 /\ Used <= N
    BY <1>3, QueueAssumption
  <2>2. CASE HeadAfter = TailAfter
    <3>1. Queued = Slot /\ Used = N
      BY <1>1, <1>3, <2>2 DEF EndsOK, Between, Used
    <3>2. Used' = IF TailAfter # NextOf(TailAfter) THEN Dist(NextOf(TailAfter), TailAfter)
                    ELSE IF Queued \ {TailAfter} = {} THEN 0 ELSE N
      BY <1>1, <2>2 DEF Used
    <3>3. IF TailAfter # NextOf(TailAfter) THEN Dist(NextOf(TailAfter), TailAfter) = N - 1
                                          ELSE N = 1 /\ Slot = {TailAfter}
      BY <1>3, QueueAssumption DEF NextOf, Dist, Slot
    <3> QED BY <2>1, <3>1, <3>2, <3>3
  <2>3. CASE HeadAfter # TailAfter
    <3>1. /\ Used = Dist(TailAfter, HeadAfter)
          /\ Queued = {s \in Slot : Dist(TailAfter, s) < Dist(TailAfter, HeadAfter)}
      BY <1>3, <2>3 DEF EndsOK, Between, Used
    <3>2. Used' = IF HeadAfter # NextOf(TailAfter) THEN Dist(NextOf(TailAfter), HeadAfter)
                    ELSE IF Queued \ {TailAfter} = {} THEN 0 ELSE N
      BY <1>1 DEF Used
    <3>3. CASE HeadAfter # NextOf(TailAfter)
      <4>1. Dist(NextOf(TailAfter), HeadAfter) = Dist(TailAfter, HeadAfter) - 1
        BY <1>3, <2>3, <3>3, QueueAssumption DEF NextOf, Dist, Slot
      <4> QED BY <2>1, <3>1, <3>2, <3>3, <4>1
    <3>4. CASE HeadAfter = NextOf(TailAfter)
      <4>1. Dist(TailAfter, HeadAfter) = 1
        BY <1>3, <2>3, <3>4, QueueAssumption DEF NextOf, Dist, Slot
      <4>2. \A s \in Slot : Dist(TailAfter, s) < 1 => s = TailAfter
        BY <1>3, QueueAssumption DEF Dist, Slot
      <4> QED BY <2>1, <3>1, <3>2, <3>4, <4>1, <4>2
    <3> QED BY <3>3, <3>4
  <2> QED BY <2>1, <2>2, <2>3
<1>5. \A i \in 1..Used-1 : SlotAt(i)' = SlotAt(i+1)
  <2>1. \A i \in 1..Used-1 :
          (IF NextOf(TailAfter) + i - 1 >= N THEN NextOf(TailAfter) + i - 1 - N ELSE NextOf(TailAfter) + i - 1)
            = SlotAt(i+1)
    BY <1>3, <1>4, QueueAssumption DEF SlotAt, NextOf, Slot
  <2> QED BY <1>1, <2>1 DEF SlotAt
<1>6. ASSUME NEW i \in 1..Used-1 PROVE Content(i)' = Content(i+1)
  <2>1. i + 1 \in 1..Used /\ 1 \in 1..Used /\ i + 1 # 1
    BY <1>4
  <2>2. SlotAt(i+1) \in Queued /\ SlotAt(i+1) # TailAfter
    BY <1>3, <2>1, Position
  <2>3. SlotAt(i)' = SlotAt(i+1) /\ (entryID'[SlotAt(i+1)] = "complete" <=> entryID[SlotAt(i+1)] = "complete")
    BY <1>1, <1>5, <2>2
  <2> QED BY <1>1, <2>3 DEF Content
<1>7. Content(1) = data[TailAfter] /\ data[TailAfter] \in Val
  BY <1>1, <1>3 DEF Content, QueueInv, TypeOK
<1>8. fifo \in [1..Used -> Entry] /\ \A i \in 1..Used : Content(i) \in Entry /\ fifo[i] = Content(i)
  BY FifoType DEF fifo
<1>9. /\ \A i \in 1..Used-1 : fifo'[i] = fifo[i+1]
      /\ fifo[1] = data[TailAfter]
      /\ fifo' \in [1..Used-1 -> Entry]
  <2>1. fifo' = [i \in 1..Used-1 |-> Content(i)']
    BY <1>4 DEF fifo
  <2>2. \A i \in 1..Used-1 : i + 1 \in 1..Used
    BY <1>4
  <2>3. \A i \in 1..Used-1 : Content(i)' = fifo[i+1] /\ fifo[i+1] \in Entry
    BY <1>6, <1>8, <2>2
  <2>4. fifo[1] = data[TailAfter]
    BY <1>4, <1>7, <1>8
  <2> QED BY <2>1, <2>3, <2>4
<1>10. fifo # <<>> /\ Head(fifo) = data[TailAfter] /\ fifo' = Tail(fifo)
  BY <1>4, <1>8, <1>9, TailGives
<1> QED BY <1>2, <1>7, <1>10 DEF FifoStep, Fifo!Next, Fifo!Take, fifo

(* The store of the valid flag publishes an entry. *)
LEMMA PublishStep ==
  ASSUME QueueInv, NEW p \in Producer, NEW e \in Slot, Complete(p, e)
  PROVE  FifoStep
<1>1. /\ UNCHANGED <<data, last>>
      /\ entryID' = [entryID EXCEPT ![e] = "complete"]
      /\ entryID \in [Slot -> Flags] /\ data \in [Slot -> Val]
  BY DEF Complete, Gives, QueueInv, TypeOK
<1>2. entryID[e] = "allocated" /\ ~ Taking(e)
  <2>1. entryID[e] = "allocated"
    BY Sides DEF Complete, Gives, QueueInv, OneOwner
  <2> QED BY <2>1, Sides DEF QueueInv, CallInv, Taking
<1>3. /\ e \in Queued /\ EndsOK
      /\ HeadAfter' = HeadAfter /\ TailAfter' = TailAfter /\ Queued' = Queued
  BY <1>2, EndsType, QuietStep, Sides DEF Queued
<1>4. PICK k \in 1..Used : SlotAt(k) = e
  BY <1>3, PositionOf
<1>5. Used' = Used /\ Used \in Nat /\ \A i \in 1..Used : SlotAt(i)' = SlotAt(i)
  BY <1>3, Length, QueueAssumption DEF Used, SlotAt
<1>6. Content(k) = NoVal /\ Content(k)' = data[e]
  BY <1>1, <1>2, <1>4, <1>5 DEF Content
<1>7. ASSUME NEW i \in 1..Used, i # k PROVE Content(i)' = Content(i)
  <2>1. SlotAt(i) # e /\ SlotAt(i) \in Slot /\ SlotAt(i)' = SlotAt(i)
    BY <1>3, <1>4, <1>5, <1>7, Position
  <2> QED BY <1>1, <2>1 DEF Content
<1>8. fifo' = [fifo EXCEPT ![k] = data[e]] /\ fifo[k] = NoVal
  BY <1>5, <1>6, <1>7 DEF fifo
<1>9. Len(fifo) = Used /\ data[e] \in Val
  BY <1>1, <1>5 DEF fifo
<1>10. Fifo!Publish(k, data[e]) /\ k \in 1..Len(fifo)
  BY <1>1, <1>8, <1>9 DEF Fifo!Publish, fifo
<1> QED BY <1>9, <1>10 DEF FifoStep, Fifo!Next, fifo

(* All the other steps change nothing of the queue. *)
LEMMA OtherSteps ==
  ASSUME QueueInv,
         \/ UNCHANGED vars
         \/ \E p \in Producer : \/ AllocStrideDirect(p) \/ FreeSpaceBegin(p) \/ InFreeSpace(p)
                                \/ \E s \in Slot, v \in Val : Fill(p, s, v)
         \/ \E c \in Consumer : GetNextCompleteDirect(c)
         \/ \E t \in Thread : TestSucceeds(t) \/ TestFails(t)
         \/ \E t \in Thread, s \in Slot : FreeEntryDirect(t, s)
  PROVE  FifoStep
<1>1. HeadAfter' = HeadAfter /\ TailAfter' = TailAfter /\ Queued' = Queued
  BY QuietStep
<1>2. OneOwner /\ data \in [Slot -> Val] /\ entryID \in [Slot -> Flags] /\ Queued \subseteq Slot
  BY DEF QueueInv, TypeOK, Queued
<1>3. last' = last
  BY DEF vars, AllocStrideDirect, FreeSpaceBegin, InFreeSpace, FreeSpaceStep, FreeSpaceReturn,
         Fill, GetNextCompleteDirect, TestSucceeds, TestFails, FreeEntryDirect, Freed, Gives
<1>4. ASSUME NEW s \in Slot
      PROVE  /\ entryID'[s] = "complete" <=> entryID[s] = "complete"
             /\ entryID[s] = "complete" => data'[s] = data[s]
  <2>1. CASE \E p \in Producer, e \in Slot, v \in Val : Fill(p, e, v)
    BY <1>2, <2>1, Sides DEF Fill, ring, OneOwner
  <2>2. CASE \E t \in Thread, e \in Slot : FreeEntryDirect(t, e)
    BY <1>2, <2>2, Sides DEF FreeEntryDirect, Freed, Gives, OneOwner
  <2>3. CASE ~ (\E p \in Producer, e \in Slot, v \in Val : Fill(p, e, v))
             /\ ~ (\E t \in Thread, e \in Slot : FreeEntryDirect(t, e))
    BY <2>3 DEF vars, ring, AllocStrideDirect, FreeSpaceBegin, InFreeSpace, FreeSpaceStep,
       FreeSpaceReturn, GetNextCompleteDirect, TestSucceeds, TestFails
  <2> QED BY <2>1, <2>2, <2>3
<1> QED BY <1>1, <1>2, <1>3, <1>4, Stutters

(* The second store of a call changes nothing of the queue. *)
LEMMA SecondStore ==
  ASSUME QueueInv, NEW t \in Thread, StoreEntryID(t) \/ StoreOffset(t), pc[t] # "stores"
  PROVE  FifoStep
<1>1. /\ HeadAfter' = HeadAfter /\ TailAfter' = TailAfter /\ Queued' = Queued /\ data' = data
      /\ \A s \in Queued' : entryID'[s] = "complete" <=> entryID[s] = "complete"
  BY ProducerStore, ConsumerStore, Sides
<1>2. last' = last
  BY DEF StoreEntryID, StoreOffset, Stored
<1> QED BY <1>1, <1>2, Stutters

(* Resetting a drained queue leaves it empty. *)
LEMMA ResetStutters ==
  ASSUME QueueInv, ResetAsync
  PROVE  FifoStep
<1>1. Used = 0 /\ Used' = 0 /\ last' = last
  BY ResetStep DEF Used, ResetAsync
<1>2. fifo' = fifo
  BY <1>1 DEF fifo
<1> QED BY <1>1, <1>2 DEF FifoStep

(* Every step of the ring is a step of the queue, or changes nothing of it. *)
LEMMA EveryStep == QueueInv /\ TypeOK' /\ [Next]_vars => FifoStep
<1> SUFFICES ASSUME QueueInv, TypeOK', [Next]_vars PROVE FifoStep OBVIOUS
<1>1. ASSUME NEW t \in Thread, InCall(t) PROVE FifoStep
  BY <1>1, ReserveStep, TakeStep, SecondStore, OtherSteps, Sides DEF InCall
<1> QED BY <1>1, PublishStep, ResetStutters, OtherSteps, Sides DEF Next

(* The ring starts as the empty queue. *)
LEMMA FifoInit == Init => Fifo!Init
<1> SUFFICES ASSUME Init PROVE Fifo!Init OBVIOUS
<1>1. Queued = {} /\ HeadAfter = TailAfter
  BY Sides DEF Init, Queued, HeadAfter, TailAfter, Allocating, Taking
<1>2. fifo = <<>>
  BY <1>1 DEF fifo, Used
<1> QED BY <1>2 DEF Fifo!Init, fifo, Init

(* QueueImplementsFifo: what any number of threads do to the ring is what  *)
(* they would do to a first-in first-out queue of N entries.               *)
THEOREM QueueImplementsFifo == Spec => ImplementsBoundedFifo
<1>1. QueueInv /\ QueueInv' /\ [Next]_vars => FifoStep
  BY EveryStep DEF QueueInv
<1>2. FifoStep => [Fifo!Next]_<<[i \in 1..Used |-> Content(i)], last>>
  BY DEF FifoStep, fifo
<1> QED BY <1>1, <1>2, FifoInit, QueueInvariance, PTL DEF Spec, ImplementsBoundedFifo, Fifo!Spec
=============================================================================

---------------------------- MODULE MultiPCQueue ----------------------------
(***************************************************************************)
(* The multiple producer, multiple consumer queue (sphmultipcqueue.cpp): a *)
(* ring of entries in which a consumer frees an entry at any time after it *)
(* has got it, so the header alone says whether an entry can be allocated  *)
(* or got; qhead and qtail only say where to look.  The ...Sync calls hold *)
(* the write lock of the queue (SASLock); the only producer of a queue may *)
(* leave it out (SPHSPMCQ...), and so may the only consumer (SPHMPSCQ...). *)
(*                                                                         *)
(* Without a lock on the other side, and in frees, headers and offsets are *)
(* read and written while others do: an action has one load or store that  *)
(* another thread can race with, and two stores that nothing orders are    *)
(* done in either order.                                                   *)
(***************************************************************************)
EXTENDS Integers, Sequences

CONSTANTS
  N,            (* entries of the ring                                     *)
  Producer, Consumer, NoThread,
  Programs,     (* which threads use the queue: the cases to check         *)
  Val,          (* what a producer can write into an entry                 *)
  NoVal         (* an entry that is not complete, for the queue promised   *)

Thread == Producer \cup Consumer

ASSUME QueueAssumption ==
  /\ N \in Nat /\ N >= 1
  /\ Producer \cap Consumer = {}
  /\ NoThread \notin Thread
  /\ Programs \subseteq SUBSET Thread
  /\ NoVal \notin Val

VARIABLES
  qhead, qtail,
  entryID,      (* the flags of each header                                *)
  data,         (* what is stored behind the header                        *)
  lock,         (* who has the SAS lock of the queue, or NoThread          *)
  active,       (* the threads that use the queue, one of Programs         *)
  unlocked,     (* those that call without the lock: alone on their side   *)
  pc,           (* "entryID" and "offset" name the one store left to do    *)
  entryPtr,     (* the entry a call works on                               *)
  handles,      (* the entries each thread has been given                  *)
  room,         (* entries FreeSpace has counted                           *)
  stop,         (* qtail as FreeSpace has read it                          *)
  last          (* what was in the entry got last                          *)

ring == <<qhead, qtail, entryID>>
users == <<active, unlocked>>
local == <<pc, entryPtr, handles>>
space == <<room, stop>>
vars == <<ring, data, lock, users, local, space, last>>

Slot == 0..N-1

(* allocated; allocated and valid; valid only: a consumer has it. *)
Flags == {"free", "allocated", "complete", "taken"}

PC == {"idle", "test", "stores", "entryID", "offset", "space"}

TypeOK ==
  /\ qhead \in Slot
  /\ qtail \in Slot
  /\ entryID \in [Slot -> Flags]
  /\ data \in [Slot -> Val]
  /\ lock \in Thread \cup {NoThread}
  /\ active \in Programs
  /\ unlocked \in SUBSET active
  /\ pc \in [Thread -> PC]
  /\ entryPtr \in [Thread -> Slot]
  /\ handles \in [Thread -> SUBSET Slot]
  /\ room \in 0..N
  /\ stop \in Slot
  /\ last \in Val

(* The only active thread of its side. *)
Alone(t) ==
  \A u \in active : (u \in Producer <=> t \in Producer) => u = t

Init ==
  /\ qhead = 0
  /\ qtail = 0
  /\ entryID = [s \in Slot |-> "free"]
  /\ data \in [Slot -> Val]
  /\ lock = NoThread
  /\ active \in Programs
  /\ unlocked \in SUBSET {t \in active : Alone(t)}
  /\ pc = [t \in Thread |-> "idle"]
  /\ entryPtr = [t \in Thread |-> 0]
  /\ handles = [t \in Thread |-> {}]
  /\ room = 0
  /\ stop = 0
  /\ last \in Val

-----------------------------------------------------------------------------
(* A condition or helper that a fault is seeded in has a name; its faulty  *)
(* form, _Fault, stands before it.                                         *)
Goto(t, l) == pc' = [pc EXCEPT ![t] = l]

NextOf(s) == IF s + 1 >= N THEN 0 ELSE s + 1

(* SASLock (queue, WRITE), by a call that locks. *)
LockIsFree_Fault(t) == TRUE
LockIsFree(t) == t \in unlocked \/ lock = NoThread

Begin(t) ==
  /\ t \in active
  /\ pc[t] = "idle"
  /\ LockIsFree(t)
  /\ lock' = IF t \in unlocked THEN lock ELSE t
  /\ Goto(t, "test")

(* The locals of a call are gone when it returns: zero here. *)
End(t) ==
  /\ lock' = IF t \in unlocked THEN lock ELSE NoThread
  /\ entryPtr' = [entryPtr EXCEPT ![t] = 0]
  /\ Goto(t, "idle")

(* AdvanceHead and AdvanceTail: the offset of one's side, read under the   *)
(* lock or by the only thread that writes it, and the flags found there.   *)
AllocStrideDirect(p) ==
  /\ Begin(p)
  /\ entryPtr' = [entryPtr EXCEPT ![p] = qhead]
  /\ UNCHANGED <<ring, data, users, handles, space, last>>

GetNextCompleteDirect(c) ==
  /\ Begin(c)
  /\ entryPtr' = [entryPtr EXCEPT ![c] = qtail]
  /\ UNCHANGED <<ring, data, users, handles, space, last>>

CanAlloc(f) == f = "free"

CanGet_Fault(f) == f \in {"complete", "taken"}
CanGet(f) == f = "complete"

Usable(t) ==
  IF t \in Producer THEN CanAlloc(entryID[entryPtr[t]]) ELSE CanGet(entryID[entryPtr[t]])

TestSucceeds(t) ==
  /\ pc[t] = "test"
  /\ Usable(t)
  /\ Goto(t, "stores")
  /\ UNCHANGED <<ring, data, lock, users, entryPtr, handles, space, last>>

TestFails(t) ==
  /\ pc[t] = "test"
  /\ ~ Usable(t)
  /\ End(t)
  /\ UNCHANGED <<ring, data, users, handles, space, last>>

(* The two stores of a call, in either order.  With the last it unlocks    *)
(* and returns the entry; what a get is given is noted at the first.       *)
Stored(t, other) ==
  /\ IF pc[t] = "stores"
       THEN /\ Goto(t, other)
            /\ last' = IF t \in Consumer THEN data[entryPtr[t]] ELSE last
            /\ UNCHANGED <<lock, entryPtr, handles>>
       ELSE /\ End(t)
            /\ handles' = [handles EXCEPT ![t] = @ \cup {entryPtr[t]}]
            /\ UNCHANGED last
  /\ UNCHANGED <<data, users, space>>

(* A get clears "allocated" and leaves "valid": the entry stays in use.    *)
Taken_Fault == "free"
Taken == "taken"

StoreEntryID(t) ==
  /\ pc[t] \in {"stores", "entryID"}
  /\ entryID' = [entryID EXCEPT ![entryPtr[t]] = IF t \in Producer THEN "allocated" ELSE Taken]
  /\ Stored(t, "offset")
  /\ UNCHANGED <<qhead, qtail>>

StoreOffset(t) ==
  /\ pc[t] \in {"stores", "offset"}
  /\ IF t \in Producer
       THEN qhead' = NextOf(entryPtr[t]) /\ UNCHANGED qtail
       ELSE qtail' = NextOf(entryPtr[t]) /\ UNCHANGED qhead
  /\ Stored(t, "entryID")
  /\ UNCHANGED entryID

-----------------------------------------------------------------------------
(* What a program does with the entries it has: in any order. *)

Fill(p, s, v) ==
  /\ pc[p] = "idle"
  /\ s \in handles[p]
  /\ data' = [data EXCEPT ![s] = v]
  /\ UNCHANGED <<ring, lock, users, local, space, last>>

Gives(t, s, flags) ==
  /\ pc[t] = "idle"
  /\ s \in handles[t]
  /\ handles' = [handles EXCEPT ![t] = @ \ {s}]
  /\ entryID' = [entryID EXCEPT ![s] = flags]
  /\ UNCHANGED <<qhead, qtail, data, lock, users, pc, entryPtr, space, last>>

(* A free clears the whole header, the valid flag too. *)
Freed_Fault == "taken"
Freed == "free"

Complete(p, s) == p \in Producer /\ Gives(p, s, "complete")
FreeEntryDirect(c, s) == c \in Consumer /\ Gives(c, s, Freed)

-----------------------------------------------------------------------------
(* FreeSpace, which takes no lock: it reads qtail and qhead, then counts   *)
(* the free entries from qhead up to that qtail or the first in use.  Its  *)
(* caller here is the only producer: to several it is a guess.             *)
FreeSpaceBegin(p) ==
  /\ p \in active
  /\ Alone(p)
  /\ pc[p] = "idle"
  /\ Goto(p, "space")
  /\ room' = 0
  /\ stop' = qtail
  /\ entryPtr' = [entryPtr EXCEPT ![p] = qhead]
  /\ UNCHANGED <<ring, data, lock, users, handles, last>>

RoomEnds(p) == room > 0 /\ entryPtr[p] = stop

CountsAsFree_Fault(f) == f \in {"free", "allocated"}
CountsAsFree(f) == f = "free"

FreeSpaceStep(p) ==
  /\ pc[p] = "space"
  /\ ~ RoomEnds(p)
  /\ CountsAsFree(entryID[entryPtr[p]])
  /\ room' = room + 1
  /\ entryPtr' = [entryPtr EXCEPT ![p] = NextOf(@)]
  /\ UNCHANGED <<ring, data, lock, users, pc, handles, stop, last>>

FreeSpaceReturn(p) ==
  /\ pc[p] = "space"
  /\ RoomEnds(p) \/ ~ CountsAsFree(entryID[entryPtr[p]])
  /\ Goto(p, "idle")
  /\ room' = 0
  /\ stop' = 0
  /\ entryPtr' = [entryPtr EXCEPT ![p] = 0]
  /\ UNCHANGED <<ring, data, lock, users, handles, last>>

-----------------------------------------------------------------------------
(* ResetAsync between two uses of the queue, with every entry free and no  *)
(* thread in a call, as the tests do.                                      *)
ResetAsync ==
  /\ \A t \in Thread : pc[t] = "idle"
  /\ \A s \in Slot : entryID[s] = "free"
  /\ qhead' = 0
  /\ qtail' = 0
  /\ UNCHANGED <<entryID, data, lock, users, local, space, last>>

(* A call under way goes on. *)
InCall(t) ==
  TestSucceeds(t) \/ TestFails(t) \/ StoreEntryID(t) \/ StoreOffset(t)

InFreeSpace(p) == FreeSpaceStep(p) \/ FreeSpaceReturn(p)

Next ==
  \/ \E p \in Producer :
       \/ AllocStrideDirect(p)
       \/ \E s \in Slot : Complete(p, s) \/ \E v \in Val : Fill(p, s, v)
       \/ FreeSpaceBegin(p)
       \/ InFreeSpace(p)
  \/ \E c \in Consumer : GetNextCompleteDirect(c) \/ \E s \in Slot : FreeEntryDirect(c, s)
  \/ \E t \in Thread : InCall(t)
  \/ ResetAsync

Spec == Init /\ [][Next]_vars

(* A call goes on.  The consumers keep asking for entries, and the entries *)
(* the programs have are completed or freed: not each one, it is enough    *)
(* that somebody does, since those who do run out of entries.  Fairness is *)
(* strong where a program may be busy with other calls each second moment, *)
(* and for the lock, which others may take each time it is free.           *)
FairSpec ==
  /\ Spec
  /\ WF_vars(\E p \in Producer : InCall(p) \/ InFreeSpace(p))
  /\ WF_vars(\E c \in Consumer : InCall(c))
  /\ SF_vars(\E c \in Consumer : GetNextCompleteDirect(c))
  /\ SF_vars(\E p \in Producer, s \in Slot : Complete(p, s))
  /\ SF_vars(\E c \in Consumer, s \in Slot : FreeEntryDirect(c, s))

-----------------------------------------------------------------------------
(* OneOwner: an entry is in the hands of one thread, and of nobody while   *)
(* its header says that it can be got or allocated: not of two producers,  *)
(* nor of a producer and of a consumer that has not freed it, although the *)
(* entries are freed in any order.                                         *)
OneOwner ==
  \A t \in Thread : \A s \in handles[t] :
    /\ entryID[s] = IF t \in Producer THEN "allocated" ELSE "taken"
    /\ \A u \in Thread : s \in handles[u] => u = t

(* HeadComesFree: an allocate that finds the queue full finds room in the  *)
(* end, however late an entry is completed or freed.                       *)
HeadComesFree == entryID[qhead] # "free" ~> entryID[qhead] = "free"

(* How far s is from t, going up. *)
Dist(t, s) == IF s >= t THEN s - t ELSE s - t + N

(* SpaceIsThere: the entries FreeSpace counts for the only producer are    *)
(* still free when it returns, one after the other from qhead, and can be  *)
(* allocated ("free space remaining in the queue buffer").                 *)
SpaceIsThere ==
  \A p \in Producer : pc[p] = "space" =>
    \A s \in Slot : Dist(qhead, s) < room => entryID[s] = "free"

-----------------------------------------------------------------------------
(* The entries of the queue, what is allocated or complete, and its two    *)
(* ends, counting a call that is between its two stores as done.           *)
Allocating(s) == \E p \in Producer : pc[p] = "entryID" /\ entryPtr[p] = s
Taking(s) == \E c \in Consumer : pc[c] = "entryID" /\ entryPtr[c] = s
Queued ==
  {s \in Slot : (entryID[s] \in {"allocated", "complete"} \/ Allocating(s)) /\ ~ Taking(s)}

HeadAfter == IF \E p \in Producer : pc[p] = "offset" THEN NextOf(qhead) ELSE qhead
TailAfter == IF \E c \in Consumer : pc[c] = "offset" THEN NextOf(qtail) ELSE qtail

(* They are the ones from tail up to head: none or all when these meet. *)
Between(tail, head, queued) ==
  IF head = tail THEN queued \in {{}, Slot}
    ELSE queued = {s \in Slot : Dist(tail, s) < Dist(tail, head)}

(* A thread in a call has the lock, or its side to itself. *)
Busy(t) == pc[t] \in {"test", "stores", "entryID", "offset"}
LockInv ==
  /\ \A t \in Thread : Busy(t) => t \in unlocked \/ lock = t
  /\ \A t \in unlocked : Alone(t)
  /\ \A t \in Thread : pc[t] # "idle" \/ handles[t] # {} => t \in active
  /\ \A t \in Thread : pc[t] = "space" => t \in Producer /\ Alone(t)

(* What a call knows of the entry it works on, until it returns it. *)
CallInv ==
  \A t \in Thread :
    LET side == IF t \in Producer THEN qhead ELSE qtail
        flags == entryID[entryPtr[t]]
    IN  /\ pc[t] \in {"test", "stores", "offset"} => entryPtr[t] = side
        /\ pc[t] = "entryID" => NextOf(entryPtr[t]) = side
        /\ pc[t] \in {"stores", "entryID"} => flags = IF t \in Producer THEN "free" ELSE "complete"
        /\ pc[t] = "offset" => flags = IF t \in Producer THEN "allocated" ELSE "taken"

InStores(t) == pc[t] \in {"stores", "entryID", "offset"}

(* An entry that a call works on is in nobody's hands yet, and one that is *)
(* allocated or taken is in somebody's.                                    *)
OwnerInv ==
  /\ \A t, u \in Thread : InStores(u) => entryPtr[u] \notin handles[t]
  /\ \A s \in Slot : entryID[s] \in {"allocated", "taken"} =>
       \E t \in Thread : s \in handles[t] \/ (pc[t] = "offset" /\ entryPtr[t] = s)

(* How far FreeSpace has got: never past where it stops. *)
SpaceInv ==
  \A p \in Producer : pc[p] = "space" =>
    /\ room = Dist(qhead, entryPtr[p]) \/ (room = N /\ entryPtr[p] = qhead)
    /\ room <= IF stop = qhead THEN N ELSE Dist(qhead, stop)

(* QueueInv: why no entry is lost or given twice.  The entries in the      *)
(* queue are the ones from qtail up to qhead, an allocated one has its     *)
(* producer, and a call finds at its end the flags that it tested.         *)
QueueInv ==
  /\ TypeOK /\ LockInv /\ CallInv /\ OwnerInv /\ OneOwner
  /\ SpaceInv /\ SpaceIsThere
  /\ Between(TailAfter, HeadAfter, Queued)

-----------------------------------------------------------------------------
(* The queue implements BoundedFifo: no entry is kept empty. *)
SlotAt(i) == IF TailAfter + i - 1 >= N THEN TailAfter + i - 1 - N ELSE TailAfter + i - 1
Used ==
  IF HeadAfter # TailAfter THEN Dist(TailAfter, HeadAfter)
    ELSE IF Queued = {} THEN 0 ELSE N
Content(i) == IF entryID[SlotAt(i)] = "complete" THEN data[SlotAt(i)] ELSE NoVal

Fifo == INSTANCE BoundedFifo WITH
  Unpublished <- NoVal, Capacity <- N,
  q <- [i \in 1..Used |-> Content(i)]

ImplementsBoundedFifo == Fifo!Spec
=============================================================================

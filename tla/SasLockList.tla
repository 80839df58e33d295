---------------------------- MODULE SasLockList ----------------------------
(***************************************************************************)
(* One slot of the lock table: SasLockList::lockNode and unlockNode        *)
(* (saslockl.cpp) with the SasUserLock items they work on.  SASLock and    *)
(* SASUnlock reach it through SasMasterLock, which hashes an address to    *)
(* one of 256 slots, so a slot serves all the addresses with one hash.     *)
(*                                                                         *)
(* The list is locked by its own SasUserLock, always for writing: here a   *)
(* variable that one thread holds.  An item is the SasUserLock of module   *)
(* SasUserLock with two changes.  Its address field is there, since the    *)
(* search reads it without the item's data_lock; and a thread that waits   *)
(* for the item waits until the condition of its loop is false, without    *)
(* the semaphores, so every order of the grants the code has is here and   *)
(* a wakeup is never lost.                                                 *)
(***************************************************************************)
EXTENDS Integers, Sequences, FiniteSets

CONSTANTS
  Thread,       (* threads of all the processes sharing the region         *)
  NoThread,
  Key,          (* the addresses that hash to this slot                    *)
  NullAddress,
  Programs,     (* which addresses each thread locks: the cases to check   *)
  MaxCalls      (* bound: lock calls each thread makes                     *)

ASSUME SlotAssumption ==
  /\ NoThread \notin Thread
  /\ NullAddress \notin Key
  /\ IsFiniteSet(Key)
  /\ Programs \subseteq [Thread -> SUBSET Key]
  /\ MaxCalls \in Nat

VARIABLES
  lock,         (* who holds the lock of the list, or NoThread             *)
  items,        (* the items in the order they were added; the list pushes *)
                (* at its head, so the search goes from the last down      *)
  pc,
  want,         (* the key and lock type of the call a thread is in        *)
  iter,         (* its position in the search                              *)
  firstFree,    (* firstFreeLock of the search; 0 is NULL                  *)
  program,
  holds,        (* what each program was granted: [Thread -> [Key -> ...]] *)
  calls

call == <<pc, want, iter, firstFree>>
client == <<program, holds, calls>>
vars == <<lock, items, call, client>>

LockT == {"READ", "WRITE"}
Hold == [mode : LockT \cup {"NONE"}, count : Nat]
NoHold == [mode |-> "NONE", count |-> 0]

Item == [address : Key \cup {NullAddress},
         data_lock : Thread \cup {NoThread},
         status : {"not_exclusive", "exclusive"},
         total_readers_count : Nat,
         writer_thread_id : Thread \cup {NoThread},
         writer_thread_lock_count : Nat,
         readers : [Thread -> Nat]]

NewItem ==
  [address |-> NullAddress, data_lock |-> NoThread, status |-> "not_exclusive",
   total_readers_count |-> 0, writer_thread_id |-> NoThread,
   writer_thread_lock_count |-> 0, readers |-> [t \in Thread |-> 0]]

PC == {"idle", "search", "enter", "inside", "r_wait", "w_wait", "drain",
       "u_search", "u_item"}

TypeOK ==
  /\ lock \in Thread \cup {NoThread}
  /\ items \in Seq(Item)
  /\ pc \in [Thread -> PC]
  /\ want \in [Thread -> [key : Key \cup {NullAddress}, lockT : LockT]]
  /\ iter \in [Thread -> Nat]
  /\ firstFree \in [Thread -> Nat]
  /\ program \in Programs
  /\ holds \in [Thread -> [Key -> Hold]]
  /\ calls \in [Thread -> Nat]

Init ==
  /\ lock = NoThread
  /\ items = <<>>
  /\ pc = [t \in Thread |-> "idle"]
  /\ want = [t \in Thread |-> [key |-> NullAddress, lockT |-> "READ"]]
  /\ iter = [t \in Thread |-> 0]
  /\ firstFree = [t \in Thread |-> 0]
  /\ program \in Programs
  /\ holds = [t \in Thread |-> [k \in Key |-> NoHold]]
  /\ calls = [t \in Thread |-> 0]

Goto(t, l) == pc' = [pc EXCEPT ![t] = l]
at(t) == items[iter[t]]

(* A condition that a fault is seeded in has a name; _Fault is its faulty  *)
(* form.                                                                   *)
ListIsFree_Fault == TRUE
ListIsFree == lock = NoThread

-----------------------------------------------------------------------------
(* lockNode(): lock the list, then look for the address. *)

(* A program that holds only a read lock does not ask for the write lock:  *)
(* sasmlock.h says that it would hang.                                     *)
LockNode(t, k, lockT) ==
  /\ pc[t] = "idle"
  /\ calls[t] < MaxCalls
  /\ k \in program[t]
  /\ ~ (lockT = "WRITE" /\ holds[t][k].mode = "READ")
  /\ ListIsFree
  /\ lock' = t
  /\ want' = [want EXCEPT ![t] = [key |-> k, lockT |-> lockT]]
  /\ iter' = [iter EXCEPT ![t] = Len(items)]
  /\ firstFree' = [firstFree EXCEPT ![t] = 0]
  /\ calls' = [calls EXCEPT ![t] = @ + 1]
  /\ Goto(t, "search")
  /\ UNCHANGED <<items, program, holds>>

SearchHit(t) ==
  /\ pc[t] = "search"
  /\ iter[t] > 0
  /\ at(t).address = want[t].key
  /\ Goto(t, "enter")
  /\ UNCHANGED <<lock, items, want, iter, firstFree, client>>

IsFree_Fault(r) == FALSE
IsFree(r) == r.address = NullAddress

(* "Mark the first free lock object we find": the first from the head. *)
SearchMiss(t) ==
  /\ pc[t] = "search"
  /\ iter[t] > 0
  /\ at(t).address # want[t].key
  /\ firstFree' = IF firstFree[t] = 0 /\ IsFree(at(t))
                    THEN [firstFree EXCEPT ![t] = iter[t]]
                    ELSE firstFree
  /\ iter' = [iter EXCEPT ![t] = @ - 1]
  /\ UNCHANGED <<lock, items, pc, want, client>>

UseFree(t) ==
  /\ pc[t] = "search"
  /\ iter[t] = 0
  /\ firstFree[t] # 0
  /\ iter' = [iter EXCEPT ![t] = firstFree[t]]
  /\ Goto(t, "enter")
  /\ UNCHANGED <<lock, items, want, firstFree, client>>

AddItem(t) ==
  /\ pc[t] = "search"
  /\ iter[t] = 0
  /\ firstFree[t] = 0
  /\ items' = Append(items, NewItem)
  /\ iter' = [iter EXCEPT ![t] = Len(items) + 1]
  /\ Goto(t, "enter")
  /\ UNCHANGED <<lock, want, firstFree, client>>

-----------------------------------------------------------------------------
(* read_lock(lock, key) or write_lock(lock, key) of the item found.  The   *)
(* list is unlocked once the item's data_lock is taken; the address is     *)
(* written when the lock is granted.                                       *)
EnterItem(t) ==
  /\ pc[t] = "enter"
  /\ at(t).data_lock = NoThread
  /\ items' = [items EXCEPT ![iter[t]].data_lock = t]
  /\ lock' = NoThread
  /\ Goto(t, "inside")
  /\ UNCHANGED <<want, iter, firstFree, client>>

(* The rest runs under data_lock: the thread has it since EnterItem, or    *)
(* takes it again when it is woken.                                        *)
Running(t, woken) ==
  \/ pc[t] = "inside"
  \/ pc[t] = woken /\ at(t).data_lock = NoThread

(* Release data_lock, leaving the item as r. *)
Leave(t, r) == items' = [items EXCEPT ![iter[t]] = [r EXCEPT !.data_lock = NoThread]]

Granted(t, mode) ==
  /\ holds' = [holds EXCEPT ![t][want[t].key] = [mode |-> mode, count |-> @.count + 1]]
  /\ Goto(t, "idle")
  /\ UNCHANGED <<lock, want, iter, firstFree, program, calls>>

Waits(t, l) ==
  /\ Goto(t, l)
  /\ UNCHANGED <<lock, want, iter, firstFree, client>>

ReLockByWriter(t) ==
  /\ pc[t] = "inside"
  /\ at(t).writer_thread_id = t
  /\ Leave(t, [at(t) EXCEPT !.writer_thread_lock_count = @ + 1, !.address = want[t].key])
  /\ Granted(t, "WRITE")

(* A thread in the reader table may lock again, another one when nobody    *)
(* writes or waits to write.                                               *)
MustWaitToRead(t) ==
  \/ at(t).status = "exclusive"
  \/ \E u \in Thread : pc[u] \in {"w_wait", "drain"} /\ iter[u] = iter[t]

IsReader(t) ==
  /\ pc[t] = "inside"
  /\ at(t).total_readers_count > 0
  /\ at(t).readers[t] > 0

ReadGrant(t) ==
  /\ Running(t, "r_wait")
  /\ want[t].lockT = "READ"
  /\ at(t).writer_thread_id # t
  /\ IsReader(t) \/ ~ MustWaitToRead(t)
  /\ Leave(t, [at(t) EXCEPT !.readers[t] = @ + 1, !.total_readers_count = @ + 1,
                            !.address = want[t].key])
  /\ Granted(t, "READ")

ReadWait(t) ==
  /\ pc[t] = "inside"
  /\ want[t].lockT = "READ"
  /\ at(t).writer_thread_id # t
  /\ ~ IsReader(t)
  /\ MustWaitToRead(t)
  /\ Leave(t, at(t))
  /\ Waits(t, "r_wait")

WriteWait(t) ==
  /\ pc[t] = "inside"
  /\ want[t].lockT = "WRITE"
  /\ at(t).writer_thread_id # t
  /\ at(t).status = "exclusive"
  /\ Leave(t, at(t))
  /\ Waits(t, "w_wait")

Reserve(t) ==
  /\ Running(t, "w_wait")
  /\ want[t].lockT = "WRITE"
  /\ at(t).writer_thread_id # t
  /\ at(t).status = "not_exclusive"
  /\ Leave(t, [at(t) EXCEPT !.status = "exclusive"])
  /\ Waits(t, "drain")

WriteGrant(t) ==
  /\ pc[t] = "drain"
  /\ at(t).data_lock = NoThread
  /\ at(t).total_readers_count = 0
  /\ Leave(t, [at(t) EXCEPT !.writer_thread_id = t, !.writer_thread_lock_count = 1,
                            !.address = want[t].key])
  /\ Granted(t, "WRITE")

-----------------------------------------------------------------------------
(* unlockNode(): the first item with the address is unlocked.  A program   *)
(* unlocks what it holds; an address that only it uses it may also unlock  *)
(* when it is not locked.                                                  *)
UnlockNode(t, k) ==
  /\ pc[t] = "idle"
  /\ \/ holds[t][k].count > 0
     \/ k \in program[t] /\ \A u \in Thread \ {t} : k \notin program[u]
  /\ ListIsFree
  /\ lock' = t
  /\ want' = [want EXCEPT ![t].key = k]
  /\ iter' = [iter EXCEPT ![t] = Len(items)]
  /\ Goto(t, "u_search")
  /\ UNCHANGED <<items, firstFree, client>>

UnlockSearch(t) ==
  /\ pc[t] = "u_search"
  /\ iter[t] > 0
  /\ IF at(t).address = want[t].key
       THEN Goto(t, "u_item") /\ UNCHANGED iter
       ELSE iter' = [iter EXCEPT ![t] = @ - 1] /\ UNCHANGED pc
  /\ UNCHANGED <<lock, items, want, firstFree, client>>

OneLess(h) == IF h.count <= 1 THEN NoHold ELSE [h EXCEPT !.count = @ - 1]

(* The call returns and the program counts the lock as released. *)
Released(t) ==
  /\ holds' = [holds EXCEPT ![t][want[t].key] = OneLess(@)]
  /\ lock' = NoThread
  /\ Goto(t, "idle")
  /\ UNCHANGED <<want, iter, firstFree, program, calls>>

(* "unlock requested for an address that is not locked" *)
UnlockNotFound(t) ==
  /\ pc[t] = "u_search"
  /\ iter[t] = 0
  /\ Released(t)
  /\ UNCHANGED items

UnlocksARead(r) == r.total_readers_count > 0

AddressAfterRead_Fault(r) == NullAddress
AddressAfterRead(r) == IF r.total_readers_count = 1 THEN NullAddress ELSE r.address

(* SasUserLock::unlock() by t of an item r, which goes by the item's own   *)
(* records: the last reader, and the writer at its last level, also take   *)
(* the address off, whether or not somebody waits.                         *)
(* After an unlock that found another thread's lock a thread can have two  *)
(* places in the code's reader table; one count stands for both here.      *)
Unlocked(r, t) ==
  IF UnlocksARead(r)
    THEN [r EXCEPT
            !.total_readers_count = @ - 1,
            !.address = AddressAfterRead(r),
            !.readers[t] = IF @ > 0 THEN @ - 1 ELSE @]
    ELSE IF r.status # "exclusive"
      THEN r
      ELSE IF r.writer_thread_lock_count # 1
        THEN [r EXCEPT !.writer_thread_lock_count = @ - 1]
        ELSE [r EXCEPT !.writer_thread_lock_count = 0,
                       !.writer_thread_id = NoThread,
                       !.status = "not_exclusive",
                       !.address = NullAddress]

UnlockItem(t) ==
  /\ pc[t] = "u_item"
  /\ at(t).data_lock = NoThread
  /\ Leave(t, Unlocked(at(t), t))
  /\ Released(t)

-----------------------------------------------------------------------------
NewCall(t) ==
  \E k \in Key : UnlockNode(t, k) \/ \E lockT \in LockT : LockNode(t, k, lockT)

InLockNode(t) == SearchHit(t) \/ SearchMiss(t) \/ UseFree(t) \/ AddItem(t)

InItem(t) ==
  \/ EnterItem(t) \/ ReLockByWriter(t) \/ ReadGrant(t) \/ ReadWait(t)
  \/ WriteWait(t) \/ Reserve(t) \/ WriteGrant(t)

InUnlockNode(t) == UnlockSearch(t) \/ UnlockNotFound(t) \/ UnlockItem(t)

Next ==
  \E t \in Thread : NewCall(t) \/ InLockNode(t) \/ InItem(t) \/ InUnlockNode(t)

Spec == Init /\ [][Next]_vars

-----------------------------------------------------------------------------
(* KeyExclusion: an address that one program has locked for writing is     *)
(* locked by no other program, as saslock.h says: "SAS Locks implements    *)
(* shared read locks and exclusive write locks."                           *)
KeyExclusion ==
  \A k \in Key : \A t, u \in Thread :
    t # u /\ holds[t][k].mode = "WRITE" => holds[u][k].mode = "NONE"

(* The item that unlockNode(k) would find: the first from the head. *)
Matching(k) == {i \in 1..Len(items) : items[i].address = k}
Found(k) == CHOOSE i \in Matching(k) : \A j \in Matching(k) : j <= i

(* HolderIsFound: the item that SASUnlock would find for a locked address  *)
(* is the one whose records say that the caller holds it, as often as it   *)
(* does; else the unlock is lost, or releases the lock of somebody else.   *)
HolderIsFound ==
  \A t \in Thread, k \in Key :
    holds[t][k].count > 0 =>
      /\ Matching(k) # {}
      /\ LET r == items[Found(k)] IN
           IF holds[t][k].mode = "WRITE"
             THEN r.writer_thread_id = t /\ r.writer_thread_lock_count = holds[t][k].count
             ELSE r.readers[t] = holds[t][k].count

(* SlotInv: the fields keep their types; an address has one item at most;  *)
(* and a slot never has more items than addresses in use, the items of the *)
(* addresses that were unlocked being used again: the table is in a heap   *)
(* of fixed size and no item is ever given back to it.                     *)
SlotInv ==
  /\ TypeOK
  /\ \A k \in Key : Cardinality(Matching(k)) <= 1
  /\ Len(items) <= Cardinality(UNION {program[t] : t \in Thread})
=============================================================================

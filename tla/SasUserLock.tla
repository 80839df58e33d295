---------------------------- MODULE SasUserLock ----------------------------
(***************************************************************************)
(* One SasUserLock object (sasulock.h, sasulock.cpp): the counting         *)
(* read/write lock behind every SAS lock.  A spin lock, data_lock, guards  *)
(* its fields; threads sleep on two semaphores, one shared by all the      *)
(* waiting readers and one by all the waiting writers.                     *)
(*                                                                         *)
(* A section of code that runs under data_lock is one action, except that  *)
(* a woken thread takes data_lock and lowers its waiting count in one      *)
(* action and tests its loop condition in another: thread_wakeup() reads   *)
(* that count without the lock and may see the value in between.           *)
(***************************************************************************)
EXTENDS Integers, FiniteSets

CONSTANTS
  Thread,            (* threads, over all tasks: a (task id, thread id)    *)
  Programs,          (* which calls the threads make: the cases to check   *)
  NoThread,          (* the zero id: nobody                                *)
  MaxReaderThreads,  (* MAX_READER_THREADS, slots of the reader table      *)
  MaxCalls           (* bound: lock calls each thread makes in its life    *)

ASSUME LockAssumption ==
  /\ NoThread \notin Thread
  /\ IsFiniteSet(Thread)
  /\ Programs \subseteq [Thread -> SUBSET {"read_lock", "write_lock"}]
  /\ MaxReaderThreads \in Nat \ {0}
  /\ MaxCalls \in Nat

VARIABLES
  data_lock,                 (* who holds the spin lock, or NoThread       *)
  status,                    (* "exclusive" from the time a writer is next *)
  total_readers_count,
  readers_waiting,
  readers_waiting_sem,
  writers_waiting,
  writers_waiting_sem,
  writer_thread_id,
  writer_thread_lock_count,
  readers,                   (* the reader table: 0 is "not in the table"  *)
  pc,                        (* where each thread is in the lock's code    *)
  wake,                      (* the wakeups a thread has still to perform  *)
  program,                   (* the calls each thread makes, one Programs  *)
  mode,                      (* what the thread's program was granted      *)
  held,                      (* locks granted and not yet released         *)
  calls                      (* lock calls made so far                     *)

counts == <<total_readers_count, readers>>
waiting == <<readers_waiting, writers_waiting>>
sems == <<readers_waiting_sem, writers_waiting_sem>>
writer == <<writer_thread_id, writer_thread_lock_count>>
client == <<program, mode, held, calls>>
vars == <<data_lock, status, counts, waiting, sems, writer, pc, wake, client>>

Status == {"not_exclusive", "exclusive"}
Mode == {"none", "shared", "exclusive"}
NoWake == [writers |-> FALSE, readers |-> FALSE, posts |-> 0]

(* Places inside read_lock(), write_lock() and unlock(). *)
ReadPc == {"r_check", "r_sem", "r_relock", "r_full"}
ContendPc == {"w_check", "w_sem", "w_relock"}
DrainPc == {"w_wake", "d_lock", "d_check", "d_sem", "d_relock"}
PC == {"idle", "u_wake"} \cup ReadPc \cup ContendPc \cup DrainPc

(* The places at which the thread holds data_lock between two actions. *)
SpinPc == {"r_check", "r_full", "w_check", "d_check"}

TypeOK ==
  /\ data_lock \in Thread \cup {NoThread}
  /\ status \in Status
  /\ total_readers_count \in Nat
  /\ readers_waiting \in Nat
  /\ readers_waiting_sem \in Nat
  /\ writers_waiting \in Nat
  /\ writers_waiting_sem \in Nat
  /\ writer_thread_id \in Thread \cup {NoThread}
  /\ writer_thread_lock_count \in Nat
  /\ readers \in [Thread -> Nat]
  /\ pc \in [Thread -> PC]
  /\ wake \in [Thread -> [writers : BOOLEAN, readers : BOOLEAN, posts : Nat]]
  /\ program \in Programs
  /\ mode \in [Thread -> Mode]
  /\ held \in [Thread -> Nat]
  /\ calls \in [Thread -> Nat]

Init ==
  /\ data_lock = NoThread
  /\ status = "not_exclusive"
  /\ total_readers_count = 0
  /\ readers_waiting = 0
  /\ readers_waiting_sem = MaxReaderThreads
  /\ writers_waiting = 0
  /\ writers_waiting_sem = 1
  /\ writer_thread_id = NoThread
  /\ writer_thread_lock_count = 0
  /\ readers = [t \in Thread |-> 0]
  /\ pc = [t \in Thread |-> "idle"]
  /\ wake = [t \in Thread |-> NoWake]
  /\ program \in Programs
  /\ mode = [t \in Thread |-> "none"]
  /\ held = [t \in Thread |-> 0]
  /\ calls = [t \in Thread |-> 0]

-----------------------------------------------------------------------------
Goto(t, l) == pc' = [pc EXCEPT ![t] = l]

(* A thread has one slot of the table, open again when its count is 0. *)
OpenSlot == Cardinality({t \in Thread : readers[t] > 0}) < MaxReaderThreads

(* The condition of each loop and of each branch that a fault is seeded in *)
(* has a name of its own; the faulty form, _Fault, stands before it.       *)

(* The program gets one more lock: the ghost of a call that returns. *)
Granted(t, m) ==
  /\ mode' = [mode EXCEPT ![t] = m]
  /\ held' = [held EXCEPT ![t] = @ + 1]
  /\ UNCHANGED <<program, calls>>

(* The call begins: a thread outside the lock's code, with calls to make. *)
Call(t) ==
  /\ pc[t] = "idle"
  /\ calls[t] < MaxCalls
  /\ data_lock = NoThread
  /\ calls' = [calls EXCEPT ![t] = @ + 1]
  /\ UNCHANGED program

(* read_lock() or write_lock() by the thread that owns the write lock. *)
ReLockByWriter(t) ==
  /\ Call(t)
  /\ writer_thread_id = t
  /\ writer_thread_lock_count' = writer_thread_lock_count + 1
  /\ held' = [held EXCEPT ![t] = @ + 1]
  /\ UNCHANGED <<data_lock, status, counts, waiting, sems, writer_thread_id,
                 pc, wake, mode>>

-----------------------------------------------------------------------------
(* read_lock() by a thread found in the reader table. *)
ReLockByReader(t) ==
  /\ Call(t)
  /\ "read_lock" \in program[t]
  /\ writer_thread_id # t
  /\ total_readers_count > 0
  /\ readers[t] > 0
  /\ readers' = [readers EXCEPT ![t] = @ + 1]
  /\ total_readers_count' = total_readers_count + 1
  /\ held' = [held EXCEPT ![t] = @ + 1]
  /\ UNCHANGED <<data_lock, status, waiting, sems, writer, pc, wake, mode>>

(* read_lock() by any other thread: it goes on, holding data_lock. *)
ReadLock(t) ==
  /\ Call(t)
  /\ "read_lock" \in program[t]
  /\ writer_thread_id # t
  /\ ~ (total_readers_count > 0 /\ readers[t] > 0)
  /\ data_lock' = t
  /\ Goto(t, "r_check")
  /\ UNCHANGED <<status, counts, waiting, sems, writer, wake, mode, held>>

MustWaitToRead == status = "exclusive" \/ writers_waiting > 0

ReadSleep(t) ==
  /\ pc[t] = "r_check"
  /\ MustWaitToRead
  /\ readers_waiting' = readers_waiting + 1
  /\ data_lock' = NoThread
  /\ Goto(t, "r_sem")
  /\ UNCHANGED <<status, counts, writers_waiting, sems, writer, wake, client>>

ReadGrant(t) ==
  /\ pc[t] = "r_check"
  /\ ~ MustWaitToRead
  /\ OpenSlot
  /\ readers' = [readers EXCEPT ![t] = 1]
  /\ total_readers_count' = total_readers_count + 1
  /\ data_lock' = NoThread
  /\ Goto(t, "idle")
  /\ Granted(t, "shared")
  /\ UNCHANGED <<status, waiting, sems, writer, wake>>

(* No open slot: the code returns with data_lock still taken, on purpose. *)
ReadTableFull(t) ==
  /\ pc[t] = "r_check"
  /\ ~ MustWaitToRead
  /\ ~ OpenSlot
  /\ Goto(t, "r_full")
  /\ UNCHANGED <<data_lock, status, counts, waiting, sems, writer, wake, client>>

ReadSemWait(t) ==
  /\ pc[t] = "r_sem"
  /\ readers_waiting_sem > 0
  /\ readers_waiting_sem' = readers_waiting_sem - 1
  /\ Goto(t, "r_relock")
  /\ UNCHANGED <<data_lock, status, counts, waiting, writers_waiting_sem,
                 writer, wake, client>>

(* "if (readers_waiting) readers_waiting--" *)
ReadRelock(t) ==
  /\ pc[t] = "r_relock"
  /\ data_lock = NoThread
  /\ data_lock' = t
  /\ readers_waiting' = IF readers_waiting > 0 THEN readers_waiting - 1 ELSE 0
  /\ Goto(t, "r_check")
  /\ UNCHANGED <<status, counts, writers_waiting, sems, writer, wake, client>>

-----------------------------------------------------------------------------
(* write_lock() by a thread that does not own the write lock.  A program   *)
(* that holds a read lock does not ask for the write lock: sasmlock.h says *)
(* that it would hang.                                                     *)
WriteLock(t) ==
  /\ Call(t)
  /\ "write_lock" \in program[t]
  /\ held[t] = 0
  /\ writer_thread_id # t
  /\ data_lock' = t
  /\ Goto(t, "w_check")
  /\ UNCHANGED <<status, counts, waiting, sems, writer, wake, mode, held>>

(* Both loops of write_lock() sleep as a waiting writer. *)
WriterSleep(t, from, to) ==
  /\ pc[t] = from
  /\ writers_waiting' = writers_waiting + 1
  /\ data_lock' = NoThread
  /\ Goto(t, to)
  /\ UNCHANGED <<status, counts, readers_waiting, sems, writer, wake, client>>

WriterSemWait(t, from, to) ==
  /\ pc[t] = from
  /\ writers_waiting_sem > 0
  /\ writers_waiting_sem' = writers_waiting_sem - 1
  /\ Goto(t, to)
  /\ UNCHANGED <<data_lock, status, counts, waiting, readers_waiting_sem,
                 writer, wake, client>>

WriterRelock(t, from, to) ==
  /\ pc[t] = from
  /\ data_lock = NoThread
  /\ data_lock' = t
  /\ writers_waiting' = IF writers_waiting > 0 THEN writers_waiting - 1 ELSE 0
  /\ Goto(t, to)
  /\ UNCHANGED <<status, counts, readers_waiting, sems, writer, wake, client>>

(* The first loop: "wait until the other write lock is released". *)
Contended_Fault == FALSE
Contended == status = "exclusive"
ContendSleep(t) == Contended /\ WriterSleep(t, "w_check", "w_sem")
ContendSemWait(t) == WriterSemWait(t, "w_sem", "w_relock")
ContendRelock(t) == WriterRelock(t, "w_relock", "w_check")

(* Whom to wake, decided under data_lock and done after its release. *)
WhoWaits_Fault == [NoWake EXCEPT !.readers = readers_waiting > 0]
WhoWaits == [writers |-> writers_waiting > 0, readers |-> readers_waiting > 0, posts |-> 0]

(* "mark status so other threads can not acquire NEW read locks", and note *)
(* which threads to wake once data_lock is released.                       *)
Reserve(t) ==
  /\ pc[t] = "w_check"
  /\ ~ Contended
  /\ status' = "exclusive"
  /\ wake' = [wake EXCEPT ![t] = WhoWaits]
  /\ data_lock' = NoThread
  /\ Goto(t, "w_wake")
  /\ UNCHANGED <<counts, waiting, sems, writer, client>>

DrainLock(t) ==
  /\ pc[t] = "d_lock"
  /\ data_lock = NoThread
  /\ data_lock' = t
  /\ Goto(t, "d_check")
  /\ UNCHANGED <<status, counts, waiting, sems, writer, wake, client>>

(* The second loop: "while still being used by the readers". *)
MustDrain_Fault == FALSE
MustDrain == total_readers_count > 0
DrainSleep(t) == MustDrain /\ WriterSleep(t, "d_check", "d_sem")
DrainSemWait(t) == WriterSemWait(t, "d_sem", "d_relock")
DrainRelock(t) == WriterRelock(t, "d_relock", "d_check")

(* "no more readers, so we now have the write lock" *)
WriteGrant(t) ==
  /\ pc[t] = "d_check"
  /\ ~ MustDrain
  /\ writer_thread_id' = t
  /\ writer_thread_lock_count' = 1
  /\ data_lock' = NoThread
  /\ Goto(t, "idle")
  /\ Granted(t, "exclusive")
  /\ UNCHANGED <<status, counts, waiting, sems, wake>>

-----------------------------------------------------------------------------
(* unlock(), by a program that holds the lock: the code does not ask which *)
(* kind of lock, it goes by the readers' total and then by the status.     *)
Unlocking(t) ==
  /\ pc[t] = "idle"
  /\ held[t] > 0
  /\ data_lock = NoThread
  /\ held' = [held EXCEPT ![t] = @ - 1]
  /\ mode' = IF held[t] = 1 THEN [mode EXCEPT ![t] = "none"] ELSE mode
  /\ UNCHANGED <<program, calls>>

UnlocksARead == total_readers_count > 0

WakeAfterRead_Fault == NoWake
WakeAfterRead == [NoWake EXCEPT !.writers = total_readers_count = 1 /\ writers_waiting > 0]

UnlockReader(t) ==
  /\ Unlocking(t)
  /\ UnlocksARead
  /\ total_readers_count' = total_readers_count - 1
  /\ readers' = IF readers[t] > 0 THEN [readers EXCEPT ![t] = @ - 1] ELSE readers
  /\ wake' = [wake EXCEPT ![t] = WakeAfterRead]
  /\ Goto(t, "u_wake")
  /\ UNCHANGED <<data_lock, status, waiting, sems, writer>>

(* One level of a write lock; "return" leaves the lock owned. *)
UnlockWriterLevel(t) ==
  /\ Unlocking(t)
  /\ ~ UnlocksARead
  /\ status = "exclusive"
  /\ writer_thread_lock_count # 1
  /\ writer_thread_lock_count' = writer_thread_lock_count - 1
  /\ UNCHANGED <<data_lock, status, counts, waiting, sems, writer_thread_id, pc, wake>>

UnlockWriter(t) ==
  /\ Unlocking(t)
  /\ ~ UnlocksARead
  /\ status = "exclusive"
  /\ writer_thread_lock_count = 1
  /\ writer_thread_lock_count' = 0
  /\ writer_thread_id' = NoThread
  /\ status' = "not_exclusive"
  /\ wake' = [wake EXCEPT ![t] = WhoWaits]
  /\ Goto(t, "u_wake")
  /\ UNCHANGED <<data_lock, counts, waiting, sems>>

-----------------------------------------------------------------------------
(* thread_wakeup(), called without data_lock by write_lock() and unlock(). *)
Waking(t) == pc[t] \in {"w_wake", "u_wake"}

WakeOneWriter(t) ==
  /\ Waking(t)
  /\ wake[t].writers
  /\ writers_waiting_sem' = writers_waiting_sem + 1
  /\ wake' = [wake EXCEPT ![t].writers = FALSE]
  /\ UNCHANGED <<data_lock, status, counts, waiting, readers_waiting_sem,
                 writer, pc, client>>

(* WAKE_ALL reads the number of waiting readers, with no lock held. *)
CountWaitingReaders(t) ==
  /\ Waking(t)
  /\ ~ wake[t].writers
  /\ wake[t].readers
  /\ wake' = [wake EXCEPT ![t] = [NoWake EXCEPT !.posts = readers_waiting]]
  /\ UNCHANGED <<data_lock, status, counts, waiting, sems, writer, pc, client>>

PostReader(t) ==
  /\ Waking(t)
  /\ wake[t].posts > 0
  /\ readers_waiting_sem' = readers_waiting_sem + 1
  /\ wake' = [wake EXCEPT ![t].posts = @ - 1]
  /\ UNCHANGED <<data_lock, status, counts, waiting, writers_waiting_sem,
                 writer, pc, client>>

WakeDone(t) ==
  /\ Waking(t)
  /\ wake[t] = NoWake
  /\ Goto(t, IF pc[t] = "w_wake" THEN "d_lock" ELSE "idle")
  /\ UNCHANGED <<data_lock, status, counts, waiting, sems, writer, wake, client>>

-----------------------------------------------------------------------------
NewCall(t) == ReLockByWriter(t) \/ ReLockByReader(t) \/ ReadLock(t) \/ WriteLock(t)

InRead(t) ==
  ReadSleep(t) \/ ReadGrant(t) \/ ReadTableFull(t) \/ ReadSemWait(t) \/ ReadRelock(t)

InWrite(t) ==
  \/ ContendSleep(t) \/ ContendSemWait(t) \/ ContendRelock(t) \/ Reserve(t)
  \/ DrainLock(t) \/ DrainSleep(t) \/ DrainSemWait(t) \/ DrainRelock(t) \/ WriteGrant(t)

Unlock(t) == UnlockReader(t) \/ UnlockWriterLevel(t) \/ UnlockWriter(t)

InWakeup(t) ==
  WakeOneWriter(t) \/ CountWaitingReaders(t) \/ PostReader(t) \/ WakeDone(t)

Next ==
  \E t \in Thread :
    NewCall(t) \/ InRead(t) \/ InWrite(t) \/ Unlock(t) \/ InWakeup(t)

Spec == Init /\ [][Next]_vars

(* Every thread keeps running and a program releases what it holds; it is  *)
(* free to make no further call.  Weak fairness is enough to be fair to a  *)
(* thread that spins: the calls are bounded, so the others leave.          *)
FairSpec ==
  /\ Spec
  /\ \A t \in Thread : WF_vars(InRead(t) \/ InWrite(t) \/ Unlock(t) \/ InWakeup(t))

-----------------------------------------------------------------------------
(* MutualExclusion: when a thread's write_lock() has returned and it has   *)
(* not released it, no other thread is between a lock call that returned   *)
(* and its unlock ("shared read lock, and exclusive write lock",           *)
(* sasulock.h).                                                            *)
MutualExclusion ==
  \A t, u \in Thread : t # u /\ mode[t] = "exclusive" => mode[u] = "none"

(* Bookkeeping: the lock's own records are what the programs hold, so that *)
(* unlock(), which goes by the records alone, releases the caller's lock.  *)
Bookkeeping ==
  \A t \in Thread :
    /\ readers[t] = IF mode[t] = "shared" THEN held[t] ELSE 0
    /\ mode[t] = "exclusive" <=> writer_thread_id = t
    /\ writer_thread_id = t => writer_thread_lock_count = held[t]
    /\ mode[t] = "none" <=> held[t] = 0

(* A thread that sleeps on a semaphore at which no post is left for it. *)
Asleep(t) ==
  \/ pc[t] = "r_sem" /\ readers_waiting_sem = 0
  \/ pc[t] \in {"w_sem", "d_sem"} /\ writers_waiting_sem = 0

(* Nobody is left to wake anybody: each thread is asleep, or is outside of *)
(* the lock's code and holds no lock.                                      *)
AtRest == \A t \in Thread : Asleep(t) \/ (pc[t] = "idle" /\ held[t] = 0)

(* OnlyRivalsSleepOn: whatever calls the threads make, one can be left     *)
(* asleep by the last unlock() in one way only: there are two writers on   *)
(* the one semaphore of the writers, one waiting for the readers to be     *)
(* gone and one for the lock to be free, and a post has gone to the other. *)
(* The counts, which thread_wakeup() reads without data_lock and the       *)
(* semaphores outrun, lose no wakeup by themselves.                        *)
OnlyRivalsSleepOn ==
  AtRest /\ (\E t \in Thread : Asleep(t))
    => \E t, u \in Thread : pc[t] = "d_sem" /\ pc[u] = "w_sem"

(* The uses of the lock in which each wakeup reaches the one it is for: a  *)
(* thread reads or writes and not both, the table has a slot for each      *)
(* reader, and among readers there is at most one writer. Beyond these a   *)
(* reader that finds the table full leaves data_lock taken, and of two     *)
(* writers that sleep on the one semaphore, one until the readers are done *)
(* and one until the lock is free, the wrong one may be woken.             *)
Calling(c) == {t \in Thread : c \in program[t]}

WakeupsSuffice ==
  /\ Calling("read_lock") \cap Calling("write_lock") = {}
  /\ Cardinality(Calling("read_lock")) <= MaxReaderThreads
  /\ Calling("read_lock") # {} => Cardinality(Calling("write_lock")) <= 1

(* EveryCallReturns: in such a use a thread that called read_lock() or     *)
(* write_lock() has it granted, provided the holders unlock.               *)
EveryCallReturns ==
  WakeupsSuffice => \A t \in Thread : pc[t] # "idle" ~> pc[t] = "idle"

-----------------------------------------------------------------------------
(* The read locks that a reader table r stands for, one pair for each. *)
ReadGrants(r) == UNION {{t} \X (1..r[t]) : t \in Thread}

(* The writer the status stands for: the one that owns the lock, or the    *)
(* one that has marked it and waits for the readers.                       *)
Chosen(t) == pc[t] \in DrainPc \/ writer_thread_id = t

SpinInv == \A t \in Thread : pc[t] \in SpinPc <=> data_lock = t

ChosenInv ==
  /\ status = "exclusive" <=> \E t \in Thread : Chosen(t)
  /\ \A t, u \in Thread : Chosen(t) /\ Chosen(u) => t = u

WaitingInv == \A t \in Thread : pc[t] \notin {"idle", "u_wake"} => mode[t] = "none"

CountInv ==
  /\ IsFiniteSet(ReadGrants(readers))
  /\ Cardinality(ReadGrants(readers)) = total_readers_count
  /\ writer_thread_id # NoThread => total_readers_count = 0

(* LockInv: why the code is right.  The spin lock is held exactly at the   *)
(* places under it; "exclusive" stands for one writer and no other; a      *)
(* thread waiting for a lock holds none; the total is the sum of the       *)
(* table, which unlock() relies on to tell a reader from a writer.         *)
LockInv == TypeOK /\ SpinInv /\ ChosenInv /\ WaitingInv /\ Bookkeeping /\ CountInv

(* The threads that readers_waiting and writers_waiting count, and those   *)
(* that a post to the readers' semaphore is for.                           *)
At(places) == {t \in Thread : pc[t] \in places}
WaitingReaders == At({"r_sem", "r_relock"})
WaitingWriters == At({"w_sem", "w_relock", "d_sem", "d_relock"})
Sleepers == At({"r_sem"})

(* A post to the writers' semaphore is there or on its way. *)
WriterPosted == writers_waiting_sem > 0 \/ \E u \in Thread : wake[u].writers

(* The readers' posts, there or on their way, are enough: the wakeup that  *)
(* counted the waiting readers last makes one for each of them.            *)
ReadersPosted ==
  \/ Cardinality(Sleepers) <= readers_waiting_sem
  \/ \E u \in Thread :
       wake[u].readers \/ Cardinality(Sleepers) <= readers_waiting_sem + wake[u].posts

CountsOfWaiting ==
  /\ readers_waiting = Cardinality(WaitingReaders)
  /\ writers_waiting = Cardinality(WaitingWriters)
  /\ \A t \in Thread : ~ Waking(t) => wake[t] = NoWake

DrainerIsWoken ==
  At({"d_sem"}) # {} /\ total_readers_count = 0 => WriterPosted \/ At(ContendPc) # {}

ContenderIsWoken ==
  At({"w_sem"}) # {} /\ status = "not_exclusive"
    => WriterPosted \/ At({"w_relock", "w_check"}) # {}

ReadersAreWoken == status = "not_exclusive" /\ At(ContendPc) = {} => ReadersPosted

(* WakeInv: why only rivals sleep on. Each reason to sleep ends in a step  *)
(* that leaves a post for the sleepers, or passes the duty on to a writer  *)
(* that will come by.                                                      *)
WakeInv == CountsOfWaiting /\ DrainerIsWoken /\ ContenderIsWoken /\ ReadersAreWoken

(* The lock implements RWLock under this mapping: a step that grants or    *)
(* releases is one of its steps, every other step changes nothing there.   *)
Abstract == INSTANCE RWLock WITH
  owner <- writer_thread_id, depth <- writer_thread_lock_count, shared <- readers

ImplementsRWLock == Abstract!Spec
=============================================================================

------------------------- MODULE SasUserLockProofs -------------------------
(* Proofs about one SasUserLock, for any set of threads, any size of the   *)
(* reader table and any number of calls.                                   *)
EXTENDS SasUserLock, FiniteSetTheorems, TLAPS

-----------------------------------------------------------------------------
(* The pairs of a reader table: thread t has readers[t] of them, and the   *)
(* total is how many there are.                                            *)
LEMMA GrantsMembers ==
  ASSUME NEW r \in [Thread -> Nat]
  PROVE  \A g : g \in ReadGrants(r) <=> \E t \in Thread : \E i \in 1..r[t] : g = <<t, i>>
BY DEF ReadGrants

(* The entry of t goes up by one: one pair more. *)
LEMMA GrantsUp ==
  ASSUME NEW r \in [Thread -> Nat], NEW s \in [Thread -> Nat], NEW t \in Thread,
         \A u \in Thread : s[u] = IF u = t THEN r[t] + 1 ELSE r[u],
         IsFiniteSet(ReadGrants(r))
  PROVE  IsFiniteSet(ReadGrants(s)) /\ Cardinality(ReadGrants(s)) = Cardinality(ReadGrants(r)) + 1
<1> DEFINE g == <<t, r[t] + 1>>
<1>1. g \notin ReadGrants(r)
  BY GrantsMembers
<1>2. ReadGrants(s) = ReadGrants(r) \cup {g}
  <2>1. \A i : i \in 1..(r[t] + 1) <=> i \in 1..r[t] \/ i = r[t] + 1
    OBVIOUS
  <2>2. ASSUME NEW h \in ReadGrants(s) PROVE h \in ReadGrants(r) \cup {g}
    <3>1. PICK u \in Thread, i \in Nat : i \in 1..s[u] /\ h = <<u, i>>
      BY GrantsMembers
    <3> QED BY <3>1, <2>1, GrantsMembers
  <2>3. ASSUME NEW h \in ReadGrants(r) PROVE h \in ReadGrants(s)
    <3>1. PICK u \in Thread, i \in Nat : i \in 1..r[u] /\ h = <<u, i>>
      BY GrantsMembers
    <3> QED BY <3>1, <2>1, GrantsMembers
  <2>4. g \in ReadGrants(s)
    BY <2>1, GrantsMembers
  <2> QED BY <2>2, <2>3, <2>4
<1> HIDE DEF g
<1>3. /\ IsFiniteSet(ReadGrants(r) \cup {g}) /\ Cardinality(ReadGrants(r)) \in Nat
      /\ Cardinality(ReadGrants(r) \cup {g}) = Cardinality(ReadGrants(r)) + 1
  BY <1>1, FS_AddElement, FS_CardinalityType
<1> QED BY <1>2, <1>3

(* ... and down by one: one pair less. *)
LEMMA GrantsDown ==
  ASSUME NEW r \in [Thread -> Nat], NEW s \in [Thread -> Nat], NEW t \in Thread, r[t] > 0,
         \A u \in Thread : s[u] = IF u = t THEN r[t] - 1 ELSE r[u],
         IsFiniteSet(ReadGrants(r))
  PROVE  IsFiniteSet(ReadGrants(s)) /\ Cardinality(ReadGrants(s)) = Cardinality(ReadGrants(r)) - 1
<1> DEFINE g == <<t, r[t]>>
<1>1. g \in ReadGrants(r)
  BY GrantsMembers
<1>2. ReadGrants(s) = ReadGrants(r) \ {g}
  <2>1. \A i : i \in 1..(r[t] - 1) <=> i \in 1..r[t] /\ i # r[t]
    OBVIOUS
  <2>2. ASSUME NEW h \in ReadGrants(s) PROVE h \in ReadGrants(r) /\ h # g
    <3>1. PICK u \in Thread, i \in Nat : i \in 1..s[u] /\ h = <<u, i>>
      BY GrantsMembers
    <3> QED BY <3>1, <2>1, GrantsMembers
  <2>3. ASSUME NEW h \in ReadGrants(r), h # g PROVE h \in ReadGrants(s)
    <3>1. PICK u \in Thread, i \in Nat : i \in 1..r[u] /\ h = <<u, i>>
      BY GrantsMembers
    <3> QED BY <3>1, <2>1, GrantsMembers, <2>3
  <2> QED BY <2>2, <2>3
<1> HIDE DEF g
<1>3. /\ IsFiniteSet(ReadGrants(r) \ {g}) /\ Cardinality(ReadGrants(r)) \in Nat
      /\ Cardinality(ReadGrants(r) \ {g}) = Cardinality(ReadGrants(r)) - 1
  BY <1>1, FS_RemoveElement, FS_CardinalityType
<1> QED BY <1>2, <1>3

(* The total is 0 exactly when nobody is in the table. *)
LEMMA NoGrants ==
  ASSUME NEW r \in [Thread -> Nat], IsFiniteSet(ReadGrants(r))
  PROVE  Cardinality(ReadGrants(r)) = 0 <=> \A t \in Thread : r[t] = 0
<1>1. ReadGrants(r) = {} <=> \A t \in Thread : r[t] = 0
  <2>1. ASSUME NEW t \in Thread, r[t] # 0 PROVE <<t, 1>> \in ReadGrants(r)
    BY <2>1, GrantsMembers
  <2>2. ASSUME NEW h \in ReadGrants(r) PROVE \E t \in Thread : r[t] # 0
    BY GrantsMembers
  <2> QED BY <2>1, <2>2
<1> QED BY <1>1, FS_EmptySet

-----------------------------------------------------------------------------
(* LockInv is inductive: one lemma for each part of Next, one step for each of  *)
(* its actions.                                                            *)

(* A new SasUserLock: nobody holds it and the spin lock is free. *)
LEMMA InitHolds == Init => LockInv
<1> SUFFICES ASSUME Init PROVE LockInv
  OBVIOUS
<1> USE LockAssumption DEF Init
<1>1. TypeOK /\ SpinInv /\ ChosenInv /\ WaitingInv /\ Bookkeeping
  BY DEF TypeOK, SpinInv, ChosenInv, Chosen, WaitingInv, Bookkeeping,
         Status, Mode, PC, ReadPc, ContendPc, DrainPc, SpinPc, NoWake
<1>2. ReadGrants(readers) = {}
  BY DEF ReadGrants
<1>3. CountInv
  BY <1>2, FS_EmptySet DEF CountInv
<1>4. QED
  BY <1>1, <1>3 DEF LockInv

(* The total goes on being the sum of the table when both move by one. *)
LEMMA CountAfterGrant ==
  ASSUME CountInv, NEW t \in Thread, readers \in [Thread -> Nat],
         readers' \in [Thread -> Nat],
         \A u \in Thread : readers'[u] = IF u = t THEN readers[t] + 1 ELSE readers[u],
         total_readers_count' = total_readers_count + 1,
         writer_thread_id' = NoThread
  PROVE  CountInv'
<1>1. IsFiniteSet(ReadGrants(readers)) /\ Cardinality(ReadGrants(readers)) = total_readers_count
  BY DEF CountInv
<1>2. /\ IsFiniteSet(ReadGrants(readers'))
      /\ Cardinality(ReadGrants(readers')) = Cardinality(ReadGrants(readers)) + 1
  BY <1>1, GrantsUp
<1>3. QED
  BY <1>1, <1>2 DEF CountInv, ReadGrants

(* ... as it does when one read lock is released. *)
LEMMA CountAfterRelease ==
  ASSUME CountInv, NEW t \in Thread, readers \in [Thread -> Nat], readers[t] > 0,
         readers' \in [Thread -> Nat],
         \A u \in Thread : readers'[u] = IF u = t THEN readers[t] - 1 ELSE readers[u],
         total_readers_count' = total_readers_count - 1,
         writer_thread_id' = NoThread
  PROVE  CountInv'
<1>1. IsFiniteSet(ReadGrants(readers)) /\ Cardinality(ReadGrants(readers)) = total_readers_count
  BY DEF CountInv
<1>2. /\ IsFiniteSet(ReadGrants(readers'))
      /\ Cardinality(ReadGrants(readers')) = Cardinality(ReadGrants(readers)) - 1
  BY <1>1, GrantsDown
<1>3. QED
  BY <1>1, <1>2 DEF CountInv, ReadGrants

(* A new call counts one more lock of a thread that has it already, or     *)
(* takes the spin lock for a thread that has none.                         *)
LEMMA NewCallKeepsLockInv ==
  ASSUME LockInv, NEW t \in Thread, NewCall(t)
  PROVE  LockInv'
<1> USE LockAssumption DEF LockInv, TypeOK, SpinInv, ChosenInv, Chosen, WaitingInv, Bookkeeping,
           CountInv
<1> USE DEF Status, Mode, PC, ReadPc, ContendPc, DrainPc, SpinPc
<1> USE DEF counts, waiting, sems, writer, client, Goto, Call
<1>1. CASE ReLockByWriter(t)
  BY <1>1 DEF ReLockByWriter
<1>2. CASE ReLockByReader(t)
  <2>1. /\ readers \in [Thread -> Nat] /\ readers' \in [Thread -> Nat]
        /\ \A u \in Thread : readers'[u] = IF u = t THEN readers[t] + 1 ELSE readers[u]
        /\ total_readers_count' = total_readers_count + 1
        /\ writer_thread_id' = NoThread
    BY <1>2 DEF ReLockByReader
  <2>2. CountInv'
    BY <2>1, CountAfterGrant, SMTT(30)
  <2>3. (TypeOK /\ SpinInv /\ ChosenInv /\ WaitingInv /\ Bookkeeping)'
    BY <1>2 DEF ReLockByReader
  <2>4. QED
    BY <2>2, <2>3
<1>3. CASE ReadLock(t)
  <2>1. mode[t] = "none"
    BY <1>3, NoGrants DEF ReadLock
  <2>2. QED
    BY <1>3, <2>1 DEF ReadLock
<1>4. CASE WriteLock(t)
  BY <1>4 DEF WriteLock
<1>5. QED
  BY <1>1, <1>2, <1>3, <1>4 DEF NewCall

(* read_lock() past its first test: a grant makes no reader of a writer,   *)
(* since the lock is not exclusive.                                        *)
LEMMA InReadKeepsLockInv ==
  ASSUME LockInv, NEW t \in Thread, InRead(t)
  PROVE  LockInv'
<1> USE LockAssumption DEF LockInv, TypeOK, SpinInv, ChosenInv, Chosen, WaitingInv, Bookkeeping,
           CountInv
<1> USE DEF Status, Mode, PC, ReadPc, ContendPc, DrainPc, SpinPc
<1> USE DEF counts, waiting, sems, writer, client, Goto
<1>1. CASE ReadSleep(t)
  BY <1>1 DEF ReadSleep
<1>2. CASE ReadGrant(t)
  <2> USE <1>2 DEF ReadGrant, Granted, MustWaitToRead
  <2>1. readers[t] = 0 /\ writer_thread_id = NoThread
    OBVIOUS
  <2>2. /\ readers \in [Thread -> Nat] /\ readers' \in [Thread -> Nat]
        /\ \A u \in Thread : readers'[u] = IF u = t THEN readers[t] + 1 ELSE readers[u]
    BY <2>1
  <2>3. CountInv'
    BY <2>1, <2>2, CountAfterGrant
  <2>4. (TypeOK /\ SpinInv /\ ChosenInv /\ WaitingInv /\ Bookkeeping)'
    OBVIOUS
  <2>5. QED
    BY <2>3, <2>4
<1>3. CASE ReadTableFull(t)
  BY <1>3 DEF ReadTableFull
<1>4. CASE ReadSemWait(t)
  BY <1>4 DEF ReadSemWait
<1>5. CASE ReadRelock(t)
  BY <1>5 DEF ReadRelock
<1>6. QED
  BY <1>1, <1>2, <1>3, <1>4, <1>5 DEF InRead

(* write_lock() past its first test: only the one that set the status gets *)
(* to the second loop, and it owns the lock only when the readers are out. *)
LEMMA InWriteKeepsLockInv ==
  ASSUME LockInv, NEW t \in Thread, InWrite(t)
  PROVE  LockInv'
<1> USE LockAssumption DEF LockInv, TypeOK, SpinInv, ChosenInv, Chosen, WaitingInv, Bookkeeping,
           CountInv
<1> USE DEF Status, Mode, PC, ReadPc, ContendPc, DrainPc, SpinPc
<1> USE DEF counts, waiting, sems, writer, client, Goto, WriterSleep, WriterSemWait, WriterRelock
<1>1. CASE ContendSleep(t)
  BY <1>1 DEF ContendSleep, Contended
<1>2. CASE ContendSemWait(t)
  BY <1>2 DEF ContendSemWait
<1>3. CASE ContendRelock(t)
  BY <1>3 DEF ContendRelock
<1>4. CASE Reserve(t)
  BY <1>4 DEF Reserve, Contended, WhoWaits, NoWake
<1>5. CASE DrainLock(t)
  BY <1>5 DEF DrainLock
<1>6. CASE DrainSleep(t)
  BY <1>6 DEF DrainSleep, MustDrain
<1>7. CASE DrainSemWait(t)
  BY <1>7 DEF DrainSemWait
<1>8. CASE DrainRelock(t)
  BY <1>8 DEF DrainRelock
<1>9. CASE WriteGrant(t)
  BY <1>9 DEF WriteGrant, Granted, MustDrain
<1>10. QED
  BY <1>1, <1>2, <1>3, <1>4, <1>5, <1>6, <1>7, <1>8, <1>9 DEF InWrite

(* unlock() takes the reader's path exactly when its caller is a reader. *)
LEMMA UnlockKeepsLockInv ==
  ASSUME LockInv, NEW t \in Thread, Unlock(t)
  PROVE  LockInv'
<1> USE LockAssumption DEF LockInv, TypeOK, SpinInv, ChosenInv, Chosen, WaitingInv, Bookkeeping,
           CountInv
<1> USE DEF Status, Mode, PC, ReadPc, ContendPc, DrainPc, SpinPc
<1> USE DEF counts, waiting, sems, writer, client, Goto, Unlocking
<1>1. CASE UnlockReader(t)
  <2> USE <1>1 DEF UnlockReader, UnlocksARead, WakeAfterRead
  <2>1. writer_thread_id = NoThread /\ readers[t] = held[t]
    OBVIOUS
  <2>2. /\ readers \in [Thread -> Nat] /\ readers' \in [Thread -> Nat]
        /\ \A u \in Thread : readers'[u] = IF u = t THEN readers[t] - 1 ELSE readers[u]
    BY <2>1
  <2>3. CountInv'
    BY <2>1, <2>2, CountAfterRelease
  <2>4. wake' \in [Thread -> [writers : BOOLEAN, readers : BOOLEAN, posts : Nat]]
    BY DEF NoWake
  <2>5. TypeOK'
    BY <2>1, <2>2, <2>4
  <2>6. SpinInv' /\ ChosenInv' /\ WaitingInv'
    BY <2>1
  <2>7. Bookkeeping'
    BY <2>1, <2>2
  <2>8. QED
    BY <2>3, <2>5, <2>6, <2>7
<1>2. ASSUME total_readers_count = 0, status = "exclusive", pc[t] = "idle", held[t] > 0
      PROVE  mode[t] = "exclusive" /\ writer_thread_id = t
  BY <1>2, NoGrants
<1>3. CASE UnlockWriterLevel(t)
  BY <1>2, <1>3 DEF UnlockWriterLevel, UnlocksARead
<1>4. CASE UnlockWriter(t)
  <2> USE <1>4 DEF UnlockWriter, UnlocksARead, WhoWaits, NoWake
  <2>1. mode[t] = "exclusive" /\ writer_thread_id = t
    BY <1>2
  <2>2. TypeOK' /\ SpinInv' /\ WaitingInv' /\ CountInv'
    BY <2>1
  <2>3. ChosenInv'
    BY <2>1
  <2>4. Bookkeeping'
    BY <2>1
  <2>5. QED
    BY <2>2, <2>3, <2>4
<1>5. QED
  BY <1>1, <1>3, <1>4 DEF Unlock

(* thread_wakeup() changes the semaphores and nothing the lock relies on.  *)
LEMMA InWakeupKeepsLockInv ==
  ASSUME LockInv, NEW t \in Thread, InWakeup(t)
  PROVE  LockInv'
<1> USE LockAssumption DEF LockInv, TypeOK, SpinInv, ChosenInv, Chosen, WaitingInv, Bookkeeping,
           CountInv
<1> USE DEF Status, Mode, PC, ReadPc, ContendPc, DrainPc, SpinPc
<1> USE DEF counts, waiting, sems, writer, client, Goto, Waking, NoWake
<1>1. CASE WakeOneWriter(t)
  <2>1. wake' \in [Thread -> [writers : BOOLEAN, readers : BOOLEAN, posts : Nat]]
    BY <1>1, wake[t] \in [writers : BOOLEAN, readers : BOOLEAN, posts : Nat] DEF WakeOneWriter
  <2>2. QED
    BY <1>1, <2>1 DEF WakeOneWriter
<1>2. CASE CountWaitingReaders(t)
  <2>1. wake' \in [Thread -> [writers : BOOLEAN, readers : BOOLEAN, posts : Nat]]
    BY <1>2 DEF CountWaitingReaders
  <2>2. QED
    BY <1>2, <2>1 DEF CountWaitingReaders
<1>3. CASE PostReader(t)
  BY <1>3 DEF PostReader
<1>4. CASE WakeDone(t)
  BY <1>4 DEF WakeDone
<1>5. QED
  BY <1>1, <1>2, <1>3, <1>4 DEF InWakeup

(* Every step, and a step that changes nothing, keeps the invariant. *)
LEMMA NextKeepsLockInv == LockInv /\ [Next]_vars => LockInv'
<1> SUFFICES ASSUME LockInv, [Next]_vars PROVE LockInv'
  OBVIOUS
<1>1. CASE UNCHANGED vars
  BY <1>1 DEF LockInv, TypeOK, SpinInv, ChosenInv, Chosen, WaitingInv, Bookkeeping,
           CountInv,
         vars, counts, waiting, sems, writer, client
<1>2. CASE Next
  BY <1>2, NewCallKeepsLockInv, InReadKeepsLockInv, InWriteKeepsLockInv,
     UnlockKeepsLockInv, InWakeupKeepsLockInv DEF Next
<1>3. QED
  BY <1>1, <1>2

-----------------------------------------------------------------------------
(* LockInv holds in every state, however the sections of the code under    *)
(* data_lock, the sleeps and the wakeups of any number of threads follow   *)
(* one another: it is inductive, so the theorems below rest on it alone.   *)
THEOREM LockInvariance == Spec => []LockInv
<1>1. QED
  BY InitHolds, NextKeepsLockInv, PTL DEF Spec

(* The fields keep their types; the counts never go below zero. *)
THEOREM TypeCorrect == Spec => []TypeOK
<1>1. LockInv => TypeOK
  BY DEF LockInv
<1>2. QED
  BY <1>1, LockInvariance, PTL

(* While a program holds the write lock no other program holds any lock,   *)
(* whatever the interleaving of the calls, the sleeps and the wakeups.     *)
THEOREM Exclusion == Spec => []MutualExclusion
<1>1. LockInv => MutualExclusion
  <2>1. SUFFICES ASSUME LockInv, NEW t \in Thread, NEW u \in Thread, t # u,
                        mode[t] = "exclusive"
                 PROVE  mode[u] = "none"
    BY DEF MutualExclusion
  <2>2. writer_thread_id = t /\ total_readers_count = 0
    BY <2>1, LockAssumption DEF LockInv, Bookkeeping, CountInv
  <2>3. readers[u] = 0
    <3>1. readers \in [Thread -> Nat] /\ IsFiniteSet(ReadGrants(readers))
          /\ Cardinality(ReadGrants(readers)) = 0
      BY <2>1, <2>2 DEF LockInv, TypeOK, CountInv
    <3>2. QED
      BY <3>1, NoGrants
  <2>4. QED
    BY <2>1, <2>2, <2>3 DEF LockInv, TypeOK, Bookkeeping, Mode
<1>2. QED
  BY <1>1, LockInvariance, PTL

(* unlock() releases the lock its caller holds: the lock's records agree   *)
(* with what the programs were granted.                                    *)
THEOREM RecordsAgree == Spec => []Bookkeeping
<1>1. LockInv => Bookkeeping
  BY DEF LockInv
<1>2. QED
  BY <1>1, LockInvariance, PTL

(* Only seven actions touch the records of who holds the lock. *)
LEMMA SeenSteps ==
  ASSUME [Next]_vars
  PROVE  \/ UNCHANGED <<writer, readers>>
         \/ \E t \in Thread :
              \/ ReLockByWriter(t) \/ ReLockByReader(t) \/ ReadGrant(t) \/ WriteGrant(t)
              \/ UnlockReader(t) \/ UnlockWriterLevel(t) \/ UnlockWriter(t)
<1> USE DEF writer, counts
<1>1. CASE UNCHANGED vars
  BY <1>1 DEF vars
<1>2. ASSUME NEW t \in Thread, NewCall(t)
      PROVE  UNCHANGED <<writer, readers>> \/ ReLockByWriter(t) \/ ReLockByReader(t)
  BY <1>2 DEF NewCall, ReadLock, WriteLock
<1>3. ASSUME NEW t \in Thread, InRead(t)
      PROVE  UNCHANGED <<writer, readers>> \/ ReadGrant(t)
  BY <1>3 DEF InRead, ReadSleep, ReadTableFull, ReadSemWait, ReadRelock
<1>4. ASSUME NEW t \in Thread, InWrite(t)
      PROVE  UNCHANGED <<writer, readers>> \/ WriteGrant(t)
  BY <1>4 DEF InWrite, ContendSleep, ContendSemWait, ContendRelock, Reserve, DrainLock,
     DrainSleep, DrainSemWait, DrainRelock, WriterSleep, WriterSemWait, WriterRelock
<1>5. ASSUME NEW t \in Thread, InWakeup(t)
      PROVE  UNCHANGED <<writer, readers>>
  BY <1>5 DEF InWakeup, WakeOneWriter, CountWaitingReaders, PostReader, WakeDone
<1>6. QED
  BY <1>1, <1>2, <1>3, <1>4, <1>5 DEF Next, Unlock

-----------------------------------------------------------------------------
(* WakeInv is inductive beside LockInv. First, how the sets of threads at   *)
(* some places change when one thread goes from one place to another.      *)
LEMMA AtAfterGoto ==
  ASSUME pc \in [Thread -> PC], NEW t \in Thread, NEW l \in PC, Goto(t, l), NEW P
  PROVE  /\ Cardinality(At(P)) \in Nat
         /\ (l \in P <=> pc[t] \in P) => At(P)' = At(P)
         /\ l \in P /\ pc[t] \notin P => Cardinality(At(P)') = Cardinality(At(P)) + 1
         /\ l \notin P /\ pc[t] \in P =>
              Cardinality(At(P)') = Cardinality(At(P)) - 1 /\ Cardinality(At(P)) > 0
<1> USE DEF At, Goto
<1>1. IsFiniteSet(At(P)) /\ Cardinality(At(P)) \in Nat
  BY LockAssumption, FS_Subset, FS_CardinalityType
<1>2. ASSUME l \in P <=> pc[t] \in P PROVE At(P)' = At(P)
  BY <1>2
<1>3. ASSUME l \in P, pc[t] \notin P PROVE Cardinality(At(P)') = Cardinality(At(P)) + 1
  <2>1. At(P)' = At(P) \cup {t} /\ t \notin At(P)
    BY <1>3
  <2>2. QED
    BY <1>1, <2>1, FS_AddElement
<1>4. ASSUME l \notin P, pc[t] \in P
      PROVE  Cardinality(At(P)') = Cardinality(At(P)) - 1 /\ Cardinality(At(P)) > 0
  <2>1. At(P)' = At(P) \ {t} /\ t \in At(P)
    BY <1>4
  <2>2. Cardinality(At(P)) # 0
    BY <1>1, <2>1, FS_EmptySet
  <2>3. Cardinality(At(P) \ {t}) = Cardinality(At(P)) - 1
    BY <1>1, <2>1, FS_RemoveElement
  <2>4. QED
    BY <1>1, <2>1, <2>2, <2>3
<1>5. QED
  BY <1>1, <1>2, <1>3, <1>4

(* A set with a member has a cardinality above zero. *)
LEMMA SomebodyWaits ==
  ASSUME NEW P, NEW t \in Thread, pc[t] \in P
  PROVE  Cardinality(At(P)) \in Nat \ {0}
<1>1. IsFiniteSet(At(P)) /\ t \in At(P)
  BY LockAssumption, FS_Subset DEF At
<1>2. QED
  BY <1>1, FS_CardinalityType, FS_EmptySet

(* Fewer threads sleep than readers_waiting counts, which counts also the  *)
(* woken ones that have not come to lower it.                              *)
LEMMA SleepersCounted ==
  /\ Cardinality(Sleepers) \in Nat /\ Cardinality(WaitingReaders) \in Nat
  /\ Cardinality(Sleepers) <= Cardinality(WaitingReaders)
<1>1. IsFiniteSet(WaitingReaders) /\ Sleepers \subseteq WaitingReaders
  BY LockAssumption, FS_Subset DEF WaitingReaders, Sleepers, At
<1>2. QED
  BY <1>1, FS_Subset, FS_CardinalityType

(* What a new SasUserLock starts with. *)
LEMMA InitWakes == Init => WakeInv
<1> SUFFICES ASSUME Init PROVE WakeInv
  OBVIOUS
<1>1. /\ WaitingReaders = {} /\ WaitingWriters = {} /\ Sleepers = {}
      /\ At({"d_sem"}) = {} /\ At({"w_sem"}) = {}
  BY DEF Init, WaitingReaders, WaitingWriters, Sleepers, At
<1>2. Cardinality(Sleepers) = 0 /\ readers_waiting_sem \in Nat \ {0}
  BY <1>1, FS_EmptySet, LockAssumption DEF Init
<1>3. CountsOfWaiting
  BY <1>1, FS_EmptySet DEF Init, CountsOfWaiting, NoWake
<1>4. QED
  BY <1>1, <1>2, <1>3 DEF WakeInv, DrainerIsWoken, ContenderIsWoken, ReadersAreWoken,
     ReadersPosted

(* A step that neither begins nor ends a wait leaves the counts alone. *)
LEMMA CountsStay ==
  ASSUME CountsOfWaiting, pc \in [Thread -> PC], NEW t \in Thread, NEW l \in PC, Goto(t, l),
         UNCHANGED waiting,
         l \in {"r_sem", "r_relock"} <=> pc[t] \in {"r_sem", "r_relock"},
         l \in {"w_sem", "w_relock", "d_sem", "d_relock"}
           <=> pc[t] \in {"w_sem", "w_relock", "d_sem", "d_relock"},
         \A u \in Thread : ~ Waking(u)' => wake'[u] = NoWake
  PROVE  CountsOfWaiting'
<1>1. WaitingReaders' = WaitingReaders /\ WaitingWriters' = WaitingWriters
  BY AtAfterGoto DEF WaitingReaders, WaitingWriters
<1>2. QED
  BY <1>1 DEF CountsOfWaiting, waiting

(* readers_waiting and writers_waiting go up by one when a thread comes to *)
(* its sem_wait(), and down by one when it has data_lock again.            *)
LEMMA CountsKept ==
  ASSUME LockInv, CountsOfWaiting, [Next]_vars
  PROVE  CountsOfWaiting'
<1> USE DEF LockInv, TypeOK, PC, ReadPc, ContendPc, DrainPc
<1>1. CASE UNCHANGED <<pc, waiting, wake>>
  BY <1>1 DEF CountsOfWaiting, WaitingReaders, WaitingWriters, At, Waking, waiting
<1>2. ASSUME NEW t \in Thread, InWakeup(t) PROVE CountsOfWaiting'
  <2>1. CASE WakeDone(t)
    <3>1. \A u \in Thread : ~ Waking(u)' => wake'[u] = NoWake
      BY <2>1 DEF WakeDone, Waking, CountsOfWaiting, Goto
    <3>2. QED
      BY <2>1, <3>1, CountsStay DEF WakeDone, Waking
  <2>2. CASE WakeOneWriter(t) \/ CountWaitingReaders(t) \/ PostReader(t)
    <3>1. /\ UNCHANGED <<pc, waiting>> /\ Waking(t)
          /\ \A u \in Thread : u # t => wake'[u] = wake[u]
      BY <2>2 DEF WakeOneWriter, CountWaitingReaders, PostReader, waiting
    <3>2. QED
      BY <3>1 DEF CountsOfWaiting, WaitingReaders, WaitingWriters, At, Waking, waiting
  <2>3. QED
    BY <1>2, <2>1, <2>2 DEF InWakeup
<1>3. ASSUME NEW t \in Thread, NEW l \in PC, Goto(t, l), UNCHANGED <<waiting, wake>>,
             wake[t] = NoWake,
             l \in {"r_sem", "r_relock"} <=> pc[t] \in {"r_sem", "r_relock"},
             l \in {"w_sem", "w_relock", "d_sem", "d_relock"}
               <=> pc[t] \in {"w_sem", "w_relock", "d_sem", "d_relock"}
      PROVE  CountsOfWaiting'
  <2>1. \A u \in Thread : ~ Waking(u)' => wake'[u] = NoWake
    BY <1>3 DEF CountsOfWaiting, Waking, Goto
  <2>2. QED
    BY <1>3, <2>1, CountsStay
<1>4. ASSUME NEW t \in Thread, NewCall(t) PROVE CountsOfWaiting'
  <2>1. CASE ReLockByWriter(t) \/ ReLockByReader(t)
    BY <1>1, <2>1 DEF ReLockByWriter, ReLockByReader
  <2>2. CASE ReadLock(t) \/ WriteLock(t)
    BY <1>3, <2>2 DEF ReadLock, WriteLock, Call, CountsOfWaiting, Waking
  <2>3. QED
    BY <1>4, <2>1, <2>2 DEF NewCall
<1>5. ASSUME NEW t \in Thread, InRead(t) PROVE CountsOfWaiting'
  <2>1. pc[t] \in ReadPc /\ wake[t] = NoWake
    BY <1>5 DEF InRead, ReadSleep, ReadGrant, ReadTableFull, ReadSemWait, ReadRelock,
       CountsOfWaiting, Waking
  <2>2. CASE ReadGrant(t) \/ ReadTableFull(t) \/ ReadSemWait(t)
    BY <1>3, <2>1, <2>2 DEF ReadGrant, ReadTableFull, ReadSemWait
  <2>3. CASE ReadSleep(t)
    <3>1. /\ Cardinality(WaitingReaders') = Cardinality(WaitingReaders) + 1
          /\ WaitingWriters' = WaitingWriters
      BY <2>3, AtAfterGoto DEF ReadSleep, WaitingReaders, WaitingWriters
    <3>2. QED
      BY <2>3, <3>1 DEF ReadSleep, CountsOfWaiting, Waking, Goto
  <2>4. CASE ReadRelock(t)
    <3>1. /\ Cardinality(WaitingReaders') = Cardinality(WaitingReaders) - 1
          /\ Cardinality(WaitingReaders) > 0
          /\ WaitingWriters' = WaitingWriters
      BY <2>4, AtAfterGoto DEF ReadRelock, WaitingReaders, WaitingWriters
    <3>2. QED
      BY <2>4, <3>1 DEF ReadRelock, CountsOfWaiting, Waking, Goto
  <2>5. QED
    BY <1>5, <2>2, <2>3, <2>4 DEF InRead
<1>6. ASSUME NEW t \in Thread, NEW l \in PC, Goto(t, l), UNCHANGED <<readers_waiting, wake>>,
             wake[t] = NoWake, pc[t] \in ContendPc \cup DrainPc, l # "r_sem", l # "r_relock",
             \/ /\ l \in {"w_sem", "d_sem"} /\ pc[t] \in {"w_check", "d_check"}
                /\ writers_waiting' = writers_waiting + 1
             \/ /\ l \in {"w_check", "d_check"} /\ pc[t] \in {"w_relock", "d_relock"}
                /\ writers_waiting' = IF writers_waiting > 0 THEN writers_waiting - 1 ELSE 0
      PROVE  CountsOfWaiting'
  <2>1. WaitingReaders' = WaitingReaders
    BY <1>6, AtAfterGoto DEF WaitingReaders
  <2>2. \/ /\ Cardinality(WaitingWriters') = Cardinality(WaitingWriters) + 1
           /\ writers_waiting' = writers_waiting + 1
        \/ /\ Cardinality(WaitingWriters') = Cardinality(WaitingWriters) - 1
           /\ Cardinality(WaitingWriters) > 0
           /\ writers_waiting' = IF writers_waiting > 0 THEN writers_waiting - 1 ELSE 0
    BY <1>6, AtAfterGoto DEF WaitingWriters
  <2>3. QED
    BY <1>6, <2>1, <2>2 DEF CountsOfWaiting, Waking, Goto
<1>7. ASSUME NEW t \in Thread, InWrite(t) PROVE CountsOfWaiting'
  <2> USE DEF WriterSleep, WriterSemWait, WriterRelock
  <2>1. CASE Reserve(t)
    <3>1. \A u \in Thread : ~ Waking(u)' => wake'[u] = NoWake
      BY <2>1 DEF Reserve, CountsOfWaiting, Waking, Goto
    <3>2. QED
      BY <2>1, <3>1, CountsStay DEF Reserve
  <2>2. CASE ContendSemWait(t) \/ DrainLock(t) \/ DrainSemWait(t) \/ WriteGrant(t)
    BY <1>3, <2>2 DEF ContendSemWait, DrainLock, DrainSemWait, WriteGrant, CountsOfWaiting, Waking
  <2>3. CASE ContendSleep(t) \/ DrainSleep(t)
    BY <1>6, <2>3 DEF ContendSleep, DrainSleep, CountsOfWaiting, Waking
  <2>4. CASE ContendRelock(t) \/ DrainRelock(t)
    BY <1>6, <2>4 DEF ContendRelock, DrainRelock, CountsOfWaiting, Waking
  <2>5. QED
    BY <1>7, <2>1, <2>2, <2>3, <2>4 DEF InWrite
<1>8. ASSUME NEW t \in Thread, Unlock(t) PROVE CountsOfWaiting'
  <2>1. CASE UnlockWriterLevel(t)
    BY <1>1, <2>1 DEF UnlockWriterLevel
  <2>2. CASE UnlockReader(t) \/ UnlockWriter(t)
    <3>1. Goto(t, "u_wake") /\ pc[t] = "idle" /\ UNCHANGED waiting
          /\ \A u \in Thread : u # t => wake'[u] = wake[u]
      BY <2>2 DEF UnlockReader, UnlockWriter, Unlocking
    <3>2. \A u \in Thread : ~ Waking(u)' => wake'[u] = NoWake
      BY <3>1 DEF CountsOfWaiting, Waking, Goto
    <3>3. QED
      BY <3>1, <3>2, CountsStay
  <2>3. QED
    BY <1>8, <2>1, <2>2 DEF Unlock
<1>9. QED
  BY <1>1, <1>2, <1>4, <1>5, <1>7, <1>8 DEF Next, vars

(* A writer past its mark stands for the status, and there is one.         *)
LEMMA OneDrainer ==
  ASSUME LockInv
  PROVE  /\ \A t \in Thread : pc[t] \in DrainPc => status = "exclusive"
         /\ \A t, u \in Thread : pc[t] \in DrainPc /\ pc[u] \in DrainPc => t = u
BY DEF LockInv, ChosenInv, Chosen

(* A post to the writers is used by a writer, and a wakeup that is due is  *)
(* performed before its thread goes on.                                    *)
LEMMA PostStays ==
  ASSUME LockInv, CountsOfWaiting, WriterPosted, [Next]_vars
  PROVE  \/ WriterPosted'
         \/ \E t \in Thread : ContendSemWait(t) \/ DrainSemWait(t)
<1> USE DEF LockInv, TypeOK, WriterPosted, CountsOfWaiting, Waking, NoWake
<1>1. CASE UNCHANGED <<writers_waiting_sem, wake>>
  BY <1>1
<1>2. ASSUME NEW t \in Thread, InWakeup(t) PROVE WriterPosted'
  <2>1. CASE WakeOneWriter(t)
    BY <2>1 DEF WakeOneWriter
  <2>2. CASE CountWaitingReaders(t) \/ PostReader(t) \/ WakeDone(t)
    BY <2>2 DEF CountWaitingReaders, PostReader, WakeDone, sems
  <2>3. QED
    BY <1>2, <2>1, <2>2 DEF InWakeup
<1>3. ASSUME NEW t \in Thread, Reserve(t) \/ Unlock(t) PROVE WriterPosted'
  <2>1. /\ UNCHANGED writers_waiting_sem /\ wake[t] = NoWake
        /\ \A u \in Thread : u # t => wake'[u] = wake[u]
    BY <1>3 DEF Reserve, Unlock, UnlockReader, UnlockWriterLevel, UnlockWriter, Unlocking, sems
  <2>2. QED
    BY <2>1
<1>4. ASSUME NEW t \in Thread, NewCall(t) \/ InRead(t)
      PROVE  UNCHANGED <<writers_waiting_sem, wake>>
  BY <1>4 DEF NewCall, ReLockByWriter, ReLockByReader, ReadLock, WriteLock, InRead, ReadSleep,
     ReadGrant, ReadTableFull, ReadSemWait, ReadRelock, sems
<1>5. ASSUME NEW t \in Thread, InWrite(t), ~ Reserve(t), ~ ContendSemWait(t), ~ DrainSemWait(t)
      PROVE  UNCHANGED <<writers_waiting_sem, wake>>
  BY <1>5 DEF InWrite, ContendSleep, ContendRelock, DrainLock, DrainSleep, DrainRelock,
     WriteGrant, WriterSleep, WriterRelock, sems
<1>6. QED
  BY <1>1, <1>2, <1>3, <1>4, <1>5 DEF Next, vars, sems

(* Of the steps only these move a thread out of, or to, a place of the     *)
(* first loop of write_lock(), or to the sleep of the second.              *)
LEMMA WriterMoves ==
  ASSUME LockInv, [Next]_vars, NEW u \in Thread, pc'[u] # pc[u],
         \/ pc[u] \in ContendPc
         \/ pc'[u] \in {"w_sem", "d_sem"}
  PROVE  ContendSleep(u) \/ ContendSemWait(u) \/ ContendRelock(u) \/ Reserve(u) \/ DrainSleep(u)
<1> USE DEF LockInv, TypeOK, PC, ContendPc, Goto
<1>1. pc' # pc
  OBVIOUS
<1>2. ASSUME NEW t \in Thread, t # u, NEW l, Goto(t, l) PROVE FALSE
  BY <1>2
<1>3. ASSUME NEW t \in Thread, NewCall(t) PROVE FALSE
  BY <1>1, <1>2, <1>3 DEF NewCall, ReLockByWriter, ReLockByReader, ReadLock, WriteLock, Call
<1>4. ASSUME NEW t \in Thread, InRead(t) PROVE FALSE
  BY <1>2, <1>4 DEF InRead, ReadSleep, ReadGrant, ReadTableFull, ReadSemWait, ReadRelock
<1>5. ASSUME NEW t \in Thread, Unlock(t) \/ InWakeup(t) PROVE FALSE
  BY <1>1, <1>2, <1>5 DEF Unlock, UnlockReader, UnlockWriterLevel, UnlockWriter, Unlocking,
     InWakeup, WakeOneWriter, CountWaitingReaders, PostReader, WakeDone, Waking
<1>6. ASSUME NEW t \in Thread, InWrite(t) PROVE t = u
  BY <1>2, <1>6 DEF InWrite, ContendSleep, ContendSemWait, ContendRelock, Reserve, DrainLock,
     DrainSleep, DrainSemWait, DrainRelock, WriteGrant, WriterSleep, WriterSemWait, WriterRelock
<1>7. CASE InWrite(u)
  BY <1>7 DEF InWrite, DrainLock, DrainSemWait, DrainRelock, WriteGrant, WriterSemWait, WriterRelock
<1>8. QED
  BY <1>1, <1>3, <1>4, <1>5, <1>6, <1>7 DEF Next, vars

(* Who changes the status, and who takes the last read lock away.          *)
LEMMA StatusMoves ==
  ASSUME LockInv, [Next]_vars
  PROVE  /\ status' # status => \E t \in Thread : Reserve(t) \/ UnlockWriter(t)
         /\ total_readers_count > 0 /\ total_readers_count' = 0
              => \E t \in Thread : UnlockReader(t)
<1> USE DEF LockInv, TypeOK, counts
<1>1. CASE UNCHANGED <<status, total_readers_count>>
  BY <1>1
<1>2. ASSUME NEW t \in Thread, NewCall(t) \/ InRead(t)
      PROVE  status' = status /\ total_readers_count' >= total_readers_count
  BY <1>2 DEF NewCall, ReLockByWriter, ReLockByReader, ReadLock, WriteLock, InRead, ReadSleep,
     ReadGrant, ReadTableFull, ReadSemWait, ReadRelock
<1>3. ASSUME NEW t \in Thread, InWrite(t), ~ Reserve(t)
      PROVE  UNCHANGED <<status, total_readers_count>>
  BY <1>3 DEF InWrite, ContendSleep, ContendSemWait, ContendRelock, DrainLock, DrainSleep,
     DrainSemWait, DrainRelock, WriteGrant, WriterSleep, WriterSemWait, WriterRelock
<1>4. ASSUME NEW t \in Thread, Reserve(t) PROVE total_readers_count' = total_readers_count
  BY <1>4 DEF Reserve
<1>5. ASSUME NEW t \in Thread, Unlock(t), ~ UnlockWriter(t) PROVE status' = status
  BY <1>5 DEF Unlock, UnlockReader, UnlockWriterLevel
<1>6. ASSUME NEW t \in Thread, Unlock(t), ~ UnlockReader(t)
      PROVE  total_readers_count' = total_readers_count
  BY <1>6 DEF Unlock, UnlockWriterLevel, UnlockWriter
<1>7. ASSUME NEW t \in Thread, InWakeup(t) PROVE UNCHANGED <<status, total_readers_count>>
  BY <1>7 DEF InWakeup, WakeOneWriter, CountWaitingReaders, PostReader, WakeDone
<1>8. QED
  BY <1>1, <1>2, <1>3, <1>4, <1>5, <1>6, <1>7 DEF Next, vars

(* The last reader's unlock() posts for the writer that waits for it; the  *)
(* post can only be lost to a writer that waits for the lock.              *)
LEMMA DrainerKept ==
  ASSUME LockInv, CountsOfWaiting, DrainerIsWoken, [Next]_vars
  PROVE  DrainerIsWoken'
<1>1. SUFFICES ASSUME NEW d \in Thread, pc'[d] = "d_sem", total_readers_count' = 0
               PROVE  WriterPosted' \/ \E c \in Thread : pc'[c] \in ContendPc
  BY DEF DrainerIsWoken, At
<1> USE DEF LockInv, TypeOK, DrainPc, ContendPc
<1>2. pc[d] = "d_sem"
  BY <1>1, WriterMoves DEF ContendSleep, ContendSemWait, ContendRelock, Reserve, DrainSleep,
     MustDrain, WriterSleep, WriterSemWait, WriterRelock, Goto, counts
<1>3. status = "exclusive"
  BY <1>2, OneDrainer
<1>4. CASE total_readers_count > 0
  <2>1. PICK t \in Thread : UnlockReader(t)
    BY <1>1, <1>4, StatusMoves
  <2>2. writers_waiting > 0
    <3>1. pc[d] \in {"w_sem", "w_relock", "d_sem", "d_relock"}
      BY <1>2
    <3>2. Cardinality(At({"w_sem", "w_relock", "d_sem", "d_relock"})) \in Nat \ {0}
      BY <3>1, SomebodyWaits
    <3>3. QED
      BY <3>2 DEF CountsOfWaiting, WaitingWriters
  <2>3. total_readers_count = 1
    BY <1>1, <2>1 DEF UnlockReader
  <2>4. QED
    BY <2>1, <2>2, <2>3 DEF UnlockReader, WakeAfterRead, NoWake, WriterPosted
<1>5. CASE total_readers_count = 0 /\ \E c \in Thread : pc[c] \in ContendPc
  BY <1>3, <1>5, WriterMoves DEF ContendSleep, ContendSemWait, ContendRelock, Reserve, DrainSleep,
     Contended, WriterSleep, WriterSemWait, WriterRelock, Goto
<1>6. CASE total_readers_count = 0 /\ WriterPosted
  <2>1. ASSUME NEW t \in Thread, ContendSemWait(t) PROVE pc'[t] \in ContendPc
    BY <2>1 DEF ContendSemWait, WriterSemWait, Goto
  <2>2. ASSUME NEW t \in Thread, DrainSemWait(t) PROVE FALSE
    BY <1>1, <1>2, <2>2, OneDrainer DEF DrainSemWait, WriterSemWait, Goto
  <2>3. QED
    BY <1>6, <2>1, <2>2, PostStays
<1>7. QED
  BY <1>2, <1>4, <1>5, <1>6 DEF DrainerIsWoken, At

(* The writer's unlock() posts for a writer that waits for the lock, and   *)
(* while nobody has marked it again the post goes to one of these.         *)
LEMMA ContenderKept ==
  ASSUME LockInv, CountsOfWaiting, ContenderIsWoken, [Next]_vars
  PROVE  ContenderIsWoken'
<1>1. SUFFICES ASSUME NEW d \in Thread, pc'[d] = "w_sem", status' = "not_exclusive"
               PROVE  WriterPosted' \/ \E c \in Thread : pc'[c] \in {"w_relock", "w_check"}
  BY DEF ContenderIsWoken, At
<1> USE DEF LockInv, TypeOK, DrainPc, ContendPc
<1>2. pc[d] = "w_sem"
  BY <1>1, WriterMoves DEF ContendSleep, ContendSemWait, ContendRelock, Reserve, DrainSleep,
     Contended, WriterSleep, WriterSemWait, WriterRelock, Goto
<1>3. CASE status # "not_exclusive"
  <2>1. PICK t \in Thread : UnlockWriter(t)
    BY <1>1, <1>3, StatusMoves DEF Reserve
  <2>2. writers_waiting > 0
    <3>1. pc[d] \in {"w_sem", "w_relock", "d_sem", "d_relock"}
      BY <1>2
    <3>2. Cardinality(At({"w_sem", "w_relock", "d_sem", "d_relock"})) \in Nat \ {0}
      BY <3>1, SomebodyWaits
    <3>3. QED
      BY <3>2 DEF CountsOfWaiting, WaitingWriters
  <2>3. QED
    BY <2>1, <2>2 DEF UnlockWriter, WhoWaits, WriterPosted
<1>4. CASE status = "not_exclusive" /\ \E c \in Thread : pc[c] \in {"w_relock", "w_check"}
  BY <1>1, <1>4, WriterMoves DEF ContendSleep, ContendSemWait, ContendRelock, Reserve, DrainSleep,
     Contended, WriterSleep, WriterSemWait, WriterRelock, Goto
<1>5. CASE status = "not_exclusive" /\ WriterPosted
  <2>1. ASSUME NEW t \in Thread, ContendSemWait(t) PROVE pc'[t] = "w_relock"
    BY <2>1 DEF ContendSemWait, WriterSemWait, Goto
  <2>2. ASSUME NEW t \in Thread, DrainSemWait(t) PROVE FALSE
    BY <1>5, <2>2, OneDrainer DEF DrainSemWait, WriterSemWait
  <2>3. QED
    BY <1>5, <2>1, <2>2, PostStays
<1>6. QED
  BY <1>2, <1>3, <1>4, <1>5 DEF ContenderIsWoken, At

(* While a post less for the readers is there for each one that is woken,  *)
(* the others go on having theirs.                                         *)
LEMMA ReadersPostedStays ==
  ASSUME LockInv, CountsOfWaiting, ReadersPosted, [Next]_vars
  PROVE  \/ ReadersPosted' \/ \E t \in Thread : ReadSleep(t)
<1> USE DEF LockInv, TypeOK, PC, ReadPc, ContendPc, DrainPc
<1>0. Cardinality(Sleepers) \in Nat
  BY SleepersCounted
<1>1. ASSUME Sleepers' = Sleepers, UNCHANGED <<readers_waiting_sem, wake>> PROVE ReadersPosted'
  BY <1>1 DEF ReadersPosted
<1>2. ASSUME NEW t \in Thread, NEW l \in PC, Goto(t, l), l # "r_sem", pc[t] # "r_sem"
      PROVE  Sleepers' = Sleepers
  BY <1>2, AtAfterGoto DEF Sleepers
<1>3. ASSUME UNCHANGED pc PROVE Sleepers' = Sleepers
  BY <1>3 DEF Sleepers, At
<1>4. ASSUME NEW t \in Thread, NewCall(t)
      PROVE  Sleepers' = Sleepers /\ UNCHANGED <<readers_waiting_sem, wake>>
  BY <1>2, <1>3, <1>4 DEF NewCall, ReLockByWriter, ReLockByReader, ReadLock, WriteLock, Call, sems
<1>5. ASSUME NEW t \in Thread, InRead(t), ~ ReadSleep(t) PROVE ReadersPosted'
  <2>1. CASE ReadSemWait(t)
    <3>1. Cardinality(Sleepers') = Cardinality(Sleepers) - 1
      BY <2>1, AtAfterGoto DEF ReadSemWait, Sleepers
    <3>2. QED
      BY <1>0, <2>1, <3>1 DEF ReadSemWait, ReadersPosted
  <2>2. CASE ReadGrant(t) \/ ReadTableFull(t) \/ ReadRelock(t)
    BY <1>1, <1>2, <2>2 DEF ReadGrant, ReadTableFull, ReadRelock, sems
  <2>3. QED
    BY <1>5, <2>1, <2>2 DEF InRead
<1>6. ASSUME NEW t \in Thread, InWrite(t), ~ Reserve(t) PROVE ReadersPosted'
  BY <1>1, <1>2, <1>6 DEF InWrite, ContendSleep, ContendSemWait, ContendRelock, DrainLock,
     DrainSleep, DrainSemWait, DrainRelock, WriteGrant, WriterSleep, WriterSemWait, WriterRelock, sems
<1>7. ASSUME NEW t \in Thread, Reserve(t) \/ Unlock(t) PROVE ReadersPosted'
  <2>1. UNCHANGED readers_waiting_sem /\ wake[t] = NoWake
        /\ \A u \in Thread : u # t => wake'[u] = wake[u]
    BY <1>7 DEF Reserve, Unlock, UnlockReader, UnlockWriterLevel, UnlockWriter, Unlocking, sems,
       CountsOfWaiting, Waking
  <2>2. Sleepers' = Sleepers
    BY <1>2, <1>3, <1>7 DEF Reserve, Unlock, UnlockReader, UnlockWriterLevel, UnlockWriter, Unlocking
  <2>3. QED
    BY <1>0, <2>1, <2>2 DEF ReadersPosted, NoWake
<1>8. ASSUME NEW t \in Thread, InWakeup(t) PROVE ReadersPosted'
  <2>1. Sleepers' = Sleepers
    BY <1>2, <1>3, <1>8 DEF InWakeup, WakeOneWriter, CountWaitingReaders, PostReader, WakeDone, Waking
  <2>2. CASE WakeOneWriter(t)
    BY <2>1, <2>2 DEF WakeOneWriter, ReadersPosted
  <2>3. CASE CountWaitingReaders(t)
    BY <2>1, <2>3, SleepersCounted DEF CountWaitingReaders, ReadersPosted, NoWake, CountsOfWaiting, sems
  <2>4. CASE PostReader(t)
    BY <1>0, <2>1, <2>4 DEF PostReader, ReadersPosted
  <2>5. CASE WakeDone(t)
    BY <1>1, <2>1, <2>5 DEF WakeDone, sems
  <2>6. QED
    BY <1>8, <2>2, <2>3, <2>4, <2>5 DEF InWakeup
<1>9. QED
  BY <1>1, <1>3, <1>4, <1>5, <1>6, <1>7, <1>8 DEF Next, vars, sems

(* The writer's unlock() makes a post for each waiting reader, unless it   *)
(* leaves the lock to another writer, whose unlock() will.                 *)
LEMMA ReadersKept ==
  ASSUME LockInv, CountsOfWaiting, ReadersAreWoken, [Next]_vars
  PROVE  ReadersAreWoken'
<1>1. SUFFICES ASSUME status' = "not_exclusive", \A c \in Thread : pc'[c] \notin ContendPc
               PROVE  ReadersPosted'
  BY DEF ReadersAreWoken, At
<1> USE DEF LockInv, TypeOK
<1>2. CASE status # "not_exclusive"
  <2>1. PICK t \in Thread : UnlockWriter(t)
    BY <1>1, <1>2, StatusMoves DEF Reserve
  <2>2. CASE readers_waiting > 0
    BY <2>1, <2>2 DEF UnlockWriter, WhoWaits, ReadersPosted
  <2>3. CASE readers_waiting = 0
    <3>1. Cardinality(Sleepers) = 0
      BY <2>3, SleepersCounted DEF CountsOfWaiting
    <3>2. Sleepers' = Sleepers
      BY <2>1, AtAfterGoto DEF UnlockWriter, Unlocking, Sleepers, PC
    <3>3. QED
      BY <2>1, <3>1, <3>2 DEF UnlockWriter, ReadersPosted, sems
  <2>4. QED
    BY <2>2, <2>3
<1>3. CASE status = "not_exclusive"
  <2>1. \A c \in Thread : pc[c] \notin ContendPc
    BY <1>1, <1>3, WriterMoves DEF ContendSleep, ContendSemWait, ContendRelock, Reserve, DrainSleep,
       WriterSleep, WriterSemWait, WriterRelock, Goto, ContendPc
  <2>2. writers_waiting = 0
    <3>1. WaitingWriters = {}
      BY <1>3, <2>1, OneDrainer DEF WaitingWriters, At, ContendPc, DrainPc
    <3>2. QED
      BY <3>1, FS_EmptySet DEF CountsOfWaiting
  <2>3. ASSUME NEW t \in Thread, ReadSleep(t) PROVE FALSE
    BY <1>3, <2>2, <2>3 DEF ReadSleep, MustWaitToRead
  <2>4. ReadersPosted
    BY <1>3, <2>1 DEF ReadersAreWoken, At
  <2>5. QED
    BY <2>3, <2>4, ReadersPostedStays
<1>4. QED
  BY <1>2, <1>3

(* WakeInv holds in every state, for any number of threads and calls.      *)
THEOREM WakeInvariance == Spec => []WakeInv
<1>1. LockInv /\ WakeInv /\ [Next]_vars => WakeInv'
  BY CountsKept, DrainerKept, ContenderKept, ReadersKept DEF WakeInv
<1>2. QED
  BY <1>1, InitWakes, LockInvariance, PTL DEF Spec

(* A thread is left asleep for good only where two writers wait on the one *)
(* semaphore for different things: no other order of calls, wakeups and    *)
(* counts read without data_lock loses a wakeup.                           *)
THEOREM OnlyRivalsSleepOnHolds == Spec => []OnlyRivalsSleepOn
<1>1. ASSUME LockInv, WakeInv, AtRest, NEW s \in Thread, Asleep(s)
      PROVE  \E t, u \in Thread : pc[t] = "d_sem" /\ pc[u] = "w_sem"
  <2> USE DEF LockInv, TypeOK
  <2>1. /\ \A t \in Thread : pc[t] \in {"idle", "r_sem", "w_sem", "d_sem"} /\ ~ Waking(t)
        /\ \A t \in Thread : pc[t] = "r_sem" => readers_waiting_sem = 0
        /\ \A t \in Thread : pc[t] \in {"w_sem", "d_sem"} => writers_waiting_sem = 0
    BY <1>1 DEF AtRest, Asleep, Waking
  <2>2. \A t \in Thread : wake[t] = NoWake
    BY <1>1, <2>1 DEF WakeInv, CountsOfWaiting
  <2>3. \A t \in Thread : mode[t] = "none"
    BY <1>1, <2>1 DEF AtRest, Asleep, WaitingInv, Bookkeeping
  <2>4. writer_thread_id = NoThread /\ \A t \in Thread : readers[t] = 0
    BY <1>1, <2>3 DEF Bookkeeping
  <2>5. total_readers_count = 0
    BY <1>1, <2>4, NoGrants DEF CountInv
  <2>6. status = "exclusive" => \E t \in Thread : pc[t] = "d_sem"
    BY <1>1, <2>1, <2>4, LockAssumption DEF ChosenInv, Chosen, DrainPc
  <2>7. ASSUME NEW t \in Thread, pc[t] = "d_sem" PROVE \E u \in Thread : pc[u] = "w_sem"
    BY <1>1, <2>1, <2>2, <2>5, <2>7 DEF WakeInv, DrainerIsWoken, WriterPosted, At, ContendPc, NoWake
  <2>8. ASSUME NEW u \in Thread, pc[u] = "w_sem" PROVE status = "exclusive"
    BY <1>1, <2>1, <2>2, <2>8 DEF WakeInv, ContenderIsWoken, WriterPosted, At, NoWake, Status
  <2>9. ASSUME NEW t \in Thread, pc[t] = "r_sem", status # "exclusive"
        PROVE  \E u \in Thread : pc[u] = "w_sem"
    <3>1. Cardinality(Sleepers) \in Nat \ {0} /\ readers_waiting_sem = 0
      BY <2>1, <2>9, SomebodyWaits DEF Sleepers
    <3>2. ~ ReadersPosted
      BY <2>2, <3>1 DEF ReadersPosted, NoWake
    <3>3. QED
      BY <1>1, <2>1, <2>9, <3>2 DEF WakeInv, ReadersAreWoken, At, ContendPc, Status
  <2>10. QED
    BY <1>1, <2>6, <2>7, <2>8, <2>9 DEF Asleep
<1>2. LockInv /\ WakeInv => OnlyRivalsSleepOn
  BY <1>1 DEF OnlyRivalsSleepOn
<1>3. QED
  BY <1>2, LockInvariance, WakeInvariance, PTL

-----------------------------------------------------------------------------
(* The refinement: one lemma for the steps that are seen in the abstract   *)
(* lock, the others leave the three variables of the mapping alone.        *)

LEMMA AbstractStep ==
  ASSUME LockInv, [Next]_vars
  PROVE  [Abstract!Next]_(Abstract!rwvars)
<1> USE DEF Abstract!rwvars, LockInv, TypeOK
<1>1. CASE UNCHANGED <<writer, readers>>
  BY <1>1 DEF writer
<1>2. ASSUME NEW t \in Thread, ReLockByWriter(t) PROVE Abstract!Reacquire(t)
  BY <1>2 DEF ReLockByWriter, Abstract!Reacquire, counts
<1>3. ASSUME NEW t \in Thread, ReLockByReader(t) PROVE Abstract!AcquireShared(t)
  BY <1>3 DEF ReLockByReader, Abstract!AcquireShared, CountInv, writer
<1>4. ASSUME NEW t \in Thread, ReadGrant(t) PROVE Abstract!AcquireShared(t)
  <2>1. readers[t] = 0 /\ writer_thread_id = NoThread
    BY <1>4 DEF ReadGrant, MustWaitToRead, ChosenInv, Chosen, WaitingInv, Bookkeeping, Mode
  <2>2. QED
    BY <1>4, <2>1 DEF ReadGrant, Abstract!AcquireShared, writer
<1>5. ASSUME NEW t \in Thread, WriteGrant(t) PROVE Abstract!AcquireExclusive(t)
  <2>1. writer_thread_id = NoThread
    BY <1>5 DEF WriteGrant, MustDrain, ChosenInv, Chosen, DrainPc, WaitingInv, Bookkeeping, Mode
  <2>2. \A u \in Thread : readers[u] = 0
    BY <1>5, NoGrants DEF WriteGrant, MustDrain, CountInv
  <2>3. QED
    BY <1>5, <2>1, <2>2 DEF WriteGrant, Abstract!AcquireExclusive, counts
<1>6. ASSUME NEW t \in Thread, UnlockReader(t) PROVE Abstract!ReleaseShared(t)
  <2>1. readers[t] > 0
    BY <1>6, LockAssumption DEF UnlockReader, UnlocksARead, Unlocking, CountInv, Bookkeeping, Mode
  <2>2. QED
    BY <1>6, <2>1 DEF UnlockReader, Abstract!ReleaseShared, writer
<1>7. ASSUME NEW t \in Thread, Unlocking(t), total_readers_count = 0
      PROVE  writer_thread_id = t
  BY <1>7, NoGrants DEF Unlocking, CountInv, Bookkeeping, Mode
<1>8. ASSUME NEW t \in Thread, UnlockWriterLevel(t) PROVE Abstract!ReleaseExclusive(t)
  BY <1>7, <1>8 DEF UnlockWriterLevel, UnlocksARead, Abstract!ReleaseExclusive, counts
<1>9. ASSUME NEW t \in Thread, UnlockWriter(t) PROVE Abstract!ReleaseExclusive(t)
  BY <1>7, <1>9 DEF UnlockWriter, UnlocksARead, Abstract!ReleaseExclusive, counts
<1>10. QED
  BY <1>1, <1>2, <1>3, <1>4, <1>5, <1>6, <1>8, <1>9, SeenSteps DEF Abstract!Next

(* One SasUserLock is a read/write lock: every behaviour of its code, seen *)
(* through the records of who holds it, is a behaviour of RWLock.          *)
THEOREM LockImplementsRWLock == Spec => ImplementsRWLock
<1>1. Init => Abstract!Init
  BY DEF Init, Abstract!Init
<1>2. QED
  BY <1>1, LockInvariance, AbstractStep, PTL DEF Spec, ImplementsRWLock, Abstract!Spec

=============================================================================

------------------------------- MODULE RWLock -------------------------------
(***************************************************************************)
(* What a SAS lock promises its callers (sasulock.h, the class comment;    *)
(* sasmlock.h, the NOTE of the USAGE section): any number of threads share *)
(* a read lock, one thread holds a write lock alone, and the holder of a   *)
(* write lock may take either kind again, releasing as often as it locked. *)
(* How a thread waits is not part of the promise.                          *)
(***************************************************************************)
EXTENDS Naturals

CONSTANTS
  Thread,       (* the threads of all the processes sharing the region     *)
  NoThread      (* no owner, the zero thread id of the code: not a Thread  *)

VARIABLES
  owner,        (* the thread holding the write lock, or NoThread          *)
  depth,        (* how many times the owner holds it                       *)
  shared        (* how many read locks each thread holds                   *)

rwvars == <<owner, depth, shared>>

Init ==
  /\ owner = NoThread
  /\ depth = 0
  /\ shared = [t \in Thread |-> 0]

(* A first or a further read lock; nobody else may own the lock. *)
AcquireShared(t) ==
  /\ owner = NoThread
  /\ shared' = [shared EXCEPT ![t] = @ + 1]
  /\ UNCHANGED <<owner, depth>>

(* The write lock is granted only when no thread holds any lock. *)
AcquireExclusive(t) ==
  /\ owner = NoThread
  /\ \A u \in Thread : shared[u] = 0
  /\ owner' = t
  /\ depth' = 1
  /\ UNCHANGED shared

(* A lock of either kind requested by the owner counts as one more level. *)
Reacquire(t) ==
  /\ owner = t
  /\ depth' = depth + 1
  /\ UNCHANGED <<owner, shared>>

ReleaseShared(t) ==
  /\ shared[t] > 0
  /\ shared' = [shared EXCEPT ![t] = @ - 1]
  /\ UNCHANGED <<owner, depth>>

ReleaseExclusive(t) ==
  /\ owner = t
  /\ depth' = depth - 1
  /\ owner' = IF depth = 1 THEN NoThread ELSE t
  /\ UNCHANGED shared

Next ==
  \E t \in Thread :
    \/ AcquireShared(t)
    \/ AcquireExclusive(t)
    \/ Reacquire(t)
    \/ ReleaseShared(t)
    \/ ReleaseExclusive(t)

Spec == Init /\ [][Next]_rwvars
=============================================================================

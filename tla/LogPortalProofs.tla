--------------------------- MODULE LogPortalProofs ---------------------------
(***************************************************************************)
(* Proofs about the logger, and about the portal, for any threads, loggers,*)
(* sizes, uses and lists.  The invariant of the portal rests on the        *)
(* logger's.  After the invariants of the two and the properties of their  *)
(* steps comes what their iterators return: first that the recursion of a  *)
(* read-out ends, then what a state needs to be read, then that every step *)
(* keeps it.                                                               *)
(***************************************************************************)
EXTENDS LogPortal, SequenceTheorems, FiniteSetTheorems, WellFoundedInduction, TLAPS

-----------------------------------------------------------------------------
(* The natural numbers are well founded, as a fact about sets: an induction *)
(* is a proof that the least counterexample does not exist.                 *)
LEMMA NaturalsWellFounded == IsWellFoundedOn({r \in Nat \X Nat : r[1] < r[2]}, Nat)
BY NatLessThanWellFounded DEF OpToRel

(* A set of natural numbers that is not empty has a least one. *)
LEMMA LeastNatural ==
  ASSUME NEW S \in SUBSET Nat, S # {}
  PROVE  \E n \in S : \A m \in S : n <= m
<1> DEFINE R == {r \in Nat \X Nat : r[1] < r[2]}
<1>1. \E x \in S : \A y \in S : ~ (<<y, x>> \in R)
  <2>1. IsWellFoundedOn(R, Nat)
    BY NaturalsWellFounded
  <2> HIDE DEF R
  <2> QED BY <2>1, WFMin
<1>2. PICK x \in S : \A y \in S : ~ (<<y, x>> \in R)
  BY <1>1
<1>3. \A y \in S : ~ (y < x)
  BY <1>2
<1> QED BY <1>3

-----------------------------------------------------------------------------
(* A function on 0..N that starts at c and goes from each value to the     *)
(* next by g: what a recursive definition on 0..N chooses exists.          *)
IsIterated(f, c, g, N) ==
  /\ f[0] = c
  /\ \A k \in 1..N : f[k] = g[k][f[k-1]]

LEMMA Iterated ==
  ASSUME NEW S, NEW c \in S, NEW g \in [Nat -> [S -> S]], NEW N \in Nat
  PROVE  \E f \in [0..N -> S] : IsIterated(f, c, g, N)
<1> DEFINE Has(n) == \E f \in [0..n -> S] : IsIterated(f, c, g, n)
           Without == {n \in Nat : ~ Has(n)}
<1>1. Has(0)
  <2>1. [k \in 0..0 |-> c] \in [0..0 -> S] /\ IsIterated([k \in 0..0 |-> c], c, g, 0)
    BY DEF IsIterated
  <2> QED BY <2>1
<1>2. ASSUME NEW n \in Nat, Has(n) PROVE Has(n + 1)
  <2>1. PICK f \in [0..n -> S] : IsIterated(f, c, g, n)
    BY <1>2
  <2> DEFINE h == [k \in 0..n+1 |-> IF k = n + 1 THEN g[n+1][f[n]] ELSE f[k]]
  <2>2. f[n] \in S /\ g[n+1] \in [S -> S]
    OBVIOUS
  <2>3. h \in [0..n+1 -> S]
    BY <2>2
  <2>4. IsIterated(h, c, g, n + 1)
    <3>1. h[0] = c
      BY <2>1 DEF IsIterated
    <3>2. ASSUME NEW k \in 1..n+1 PROVE h[k] = g[k][h[k-1]]
      <4>1. CASE k = n + 1
        BY <4>1
      <4>2. CASE k # n + 1
        <5>1. k \in 1..n /\ k - 1 # n + 1 /\ k - 1 \in 0..n+1 /\ k \in 0..n+1
          BY <4>2
        <5> QED BY <5>1, <2>1 DEF IsIterated
      <4> QED BY <4>1, <4>2
    <3> QED BY <3>1, <3>2 DEF IsIterated
  <2> QED BY <2>3, <2>4
<1> HIDE DEF Has
<1>3. Without = {}
  <2> SUFFICES ASSUME Without # {} PROVE FALSE
    OBVIOUS
  <2>1. PICK n \in Without : \A m \in Without : n <= m
    BY LeastNatural
  <2>2. n # 0 /\ n \in Nat /\ ~ Has(n)
    BY <1>1
  <2>3. n - 1 \in Nat /\ n - 1 \notin Without /\ n - 1 + 1 = n
    BY <2>1, <2>2
  <2> QED BY <2>2, <2>3, <1>2
<1> QED BY <1>3 DEF Has

-----------------------------------------------------------------------------
(* Multiples of a number: the quotient, and the gap between two of them.   *)
LEMMA MultipleOf ==
  ASSUME NEW a \in Nat, NEW n \in Nat, n > 0, a % n = 0
  PROVE  \E k \in Nat : a = n * k
<1>1. a = (n * (a \div n)) + (a % n) /\ a \div n \in Nat
  OBVIOUS
<1> QED BY <1>1

LEMMA MultipleGap ==
  ASSUME NEW a \in Nat, NEW b \in Nat, NEW n \in Nat, n > 0, a % n = 0, b % n = 0, a < b
  PROVE  a + n <= b
<1>1. ASSUME NEW k \in Nat, NEW j \in Nat, n * k < n * j
      PROVE  n * k + n <= n * j
  <2>1. k < j
    BY <1>1
  <2>2. j - k - 1 \in Nat
    BY <2>1
  <2>3. PICK d \in Nat : j = k + 1 + d
    BY <2>2
  <2>4. n * j = n * k + n + n * d
    BY <2>3
  <2>5. n * k \in Nat /\ n * j \in Nat /\ n * d \in Nat
    OBVIOUS
  <2> QED BY <2>4, <2>5
<1>2. PICK k \in Nat : a = n * k
  BY MultipleOf
<1>3. PICK j \in Nat : b = n * j
  BY MultipleOf
<1> QED BY <1>1, <1>2, <1>3

LEMMA MultipleNext ==
  ASSUME NEW a \in Nat, NEW n \in Nat, n > 0, a % n = 0
  PROVE  (a + n) % n = 0
<1>1. \A k \in Nat : (n * k) % n = 0
  OBVIOUS
<1>2. PICK k \in Nat : a = n * k
  BY MultipleOf
<1>3. a + n = n * (k + 1) /\ k + 1 \in Nat
  BY <1>2
<1>4. (n * (k + 1)) % n = 0
  BY <1>1, <1>3
<1> QED BY <1>3, <1>4

LEMMA MultipleZero ==
  ASSUME NEW n \in Nat, n > 0
  PROVE  0 % n = 0
OBVIOUS

-----------------------------------------------------------------------------
(* What a use of the logs is. *)
LEMMA UseFacts ==
  ASSUME TypeOK
  PROVE  /\ use.users \subseteq Thread
         /\ use.logs \subseteq Log
         /\ use.sizes \subseteq 1..Cap
         /\ use.circular \in BOOLEAN
         /\ use.circular => ~ use.resets /\ ~ use.raw /\ Cardinality(use.sizes) = 1
BY LogAssumption DEF TypeOK, UseType

(* Init establishes the invariant. *)
LEMMA InitInv == Init => LogInv
<1> SUFFICES ASSUME Init PROVE LogInv
  OBVIOUS
<1>1. TypeOK
  BY LogAssumption DEF Init, TypeOK, Zero, Unit
<1>2. EntriesDisjoint /\ OnePrimary /\ CallsInUse
  BY DEF Init, EntriesDisjoint, OnePrimary, CallsInUse
<1>3. QED
  BY <1>1, <1>2 DEF LogInv

(* What a fetch-and-add that fits gives: units of the buffer above all     *)
(* that were given out before.                                             *)
LEMMA GiveFacts ==
  ASSUME TypeOK, EntriesDisjoint, NEW t \in Thread, NEW l \in Log, NEW n \in 1..Cap,
         Fits(next_free[l], n), FetchAdd(l, n), Give(t, l, n)
  PROVE  /\ given' \in [Log -> SUBSET Entry]
         /\ lapped' \in [Log -> BOOLEAN]
         /\ pass' \in [Log -> Nat]
         /\ next_free[l] \in Unit
         /\ EntriesDisjoint'
<1> USE LogAssumption
<1> DEFINE e == [addr |-> next_free[l], len |-> n]
<1>1. next_free[l] \in Nat /\ next_free[l] + n <= Cap
  BY DEF TypeOK, Fits
<1>2. next_free[l] \in Unit /\ e \in Entry
  BY <1>1 DEF Unit, Entry
<1>3. given' = [given EXCEPT ![l] = @ \cup {e}] /\ pass' = pass
  BY DEF Give
<1>4. given' \in [Log -> SUBSET Entry]
  BY <1>2, <1>3 DEF TypeOK
<1>5. lapped' \in [Log -> BOOLEAN]
  <2>1. (lapped[l] \/ LapsOpenEntry(t, l, next_free[l], n)) \in BOOLEAN
    OBVIOUS
  <2>2. QED
    BY <2>1 DEF TypeOK, Give
<1>6. EntriesDisjoint'
  <2>1. next_free' = [next_free EXCEPT ![l] = @ + n]
    BY DEF FetchAdd
  <2>2. \A k \in Log : next_free[k] \in Nat /\ next_free'[k] \in Nat
                     /\ next_free[k] <= next_free'[k]
    BY <2>1 DEF TypeOK
  <2>3. \A k \in Log : \A f \in given[k] : f.addr \in Nat /\ f.len \in Nat /\ f.len >= 1
    <3>1. \A f \in Entry : f.addr \in Nat /\ f.len \in Nat /\ f.len >= 1
      BY DEF Entry, Unit
    <3>2. QED
      BY <3>1 DEF TypeOK
  <2>4. ASSUME NEW k \in Log, NEW f \in given'[k]
        PROVE  f.addr + f.len <= Cap /\ f.addr + f.len <= next_free'[k]
    <3>1. CASE f \in given[k]
      BY <3>1, <2>2, <2>3 DEF EntriesDisjoint
    <3>2. CASE k = l /\ f = e
      BY <3>2, <1>1, <2>1 DEF TypeOK
    <3>3. QED
      BY <2>4, <3>1, <3>2, <1>3 DEF TypeOK
  <2>5. ASSUME NEW k \in Log, NEW f \in given'[k], NEW g \in given'[k], f # g
        PROVE  ~ Overlaps(f.addr, f.len, g.addr, g.len)
    <3>1. CASE f \in given[k] /\ g \in given[k]
      BY <3>1, <2>5 DEF EntriesDisjoint
    <3>2. CASE k = l /\ f \in given[k] /\ g = e
      BY <3>2, <1>1, <2>3 DEF EntriesDisjoint, Overlaps
    <3>3. CASE k = l /\ g \in given[k] /\ f = e
      BY <3>3, <1>1, <2>3 DEF EntriesDisjoint, Overlaps
    <3>4. QED
      BY <2>5, <3>1, <3>2, <3>3, <1>3 DEF TypeOK
  <2>6. QED
    BY <2>4, <2>5 DEF EntriesDisjoint
<1>7. QED
  BY <1>2, <1>3, <1>4, <1>5, <1>6 DEF TypeOK

(* One that does not fit leaves what was given out below next_free. *)
LEMMA FetchAddFacts ==
  ASSUME TypeOK, EntriesDisjoint, NEW l \in Log, NEW n \in 1..Cap,
         FetchAdd(l, n), given' = given
  PROVE  EntriesDisjoint'
<1>1. \A k \in Log : next_free[k] \in Nat /\ next_free'[k] \in Nat
                   /\ next_free[k] <= next_free'[k]
  BY LogAssumption DEF TypeOK, FetchAdd
<1>2. \A k \in Log : \A f \in given[k] : f.addr \in Nat /\ f.len \in Nat
  <2>1. \A f \in Entry : f.addr \in Nat /\ f.len \in Nat
    BY DEF Entry, Unit
  <2>2. QED
    BY <2>1 DEF TypeOK
<1>3. QED
  BY <1>1, <1>2, LogAssumption DEF EntriesDisjoint

(* A thread that returns has no locals left. *)
LEMMA ReturnType ==
  ASSUME TypeOK, NEW t \in Thread, Return(t)
  PROVE  /\ pc' \in [Thread -> {"idle", "header", "open", "primary", "mark", "wait", "add",
                               "test", "reset"}]
         /\ log' \in [Thread -> Log \cup {NoLog}]
         /\ size' \in [Thread -> 0..Cap]
         /\ log_entry' \in [Thread -> Nat]
         /\ stamp' \in [Thread -> Nat]
         /\ \A u \in Thread : pc'[u] # "idle" => log'[u] \in Log
BY LogAssumption DEF TypeOK, Return, Goto

(* A new pass of a log. *)
LEMMA RestartType ==
  ASSUME TypeOK, NEW l \in Log, Restart(l)
  PROVE  /\ next_free' \in [Log -> Nat]
         /\ pass' \in [Log -> Nat]
         /\ given' \in [Log -> SUBSET Entry]
         /\ lapped' \in [Log -> BOOLEAN]
BY DEF TypeOK, Restart

(* A thread that goes to a place inside a call on log l. *)
LEMMA CallType ==
  ASSUME TypeOK, NEW t \in Thread, NEW l \in Log, NEW n \in 1..Cap, NEW a \in Nat,
         NEW p \in {"header", "open", "primary", "wait"},
         Call(t, l, n), Goto(t, p), log_entry' = [log_entry EXCEPT ![t] = a]
  PROVE  /\ pc' \in [Thread -> {"idle", "header", "open", "primary", "mark", "wait", "add",
                               "test", "reset"}]
         /\ log' \in [Thread -> Log \cup {NoLog}]
         /\ size' \in [Thread -> 0..Cap]
         /\ log_entry' \in [Thread -> Nat]
         /\ \A u \in Thread : pc'[u] # "idle" => log'[u] \in Log
BY LogAssumption DEF TypeOK, Call, Goto

(* A thread that stored the header of its entry. *)
LEMMA StoredType ==
  ASSUME TypeOK, NEW t \in Thread, NEW l \in Log, NEW a \in Unit, NEW n \in 1..Cap,
         NEW p \in Nat, Stored(t, l, a, n, p)
  PROVE  /\ mem' \in [Log -> [Unit -> [len : 0..Cap, valid : BOOLEAN, pass : Nat]]]
         /\ pc' \in [Thread -> {"idle", "header", "open", "primary", "mark", "wait", "add",
                               "test", "reset"}]
         /\ log' \in [Thread -> Log \cup {NoLog}]
         /\ size' \in [Thread -> 0..Cap]
         /\ log_entry' \in [Thread -> Nat]
         /\ stamp' \in [Thread -> Nat]
         /\ \A u \in Thread : pc'[u] # "idle" => log'[u] \in Log
<1> USE LogAssumption
<1> DEFINE h == [len |-> n, valid |-> FALSE, pass |-> p]
<1>1. h \in [len : 0..Cap, valid : BOOLEAN, pass : Nat]
  OBVIOUS
<1> HIDE DEF h
<1>2. mem' = [mem EXCEPT ![l][a] = h]
  BY DEF Stored, h
<1>3. mem' \in [Log -> [Unit -> [len : 0..Cap, valid : BOOLEAN, pass : Nat]]]
  BY <1>1, <1>2 DEF TypeOK
<1>4. a \in Nat
  BY DEF Unit
<1>5. stamp' \in [Thread -> Nat]
  BY DEF TypeOK, Stored
<1>6. QED
  BY <1>3, <1>4, <1>5, CallType DEF Stored

(* A fetch-and-add that fits gives units above all that were given out     *)
(* before; one that does not makes the thread primary only if the log has  *)
(* no primary yet.                                                         *)
LEMMA AllocTimeStampedInv ==
  ASSUME LogInv, NEW t \in Thread, NEW l \in Log, NEW n \in 1..Cap,
         t \in use.users, pc[t] \in {"idle", "add"}, calls' \in Nat,
         AllocTimeStamped(t, l, n)
  PROVE  LogInv'
<1> USE LogAssumption
<1> DEFINE a == next_free[l]
<1>0. a \in Nat /\ use' = use
  BY DEF LogInv, TypeOK, AllocTimeStamped
<1>a. FetchAdd(l, n) /\ TypeOK /\ EntriesDisjoint
  BY DEF AllocTimeStamped, LogInv
<1>b. next_free' \in [Log -> Nat]
  BY <1>a DEF TypeOK, FetchAdd
<1>1. TypeOK'
  <2>1. CASE Fits(a, n)
    <3>1. Give(t, l, n)
      BY <2>1 DEF AllocTimeStamped
    <3>2. Call(t, l, n) /\ Goto(t, "header") /\ log_entry' = [log_entry EXCEPT ![t] = a]
      BY <2>1 DEF AllocTimeStamped
    <3>3. stamp' \in [Thread -> Nat] /\ UNCHANGED <<options, mem, use>>
      BY <2>1, <1>a DEF AllocTimeStamped, TypeOK
    <3>4. /\ given' \in [Log -> SUBSET Entry]
          /\ lapped' \in [Log -> BOOLEAN]
          /\ pass' \in [Log -> Nat]
      BY <2>1, <3>1, <1>a, GiveFacts
    <3>5. QED
      BY <3>2, <3>3, <3>4, <1>0, <1>a, <1>b, CallType DEF TypeOK
  <2>2. CASE ~ Fits(a, n) /\ "CIRCULAR" \in options[l]
    <3>1. PICK p \in {"primary", "wait"} : Goto(t, p)
      BY <2>2 DEF AllocTimeStamped
    <3>2. Call(t, l, n) /\ log_entry' = [log_entry EXCEPT ![t] = a]
      BY <2>2 DEF AllocTimeStamped
    <3>3. /\ pass' = pass /\ given' = given /\ lapped' = lapped
          /\ stamp' = stamp /\ options' = options /\ mem' = mem
      BY <2>2 DEF AllocTimeStamped, ghost
    <3>4. /\ pc' \in [Thread -> {"idle", "header", "open", "primary", "mark", "wait", "add",
                                "test", "reset"}]
          /\ log' \in [Thread -> Log \cup {NoLog}]
          /\ size' \in [Thread -> 0..Cap]
          /\ log_entry' \in [Thread -> Nat]
          /\ \A u \in Thread : pc'[u] # "idle" => log'[u] \in Log
      <4>1. p \in {"header", "open", "primary", "wait"}
        OBVIOUS
      <4>2. QED
        BY <4>1, <3>1, <3>2, <1>0, <1>a, CallType
    <3>5. QED
      BY <3>3, <3>4, <1>0, <1>a, <1>b DEF TypeOK
  <2>3. CASE ~ Fits(a, n) /\ "CIRCULAR" \notin options[l]
    BY <2>3, <1>0, <1>a, <1>b, ReturnType DEF TypeOK, AllocTimeStamped, ghost
  <2>4. QED
    BY <2>1, <2>2, <2>3
<1>2. EntriesDisjoint'
  <2>1. CASE Fits(a, n)
    BY <2>1, <1>a, GiveFacts DEF AllocTimeStamped
  <2>2. CASE ~ Fits(a, n)
    BY <2>2, <1>a, FetchAddFacts DEF AllocTimeStamped, ghost
  <2>3. QED
    BY <2>1, <2>2
<1>3. OnePrimary'
  BY <1>0 DEF LogInv, TypeOK, OnePrimary, AllocTimeStamped, FetchAdd, Fits, IsPrimary, Call, Goto, Return
<1>4. CallsInUse'
  BY <1>0 DEF LogInv, TypeOK, CallsInUse, AllocTimeStamped, FetchAdd, Fits, Call, Goto, Return
<1>5. QED
  BY <1>1, <1>2, <1>3, <1>4 DEF LogInv

(* The same of a raw entry, of which the log keeps nothing else. *)
LEMMA AllocRawInv ==
  ASSUME LogInv, NEW t \in Thread, NEW l \in Log, NEW n \in 1..Cap,
         pc[t] = "idle", calls' \in Nat, AllocRaw(t, l, n)
  PROVE  LogInv'
<1> USE LogAssumption
<1>a. FetchAdd(l, n) /\ Return(t) /\ TypeOK /\ EntriesDisjoint
  BY DEF AllocRaw, LogInv
<1>b. next_free' \in [Log -> Nat]
  BY <1>a DEF TypeOK, FetchAdd
<1>1. TypeOK'
  <2>1. CASE Fits(next_free[l], n)
    BY <2>1, <1>a, <1>b, GiveFacts, ReturnType DEF TypeOK, AllocRaw
  <2>2. CASE ~ Fits(next_free[l], n)
    BY <2>2, <1>a, <1>b, ReturnType DEF TypeOK, AllocRaw, ghost
  <2>3. QED
    BY <2>1, <2>2
<1>2. EntriesDisjoint'
  <2>1. CASE Fits(next_free[l], n)
    BY <2>1, <1>a, GiveFacts DEF AllocRaw
  <2>2. CASE ~ Fits(next_free[l], n)
    BY <2>2, <1>a, FetchAddFacts DEF AllocRaw, ghost
  <2>3. QED
    BY <2>1, <2>2
<1>3. OnePrimary'
  BY DEF LogInv, TypeOK, OnePrimary, AllocRaw, FetchAdd, Goto, Return
<1>4. CallsInUse'
  BY DEF LogInv, TypeOK, CallsInUse, AllocRaw, Goto, Return
<1>5. QED
  BY <1>1, <1>2, <1>3, <1>4 DEF LogInv

(* Without the lock-free fetch-and-add, by the only user: no other thread  *)
(* is in a call when it starts the log over.                               *)
LEMMA AllocNoLockInv ==
  ASSUME LogInv, NEW t \in Thread, NEW l \in Log, NEW n \in 1..Cap,
         AllocNoLock(t, l, n)
  PROVE  LogInv'
<1> USE LogAssumption
<1>0. use' = use /\ pc[t] = "idle" /\ t \in use.users
  BY DEF AllocNoLock, Begin
<1>a. \A u \in Thread : pc[u] = "idle"
  BY <1>0 DEF AllocNoLock, LogInv, CallsInUse
<1> DEFINE a == next_free[l]
<1>b. TypeOK /\ EntriesDisjoint /\ a \in Nat /\ calls' \in Nat
  BY DEF LogInv, TypeOK, AllocNoLock, Begin
<1>c. 0 \in Unit /\ n \in 0..Cap
  BY DEF Unit
<1>1. TypeOK'
  <2>1. CASE Fits(a, n)
    <3>1. FetchAdd(l, n) /\ Give(t, l, n) /\ Stored(t, l, a, n, pass[l]) /\ options' = options
      BY <2>1 DEF AllocNoLock
    <3>2. a \in Unit /\ given' \in [Log -> SUBSET Entry] /\ lapped' \in [Log -> BOOLEAN]
          /\ pass' \in [Log -> Nat]
      BY <2>1, <3>1, <1>b, GiveFacts
    <3>3. pass[l] \in Nat
      BY <1>b DEF TypeOK
    <3>4. QED
      BY <3>1, <3>2, <3>3, <1>0, <1>b, <1>c, StoredType DEF TypeOK, FetchAdd
  <2>2. CASE ~ Fits(a, n) /\ "CIRCULAR" \in options[l]
    <3>1. Stored(t, l, 0, n, pass[l] + 1) /\ pass[l] + 1 \in Nat
      BY <2>2, <1>b DEF AllocNoLock, TypeOK
    <3>2. [addr |-> 0, len |-> n] \in Entry
      BY <1>c DEF Entry
    <3>3. given' \in [Log -> SUBSET Entry]
      <4>1. given' = [given EXCEPT ![l] = {[addr |-> 0, len |-> n]}]
        BY <2>2 DEF AllocNoLock
      <4>2. QED
        BY <4>1, <3>2, <1>b DEF TypeOK
    <3>4. next_free' \in [Log -> Nat] /\ pass' \in [Log -> Nat] /\ lapped' = lapped
      <4>1. /\ next_free' = [next_free EXCEPT ![l] = n]
            /\ pass' = [pass EXCEPT ![l] = @ + 1]
            /\ lapped' = lapped
        BY <2>2 DEF AllocNoLock
      <4>2. QED
        BY <4>1, <1>b, <1>c DEF TypeOK
    <3>5. options' \in [Log -> SUBSET {"CIRCULAR", "WRAPED"}]
      <4>1. options' = [options EXCEPT ![l] = @ \cup {"WRAPED"}]
        BY <2>2 DEF AllocNoLock
      <4>2. QED
        BY <4>1, <1>b DEF TypeOK
    <3>6. QED
      BY <3>1, <3>3, <3>4, <3>5, <1>0, <1>b, <1>c, StoredType DEF TypeOK
  <2>3. CASE ~ Fits(a, n) /\ "CIRCULAR" \notin options[l]
    <3>1. FetchAdd(l, n) /\ Return(t) /\ UNCHANGED <<options, mem, ghost>>
      BY <2>3 DEF AllocNoLock
    <3>2. next_free' \in [Log -> Nat]
      BY <3>1, <1>b DEF TypeOK, FetchAdd
    <3>3. QED
      BY <3>1, <3>2, <1>0, <1>b, ReturnType DEF TypeOK, ghost
  <2>4. QED
    BY <2>1, <2>2, <2>3
<1>2. EntriesDisjoint'
  <2>1. CASE Fits(a, n)
    BY <2>1, <1>b, GiveFacts DEF AllocNoLock
  <2>2. CASE ~ Fits(a, n) /\ "CIRCULAR" \in options[l]
    <3>1. /\ given' = [given EXCEPT ![l] = {[addr |-> 0, len |-> n]}]
          /\ next_free' = [next_free EXCEPT ![l] = n]
      BY <2>2 DEF AllocNoLock
    <3>2. ASSUME NEW k \in Log, NEW e \in given'[k], NEW f \in given'[k]
          PROVE  /\ e.addr + e.len <= Cap
                 /\ e.addr + e.len <= next_free'[k]
                 /\ e # f => ~ Overlaps(e.addr, e.len, f.addr, f.len)
      <4>1. CASE k = l
        BY <3>1, <3>2, <4>1, <1>b DEF TypeOK
      <4>2. CASE k # l
        BY <3>1, <3>2, <4>2, <1>b DEF TypeOK, EntriesDisjoint
      <4>3. QED
        BY <4>1, <4>2
    <3>3. QED
      BY <3>2 DEF EntriesDisjoint
  <2>3. CASE ~ Fits(a, n) /\ "CIRCULAR" \notin options[l]
    BY <2>3, <1>b, FetchAddFacts DEF AllocNoLock, ghost
  <2>4. QED
    BY <2>1, <2>2, <2>3
<1>3. OnePrimary'
  BY <1>0, <1>a DEF LogInv, TypeOK, OnePrimary, AllocNoLock, Goto, Return, Stored
<1>4. CallsInUse'
  BY <1>0, <1>a DEF LogInv, TypeOK, CallsInUse, AllocNoLock, FetchAdd, Fits, Call, Goto, Return, Stored
<1>5. QED
  BY <1>1, <1>2, <1>3, <1>4 DEF LogInv

(* The steps that write headers and options. *)
LEMMA HeaderStepsInv ==
  ASSUME LogInv, NEW t \in Thread,
         WriteHeader(t) \/ EntryComplete(t) \/ MarkWraped(t) \/ Secondary(t)
  PROVE  LogInv'
<1> USE LogAssumption
<1>0. use' = use /\ next_free' = next_free /\ given' = given
  BY DEF WriteHeader, EntryComplete, MarkWraped, Secondary, header, ghost
<1>1. TypeOK'
  <2>1. CASE WriteHeader(t)
    BY <2>1 DEF LogInv, TypeOK, CallsInUse, WriteHeader, HeaderValid, Goto, header, ghost, Unit
  <2>2. CASE EntryComplete(t)
    <3>1. mem' \in [Log -> [Unit -> [len : 0..Cap, valid : BOOLEAN, pass : Nat]]]
      <4>1. log[t] \in Log /\ log_entry[t] \in Unit
        BY <2>2 DEF LogInv, TypeOK, CallsInUse, EntryComplete, Unit
      <4>2. mem' = [mem EXCEPT ![log[t]][log_entry[t]].valid = TRUE]
        BY <2>2 DEF EntryComplete
      <4>3. mem \in [Log -> [Unit -> [len : 0..Cap, valid : BOOLEAN, pass : Nat]]]
        BY DEF LogInv, TypeOK
      <4> DEFINE k == log[t]
                 a == log_entry[t]
                 h == [mem[k][a] EXCEPT !.valid = TRUE]
      <4>4. h \in [len : 0..Cap, valid : BOOLEAN, pass : Nat]
        <5>1. mem[k][a] \in [len : 0..Cap, valid : BOOLEAN, pass : Nat]
          BY <4>1, <4>3
        <5>2. QED
          BY <5>1
      <4>5. mem' = [mem EXCEPT ![k] = [mem[k] EXCEPT ![a] = h]]
        BY <4>2
      <4>6. [mem[k] EXCEPT ![a] = h] \in [Unit -> [len : 0..Cap, valid : BOOLEAN, pass : Nat]]
        BY <4>1, <4>3, <4>4
      <4>7. QED
        BY <4>1, <4>3, <4>5, <4>6
    <3>2. QED
      BY <2>2, <3>1, ReturnType DEF LogInv, TypeOK, EntryComplete, header, ghost
  <2>3. CASE MarkWraped(t)
    BY <2>3 DEF LogInv, TypeOK, MarkWraped, Goto, ghost
  <2>5. CASE Secondary(t)
    BY <2>5 DEF LogInv, TypeOK, Secondary, Goto, header, ghost
  <2>4. QED
    BY <2>1, <2>2, <2>3, <2>5
<1>2. EntriesDisjoint'
  BY <1>0 DEF LogInv, EntriesDisjoint
<1>3. OnePrimary'
  BY <1>0 DEF LogInv, TypeOK, OnePrimary, WriteHeader, EntryComplete, MarkWraped, Secondary, Goto, Return
<1>4. CallsInUse'
  <2>1. CASE WriteHeader(t)
    BY <2>1, <1>0 DEF LogInv, TypeOK, CallsInUse, WriteHeader, Goto, header
  <2>2. CASE EntryComplete(t)
    BY <2>2, <1>0 DEF LogInv, TypeOK, CallsInUse, EntryComplete, Goto, Return, header
  <2>3. CASE MarkWraped(t)
    <3>1. \A l \in Log : "CIRCULAR" \in options'[l] => "CIRCULAR" \in options[l]
      BY <2>3 DEF LogInv, TypeOK, MarkWraped
    <3>2. QED
      BY <2>3, <3>1, <1>0 DEF LogInv, TypeOK, CallsInUse, MarkWraped, Goto
  <2>4. CASE Secondary(t)
    BY <2>4, <1>0 DEF LogInv, TypeOK, CallsInUse, Secondary, Goto, header
  <2>5. QED
    BY <2>1, <2>2, <2>3, <2>4
<1>5. QED
  BY <1>1, <1>2, <1>3, <1>4 DEF LogInv

(* The primary starts its log over; no other thread is primary of it. *)
LEMMA WrapInv ==
  ASSUME LogInv, NEW t \in Thread, Wrap(t)
  PROVE  LogInv'
<1> USE LogAssumption
<1>0. use' = use
  BY DEF Wrap
<1>1. TypeOK'
  BY DEF LogInv, TypeOK, Wrap, Restart, Goto
<1>2. EntriesDisjoint'
  BY DEF LogInv, TypeOK, EntriesDisjoint, Wrap, Restart
<1>3. OnePrimary'
  BY DEF LogInv, TypeOK, OnePrimary, Wrap, Restart, Goto
<1>4. CallsInUse'
  BY <1>0 DEF LogInv, TypeOK, CallsInUse, Wrap, Goto
<1>5. QED
  BY <1>1, <1>2, <1>3, <1>4 DEF LogInv

(* The resets: of logs that are not circular, which have no primary. *)
LEMMA ResetIfFullInv ==
  ASSUME LogInv, NEW t \in Thread, NEW l \in Log,
         ResetIfFull(t, l) \/ TestFull(t) \/ SwapNextFree(t)
  PROVE  LogInv'
<1> USE LogAssumption
<1>0. use' = use /\ use.resets
  BY DEF ResetIfFull, TestFull, SwapNextFree, LogInv, CallsInUse
<1>a. \A u \in Thread : pc[u] # "primary"
  BY <1>0, UseFacts DEF LogInv, CallsInUse
<1>1. TypeOK'
  <2>1. CASE ResetIfFull(t, l)
    BY <2>1 DEF LogInv, TypeOK, ResetIfFull, Begin, Call, Goto, header, ghost
  <2>2. CASE TestFull(t)
    BY <2>2, ReturnType DEF LogInv, TypeOK, TestFull, Goto, header, ghost
  <2>3. CASE SwapNextFree(t)
    <3>1. CASE next_free[log[t]] = log_entry[t]
      <4>1. log[t] \in Log /\ Restart(log[t]) /\ Return(t)
            /\ UNCHANGED <<mem, use, calls>>
        BY <2>3, <3>1 DEF LogInv, TypeOK, SwapNextFree
      <4>2. options' \in [Log -> SUBSET {"CIRCULAR", "WRAPED"}]
        <5>1. options' = [options EXCEPT ![log[t]] = @ \ {"WRAPED"}]
          BY <2>3, <3>1 DEF SwapNextFree
        <5>2. QED
          BY <4>1, <5>1 DEF LogInv, TypeOK
      <4>3. QED
        BY <4>1, <4>2, RestartType, ReturnType DEF LogInv, TypeOK
    <3>2. CASE next_free[log[t]] # log_entry[t]
      BY <2>3, <3>2 DEF LogInv, TypeOK, SwapNextFree, Goto, header, ghost
    <3>3. QED
      BY <3>1, <3>2
  <2>4. QED
    BY <2>1, <2>2, <2>3
<1>2. EntriesDisjoint'
  BY DEF LogInv, TypeOK, EntriesDisjoint, ResetIfFull, TestFull, SwapNextFree,
         Restart, header, ghost
<1>3. OnePrimary'
  BY <1>a DEF LogInv, TypeOK, OnePrimary, ResetIfFull, TestFull, SwapNextFree, Goto, Return
<1>4. CallsInUse'
  <2>1. CASE ResetIfFull(t, l)
    BY <2>1, <1>0 DEF LogInv, TypeOK, CallsInUse, ResetIfFull, Begin, Call, Goto, header
  <2>2. CASE TestFull(t)
    BY <2>2, <1>0 DEF LogInv, TypeOK, CallsInUse, TestFull, Goto, Return, header
  <2>3. CASE SwapNextFree(t)
    <3>1. \A k \in Log : "CIRCULAR" \in options'[k] => "CIRCULAR" \in options[k]
      BY <2>3 DEF LogInv, TypeOK, SwapNextFree, header
    <3>2. QED
      BY <2>3, <3>1, <1>0 DEF LogInv, TypeOK, CallsInUse, SwapNextFree, Goto, Return
  <2>4. QED
    BY <2>1, <2>2, <2>3
<1>5. QED
  BY <1>1, <1>2, <1>3, <1>4 DEF LogInv

(* The reset without atomic updates, with no call under way. *)
LEMMA ResetAsyncInv ==
  ASSUME LogInv, NEW l \in Log, ResetAsync(l)
  PROVE  LogInv'
<1> USE LogAssumption
<1>1. TypeOK'
  BY DEF LogInv, TypeOK, ResetAsync, Restart, local
<1>2. EntriesDisjoint'
  BY DEF LogInv, TypeOK, EntriesDisjoint, ResetAsync, Restart
<1>3. OnePrimary'
  BY DEF LogInv, OnePrimary, ResetAsync, Quiet, local
<1>4. CallsInUse'
  BY DEF LogInv, TypeOK, CallsInUse, ResetAsync, local
<1>5. QED
  BY <1>1, <1>2, <1>3, <1>4 DEF LogInv

(* The cache options, before the first call. *)
LEMMA SetCachePrefetchInv ==
  ASSUME LogInv, NEW l \in Log, SetCachePrefetch(l)
  PROVE  LogInv'
BY DEF LogInv, TypeOK, EntriesDisjoint, OnePrimary, CallsInUse, SetCachePrefetch, local, ghost

(* One step of a thread inside a call. *)
LEMMA StepsInv ==
  ASSUME LogInv, NEW t \in Thread, Steps(t)
  PROVE  LogInv'
<1>1. CASE WriteHeader(t) \/ EntryComplete(t) \/ MarkWraped(t) \/ Secondary(t)
  BY <1>1, HeaderStepsInv
<1>2. CASE Wrap(t)
  BY <1>2, WrapInv
<1>3. CASE Again(t)
  <2>1. /\ log[t] \in Log /\ size[t] \in 1..Cap
        /\ t \in use.users /\ calls' \in Nat
    BY <1>3, LogAssumption DEF Again, LogInv, TypeOK, CallsInUse
  <2>2. QED
    BY <1>3, <2>1, AllocTimeStampedInv DEF Again
<1>4. CASE TestFull(t) \/ SwapNextFree(t)
  <2>1. log[t] \in Log
    BY <1>4 DEF TestFull, SwapNextFree, LogInv, TypeOK
  <2>2. QED
    BY <1>4, <2>1, ResetIfFullInv
<1>5. QED
  BY <1>1, <1>2, <1>3, <1>4 DEF Steps

(* Every step keeps the invariant. *)
LEMMA NextInv ==
  ASSUME LogInv, [Next]_vars
  PROVE  LogInv'
<1>1. CASE UNCHANGED vars
  BY <1>1 DEF LogInv, TypeOK, EntriesDisjoint, OnePrimary, CallsInUse, vars, header, local, ghost
<1>2. ASSUME NEW t \in Thread, NEW l \in use.logs, NEW n \in use.sizes,
             Alloc(t, l, n) \/ AllocNoLock(t, l, n)
      PROVE  LogInv'
  <2>1. l \in Log /\ n \in 1..Cap
    BY <1>2, UseFacts DEF LogInv
  <2>2. CASE AllocNoLock(t, l, n)
    BY <2>1, <2>2, AllocNoLockInv
  <2>3. CASE Alloc(t, l, n)
    <3>1. calls' \in Nat /\ pc[t] = "idle" /\ t \in use.users
      BY <2>3 DEF Alloc, Begin, LogInv, TypeOK
    <3>2. QED
      BY <2>1, <2>3, <3>1, AllocTimeStampedInv, AllocRawInv DEF Alloc
  <2>4. QED
    BY <1>2, <2>2, <2>3
<1>3. ASSUME NEW t \in Thread, NEW l \in use.logs, ResetIfFull(t, l)
      PROVE  LogInv'
  BY <1>3, UseFacts, ResetIfFullInv DEF LogInv
<1>4. ASSUME NEW t \in Thread, Steps(t)
      PROVE  LogInv'
  BY <1>4, StepsInv
<1>5. ASSUME NEW l \in use.logs, ResetAsync(l) \/ SetCachePrefetch(l)
      PROVE  LogInv'
  <2>1. l \in Log
    BY UseFacts DEF LogInv
  <2>2. CASE SetCachePrefetch(l)
    BY <2>1, <2>2, SetCachePrefetchInv
  <2>3. CASE ResetAsync(l)
    BY <2>1, <2>3, ResetAsyncInv
  <2>4. QED
    BY <1>5, <2>2, <2>3
<1>6. QED
  BY <1>1, <1>2, <1>3, <1>4, <1>5 DEF Next

(* LogInv holds always: entries given out in a pass are disjoint and in    *)
(* the buffer, and a log has at most one primary.                          *)
THEOREM LogInvariant == Spec => []LogInv
<1>1. LogInv /\ [Next]_vars => LogInv'
  BY NextInv
<1>2. QED
  BY InitInv, <1>1, PTL DEF Spec

-----------------------------------------------------------------------------
(* A set of sizes with one element. *)
LEMMA SoleSize ==
  ASSUME TypeOK, Cardinality(use.sizes) = 1, NEW m \in use.sizes, NEW n \in use.sizes
  PROVE  m = n
<1>1. use.sizes \subseteq 1..Cap
  BY UseFacts
<1>2. IsFiniteSet(use.sizes)
  <2>1. IsFiniteSet(1..Cap)
    BY LogAssumption, FS_Interval
  <2> QED BY <1>1, <2>1, FS_Subset
<1>3. PICK x : use.sizes = {x}
  BY <1>2, FS_Singleton
<1> QED BY <1>3

(* The entries of a circular log are all of one size. *)
LEMMA OneSize ==
  ASSUME TypeOK, use.circular, NEW m \in use.sizes, NEW n \in use.sizes
  PROVE  m = n
BY UseFacts, SoleSize

(* A fetch-and-add lowers next_free of no log. *)
LEMMA FetchAddGrows ==
  ASSUME TypeOK, NEW k \in Log, NEW n \in Nat, FetchAdd(k, n), NEW l \in Log
  PROVE  ~ next_free'[l] < next_free[l]
BY DEF TypeOK, FetchAdd

(* The primary swaps next_free when nothing fits below it any more. *)
LEMMA WrapWhenFull ==
  ASSUME LogInv, NEW t \in Thread, Wrap(t), NEW l \in Log,
         next_free'[l] < next_free[l], NEW n \in use.sizes
  PROVE  ~ Fits(next_free[l], n)
<1>1. log[t] \in Log /\ pc[t] = "primary"
  BY DEF Wrap, LogInv, TypeOK
<1>2. l = log[t]
  BY <1>1 DEF Wrap, Restart, LogInv, TypeOK
<1>3. next_free[l] > Cap
  BY <1>1, <1>2, LogAssumption DEF LogInv, TypeOK, OnePrimary
<1>4. n \in Nat
  BY UseFacts, LogAssumption DEF LogInv
<1>5. QED
  BY <1>3, <1>4, LogAssumption DEF Fits, LogInv, TypeOK

(* The only user starts a log over when its entry does not fit. *)
LEMMA NoLockWhenFull ==
  ASSUME LogInv, use.circular, NEW t \in Thread, NEW k \in Log, NEW m \in use.sizes,
         AllocNoLock(t, k, m), NEW l \in Log,
         next_free'[l] < next_free[l], NEW n \in use.sizes
  PROVE  ~ Fits(next_free[l], n)
<1>1. TypeOK /\ m \in Nat /\ m = n
  BY UseFacts, OneSize, LogAssumption DEF LogInv
<1>2. ~ FetchAdd(k, m)
  BY <1>1, FetchAddGrows
<1>3. ~ Fits(next_free[k], m) /\ next_free' = [next_free EXCEPT ![k] = m]
  BY <1>2 DEF AllocNoLock
<1>4. l = k
  BY <1>1, <1>3 DEF TypeOK
<1>5. QED
  BY <1>1, <1>3, <1>4

(* WrapsOnlyWhenFull holds of every step: a circular log starts over only  *)
(* when no entry of its size fits any more.                                *)
THEOREM WrapsWhenFull == Spec => WrapsOnlyWhenFull
<1> DEFINE Step ==
      \A l \in Log :
        use.circular /\ next_free'[l] < next_free[l]
          => \A n \in use.sizes : ~ Fits(next_free[l], n)
<1>1. LogInv /\ [Next]_vars => [Step]_vars
  <2> SUFFICES ASSUME LogInv, Next, use.circular, NEW l \in Log,
                      next_free'[l] < next_free[l], NEW n \in use.sizes
               PROVE  ~ Fits(next_free[l], n)
    OBVIOUS
  <2>1. TypeOK /\ ~ use.resets
    BY UseFacts DEF LogInv
  <2>a. next_free' # next_free
    BY DEF LogInv, TypeOK
  <2>2. ASSUME NEW t \in Thread, NEW k \in use.logs, NEW m \in use.sizes,
               Alloc(t, k, m) \/ AllocNoLock(t, k, m)
        PROVE  ~ Fits(next_free[l], n)
    <3>1. k \in Log /\ m \in Nat
      BY <2>1, UseFacts, LogAssumption
    <3>2. CASE AllocNoLock(t, k, m)
      BY <3>1, <3>2, NoLockWhenFull
    <3>3. CASE Alloc(t, k, m)
      BY <2>1, <3>1, <3>3, FetchAddGrows DEF Alloc, AllocTimeStamped, AllocRaw
    <3>4. QED
      BY <2>2, <3>2, <3>3
  <2>3. ASSUME NEW t \in Thread, Steps(t)
        PROVE  ~ Fits(next_free[l], n)
    <3>1. CASE Wrap(t)
      BY <3>1, WrapWhenFull
    <3>2. CASE Again(t)
      <4>1. log[t] \in Log /\ size[t] \in Nat
        BY <3>2, LogAssumption DEF Again, LogInv, TypeOK
      <4>2. QED
        BY <2>1, <3>2, <4>1, FetchAddGrows DEF Again, AllocTimeStamped
    <3>3. CASE SwapNextFree(t)
      BY <2>1, <3>3 DEF SwapNextFree, LogInv, CallsInUse
    <3>4. CASE WriteHeader(t) \/ EntryComplete(t) \/ MarkWraped(t) \/ Secondary(t) \/ TestFull(t)
      BY <2>a, <3>4 DEF WriteHeader, EntryComplete, MarkWraped, Secondary, TestFull, header
    <3>5. QED
      BY <2>3, <3>1, <3>2, <3>3, <3>4 DEF Steps
  <2>4. ASSUME NEW t \in Thread, NEW k \in use.logs, ResetIfFull(t, k)
        PROVE  ~ Fits(next_free[l], n)
    BY <2>1, <2>4 DEF ResetIfFull
  <2>5. ASSUME NEW k \in use.logs, ResetAsync(k) \/ SetCachePrefetch(k)
        PROVE  ~ Fits(next_free[l], n)
    BY <2>1, <2>a, <2>5 DEF ResetAsync, SetCachePrefetch
  <2>6. QED
    BY <2>2, <2>3, <2>4, <2>5 DEF Next
<1>2. Spec => []LogInv
  BY LogInvariant
<1> HIDE DEF Step
<1>3. Spec => [][Step]_vars
  BY <1>1, <1>2, PTL DEF Spec
<1>4. QED
  BY <1>3 DEF Step, WrapsOnlyWhenFull

-----------------------------------------------------------------------------
(* What the use of a portal is. *)
LEMMA PortalUseFacts ==
  ASSUME LogInv, use \in PortalUses
  PROVE  /\ ~ use.circular /\ ~ use.resets
         /\ use.logs = {}
         /\ use.users \subseteq Thread
         /\ use.sizes \subseteq 1..Cap
         /\ \A l \in Log : "CIRCULAR" \notin options[l]
BY PortalAssumption, UseFacts DEF LogInv, CallsInUse

(* No step changes the use. *)
LEMMA UseConstant ==
  ASSUME LogInv, [Next]_vars
  PROVE  use' = use
<1>1. ASSUME NEW t \in Thread, NEW l \in use.logs, NEW n \in use.sizes,
             Alloc(t, l, n) \/ AllocNoLock(t, l, n)
      PROVE  use' = use
  BY <1>1 DEF Alloc, AllocTimeStamped, AllocRaw, AllocNoLock
<1>2. ASSUME NEW t \in Thread, Steps(t)
      PROVE  use' = use
  BY <1>2 DEF Steps, WriteHeader, EntryComplete, Wrap, MarkWraped, Secondary, Again,
              AllocTimeStamped, TestFull, SwapNextFree
<1>3. ASSUME NEW t \in Thread, NEW l \in use.logs,
             ResetIfFull(t, l) \/ ResetAsync(l) \/ SetCachePrefetch(l)
      PROVE  use' = use
  BY <1>3 DEF ResetIfFull, ResetAsync, SetCachePrefetch
<1>4. ASSUME NEW l \in use.logs, ResetAsync(l) \/ SetCachePrefetch(l)
      PROVE  use' = use
  BY <1>4 DEF ResetAsync, SetCachePrefetch
<1>5. QED
  BY <1>1, <1>2, <1>3, <1>4 DEF Next, vars

(* A thread outside of the portal has an entry and fills it in. *)
LEMMA LoggerStep ==
  ASSUME LogInv, PortalInv, use \in PortalUses, Next
  PROVE  \E t \in Thread : WriteHeader(t) \/ EntryComplete(t)
<1>1. \A t \in Thread : pc[t] \in {"idle", "header", "open"}
  BY DEF PortalInv, PortalInUse
<1>2. PICK t \in Thread : Steps(t)
  BY PortalUseFacts DEF Next
<1>3. ~ (Wrap(t) \/ MarkWraped(t) \/ Secondary(t) \/ Again(t) \/ TestFull(t) \/ SwapNextFree(t))
  BY <1>1 DEF Wrap, MarkWraped, Secondary, Again, TestFull, SwapNextFree
<1>4. QED
  BY <1>2, <1>3 DEF Steps

(* It does not change what the portal goes by. *)
LEMMA LoggerStepFrame ==
  ASSUME LogInv, PortalInv, use \in PortalUses, [Next]_vars
  PROVE  /\ next_free' = next_free
         /\ given' = given
         /\ use' = use
         /\ \A u \in Thread : /\ pc[u] = "idle" => pc'[u] = "idle"
                              /\ pc'[u] \in {"idle", "header", "open"}
<1>1. CASE UNCHANGED vars
  BY <1>1 DEF vars, header, local, ghost, PortalInv, PortalInUse
<1>2. CASE Next
  <2>1. PICK t \in Thread : WriteHeader(t) \/ EntryComplete(t)
    BY <1>2, LoggerStep
  <2>2. /\ pc \in [Thread -> {"idle", "header", "open", "primary", "mark", "wait", "add",
                            "test", "reset"}]
        /\ \A u \in Thread : pc[u] \in {"idle", "header", "open"}
    BY DEF LogInv, TypeOK, PortalInv, PortalInUse
  <2>3. CASE WriteHeader(t)
    BY <2>2, <2>3 DEF WriteHeader, Goto, header, ghost
  <2>4. CASE EntryComplete(t)
    BY <2>2, <2>4 DEF EntryComplete, Return, Goto, header, ghost
  <2>5. QED
    BY <2>1, <2>3, <2>4
<1>3. QED
  BY <1>1, <1>2

-----------------------------------------------------------------------------
(* Init establishes the invariant. *)
LEMMA PInitInv == PInit => LogInv /\ PortalInv
<1> SUFFICES ASSUME PInit PROVE LogInv /\ PortalInv
  OBVIOUS
<1>1. LogInv
  BY InitInv DEF PInit
<1>2. PortalTypeOK
  BY PortalAssumption, LogAssumption DEF PInit, PortalTypeOK, Slot, Want, Nothing
<1>3. ListFilled /\ (\A i \in 0..current_logger-1 : list[i] # NoLog /\ LoggerFull(list[i]))
  BY PortalAssumption DEF PInit, ListFilled, Slot
<1>4. CallsFollow /\ PortalInUse
  BY DEF PInit, CallsFollow, PortalInUse, Init
<1>5. QED
  BY <1>1, <1>2, <1>3, <1>4 DEF PortalInv

(* A step of a logger alone. *)
LEMMA LoggerStepInv ==
  ASSUME LogInv, PortalInv, [Next]_vars, UNCHANGED <<portal, plocal>>
  PROVE  PortalInv'
<1>1. use' = use
  BY UseConstant
<1>2. /\ list' = list /\ current_logger' = current_logger /\ next_logger' = next_logger
      /\ place' = place /\ log_index' = log_index /\ want' = want
  BY DEF portal, plocal
<1>3. PortalTypeOK'
  BY <1>2 DEF PortalInv, PortalTypeOK
<1>4. ListFilled'
  BY <1>1, <1>2 DEF PortalInv, ListFilled
<1>5. CASE use \in PortalUses
  <2>1. next_free' = next_free
    BY <1>5, LoggerStepFrame
  <2>2. (\A i \in 0..current_logger-1 : list[i] # NoLog /\ LoggerFull(list[i]))'
    BY <1>2, <2>1 DEF PortalInv, LoggerFull
  <2>3. CallsFollow'
    BY <1>2, <2>1 DEF PortalInv, CallsFollow, LoggerFull
  <2>4. PortalInUse'
    BY <1>1, <1>2, <1>5, LoggerStepFrame DEF PortalInv, PortalInUse
  <2>5. QED
    BY <1>3, <1>4, <2>2, <2>3, <2>4 DEF PortalInv
<1>6. CASE use \notin PortalUses
  <2>1. current_logger = 0 /\ \A t \in Thread : place[t] = "idle"
    BY <1>6 DEF PortalInv, PortalTypeOK, ListFilled, PortalInUse, Slot
  <2>2. (\A i \in 0..current_logger-1 : list[i] # NoLog /\ LoggerFull(list[i]))'
    BY <1>2, <2>1
  <2>3. CallsFollow'
    BY <1>2, <2>1 DEF CallsFollow
  <2>4. PortalInUse'
    BY <1>1, <1>2, <1>6, <2>1 DEF PortalInUse
  <2>5. QED
    BY <1>3, <1>4, <2>2, <2>3, <2>4 DEF PortalInv
<1>7. QED
  BY <1>5, <1>6

(* A logger is put into the first free slot, while no call is under way. *)
LEMMA AddLoggerInv ==
  ASSUME LogInv, PortalInv, NEW l \in Log, AddLogger(l)
  PROVE  PortalInv'
<1> USE PortalAssumption, LogAssumption
<1>1. /\ use' = use /\ next_free' = next_free /\ pc' = pc
      /\ current_logger' = current_logger
      /\ place' = place /\ log_index' = log_index /\ want' = want
      /\ \A t \in Thread : place[t] = "idle"
      /\ use \in PortalUses
  BY DEF AddLogger, vars, header, local, plocal
<1>2. PortalTypeOK'
  <2>1. list' \in [Slot -> Log \cup {NoLog}] /\ next_logger' \in 0..ListSize+1
    <3>1. list \in [Slot -> Log \cup {NoLog}] /\ next_logger \in Nat
      BY DEF PortalInv, PortalTypeOK
    <3>2. \/ /\ next_logger < ListSize
             /\ list' = [list EXCEPT ![next_logger] = l] /\ next_logger' = next_logger + 1
          \/ next_logger = ListSize /\ next_logger' = next_logger + 1 /\ list' = list
      BY DEF AddLogger
    <3>3. next_logger' \in 0..ListSize+1
      BY <3>1, <3>2
    <3>4. list' \in [Slot -> Log \cup {NoLog}]
      BY <3>1, <3>2
    <3>5. QED
      BY <3>3, <3>4
  <2>2. QED
    BY <1>1, <2>1 DEF PortalInv, PortalTypeOK
<1>3. ListFilled'
  <2>1. current_logger' <= next_logger'
    BY <1>1 DEF AddLogger, PortalInv, PortalTypeOK, ListFilled, Slot
  <2>2. (\A i \in Slot : i < next_logger /\ i < ListSize <=> list[i] # NoLog)'
    BY DEF AddLogger, PortalInv, PortalTypeOK, ListFilled, Slot
  <2>3. (\A i, j \in Slot : list[i] = list[j] /\ list[i] # NoLog => i = j)'
    BY SMTT(30) DEF AddLogger, PortalInv, PortalTypeOK, ListFilled, Slot, Attached
  <2>4. QED
    BY <1>1, <2>1, <2>2, <2>3 DEF ListFilled
<1>4. (\A i \in 0..current_logger-1 : list[i] # NoLog /\ LoggerFull(list[i]))'
  BY <1>1 DEF AddLogger, PortalInv, PortalTypeOK, ListFilled, Slot, LoggerFull
<1>5. CallsFollow' /\ PortalInUse'
  BY <1>1 DEF CallsFollow, PortalInUse, PortalInv
<1>6. QED
  BY <1>2, <1>3, <1>4, <1>5 DEF PortalInv

(* A thread that leaves the portal. *)
LEMMA PReturnType ==
  ASSUME PortalInv, NEW t \in Thread, PReturn(t)
  PROVE  /\ place' \in [Thread -> {"idle", "alloc", "full", "swap", "retry", "start", "crashed"}]
         /\ log_index' \in [Thread -> Slot]
         /\ want' \in [Thread -> Want]
         /\ place'[t] = "idle"
<1>1. Nothing \in Want /\ 0 \in Slot
  BY PortalAssumption, LogAssumption DEF Nothing, Want, Slot
<1>2. QED
  BY <1>1 DEF PReturn, GotoPlace, PortalInv, PortalTypeOK

(* Entering the portal, for the first time or again. *)
LEMMA EnterInv ==
  ASSUME LogInv, PortalInv, NEW t \in Thread, NEW w \in Want, Enter(t, w),
         use \in PortalUses, pc[t] = "idle", t \in use.users, w.size \in use.sizes,
         portal' = portal, next_free' = next_free, pc' = pc, use' = use
  PROVE  PortalInv'
<1> USE PortalAssumption, LogAssumption
<1>1. list' = list /\ current_logger' = current_logger /\ next_logger' = next_logger
  BY DEF portal
<1>2. PortalTypeOK'
  <2>1. CASE next_logger > current_logger
    <3>1. /\ log_index' = [log_index EXCEPT ![t] = current_logger]
          /\ want' = [want EXCEPT ![t] = w]
          /\ place' = [place EXCEPT ![t] = "alloc"]
      BY <2>1 DEF Enter, GotoPlace, PortalInv, PortalTypeOK, Slot
    <3>2. QED
      BY <1>1, <3>1 DEF PortalInv, PortalTypeOK
  <2>2. CASE next_logger <= current_logger
    <3>1. PReturn(t)
      BY <2>2 DEF Enter, PortalInv, PortalTypeOK, Slot
    <3>2. QED
      BY <1>1, <3>1, PReturnType DEF PortalInv, PortalTypeOK
  <2>3. QED
    BY <2>1, <2>2 DEF PortalInv, PortalTypeOK, Slot
<1>3. ListFilled' /\ (\A i \in 0..current_logger-1 : list[i] # NoLog /\ LoggerFull(list[i]))'
  BY <1>1 DEF PortalInv, ListFilled, LoggerFull
<1>4. CallsFollow'
  BY <1>1 DEF Enter, PReturn, GotoPlace, PortalInv, PortalTypeOK, CallsFollow, LoggerFull, Slot
<1>5. PortalInUse'
  BY <1>1 DEF Enter, PReturn, GotoPlace, PortalInv, PortalTypeOK, PortalInUse
<1>6. QED
  BY <1>2, <1>3, <1>4, <1>5 DEF PortalInv

(* An allocate from the logger in slot i. *)
LEMMA LoggerAllocFacts ==
  ASSUME LogInv, PortalInv, NEW t \in Thread, NEW i \in Slot, NEW fails,
         place[t] # "idle", list[i] # NoLog, LoggerAlloc(t, list[i], fails)
  PROVE  /\ list[i] \in Log
         /\ want[t].size \in 1..Cap
         /\ use' = use
         /\ next_free' = [next_free EXCEPT ![list[i]] = @ + want[t].size]
         /\ LogInv'
         /\ \A u \in Thread \ {t} : pc'[u] = pc[u]
         /\ pc'[t] \in {"idle", "header"}
         /\ ~ Fits(next_free[list[i]], want[t].size) => pc'[t] = "idle" /\ given' = given
         /\ Fits(next_free[list[i]], want[t].size) => Give(t, list[i], want[t].size)
<1> DEFINE l == list[i]
           n == want[t].size
<1>1. l \in Log
  BY DEF PortalInv, PortalTypeOK
<1>2. pc[t] = "idle" /\ use \in PortalUses /\ t \in use.users
  BY DEF PortalInv, PortalInUse
<1>3. n \in 1..Cap
  BY <1>2, PortalUseFacts DEF PortalInv, PortalInUse
<1>4. calls' \in Nat /\ "CIRCULAR" \notin options[l]
  BY <1>1, <1>2, PortalUseFacts DEF LoggerAlloc, LogInv, TypeOK
<1>5. AllocRaw(t, l, n) \/ AllocTimeStamped(t, l, n)
  BY DEF LoggerAlloc
<1>6. LogInv'
  BY <1>1, <1>2, <1>3, <1>4, <1>5, AllocRawInv, AllocTimeStampedInv
<1>7. use' = use /\ FetchAdd(l, n)
  BY <1>5 DEF AllocRaw, AllocTimeStamped
<1>8. /\ \A u \in Thread \ {t} : pc'[u] = pc[u]
      /\ pc'[t] \in {"idle", "header"}
      /\ ~ Fits(next_free[l], n) => pc'[t] = "idle" /\ given' = given
      /\ Fits(next_free[l], n) => Give(t, l, n)
  <2>1. DOMAIN pc = Thread
    BY DEF LogInv, TypeOK
  <2>2. CASE AllocRaw(t, l, n)
    BY <2>1, <2>2 DEF AllocRaw, Return, Goto, ghost
  <2>3. CASE AllocTimeStamped(t, l, n)
    BY <2>1, <2>3, <1>4 DEF AllocTimeStamped, Return, Goto, ghost
  <2>4. QED
    BY <1>5, <2>2, <2>3
<1>9. QED
  BY <1>1, <1>3, <1>6, <1>7, <1>8 DEF FetchAdd

(* An allocate gives an entry of the logger in slot i, or finds it full. *)
LEMMA LoggerAllocInv ==
  ASSUME LogInv, PortalInv, NEW t \in Thread, NEW i \in Slot,
         NEW fails \in {"full", "start"},
         place[t] # "idle", list[i] # NoLog, LoggerAlloc(t, list[i], fails),
         portal' = portal,
         fails = "full" => i = log_index[t] /\ place[t] = "alloc"
  PROVE  LogInv' /\ PortalInv'
<1> USE PortalAssumption, LogAssumption
<1> DEFINE l == list[i]
           n == want[t].size
<1>1. list' = list /\ current_logger' = current_logger /\ next_logger' = next_logger
  BY DEF portal
<1>2. /\ l \in Log /\ n \in 1..Cap /\ use' = use /\ LogInv'
      /\ next_free' = [next_free EXCEPT ![l] = @ + n]
      /\ \A u \in Thread \ {t} : pc'[u] = pc[u]
      /\ pc'[t] \in {"idle", "header"}
      /\ ~ Fits(next_free[l], n) => pc'[t] = "idle"
  BY LoggerAllocFacts
<1>3. \A k \in Log : next_free[k] \in Nat /\ next_free'[k] \in Nat
                   /\ next_free[k] <= next_free'[k]
  BY <1>2 DEF LogInv, TypeOK
<1>4. \A k \in Log : LoggerFull(k) => next_free'[k] >= Cap
  BY <1>3 DEF LoggerFull
<1>5. ~ Fits(next_free[l], n) => next_free'[l] >= Cap
  <2>1. next_free'[l] = next_free[l] + n
    BY <1>2 DEF LogInv, TypeOK
  <2>2. QED
    BY <1>2, <1>3, <2>1 DEF Fits
<1>6. \/ Fits(next_free[l], n) /\ PReturn(t)
      \/ ~ Fits(next_free[l], n) /\ GotoPlace(t, fails) /\ UNCHANGED <<log_index, want>>
  BY DEF LoggerAlloc
<1>7. \A j \in Slot : list[j] # NoLog => list[j] \in Log
  BY DEF PortalInv, PortalTypeOK
<1>8. PortalTypeOK'
  <2>1. CASE PReturn(t)
    BY <1>1, <2>1, PReturnType DEF PortalInv, PortalTypeOK
  <2>2. CASE GotoPlace(t, fails) /\ UNCHANGED <<log_index, want>>
    BY <1>1, <2>2 DEF GotoPlace, PortalInv, PortalTypeOK
  <2>3. QED
    BY <1>6, <2>1, <2>2
<1>9. ListFilled'
  BY <1>1, <1>2 DEF PortalInv, ListFilled
<1>10. (\A j \in 0..current_logger-1 : list[j] # NoLog /\ LoggerFull(list[j]))'
  <2>1. ASSUME NEW j \in 0..current_logger-1
        PROVE  list[j] # NoLog /\ next_free'[list[j]] >= Cap
    <3>1. j \in Slot
      BY DEF PortalInv, PortalTypeOK, Slot
    <3>2. list[j] # NoLog /\ LoggerFull(list[j])
      BY DEF PortalInv
    <3>3. QED
      BY <3>1, <3>2, <1>4, <1>7
  <2>2. QED
    BY <1>1, <2>1 DEF LoggerFull
<1>11. CallsFollow'
  <2>1. ASSUME NEW u \in Thread, u # t
        PROVE  place'[u] = place[u] /\ log_index'[u] = log_index[u]
    BY <1>6, <2>1 DEF PReturn, GotoPlace, PortalInv, PortalTypeOK
  <2>2. ASSUME NEW u \in Thread, place[u] \in {"full", "swap"}
        PROVE  list[log_index[u]] # NoLog /\ next_free'[list[log_index[u]]] >= Cap
    <3>1. list[log_index[u]] # NoLog /\ LoggerFull(list[log_index[u]])
      BY <2>2 DEF PortalInv, CallsFollow
    <3>2. list[log_index[u]] \in Log /\ log_index[u] \in Slot
      BY <3>1, <1>7 DEF PortalInv, PortalTypeOK
    <3>3. QED
      BY <3>1, <3>2, <1>4
  <2>3. CASE Fits(next_free[l], n)
    <3>1. place'[t] = "idle"
      BY <2>3, <1>6 DEF PReturn, GotoPlace, PortalInv, PortalTypeOK
    <3>2. QED
      BY <3>1, <2>1, <2>2, <1>1 DEF PortalInv, CallsFollow, LoggerFull
  <2>4. CASE ~ Fits(next_free[l], n)
    <3>1. place'[t] = fails /\ log_index' = log_index
      BY <2>4, <1>6 DEF GotoPlace, PortalInv, PortalTypeOK
    <3>2. fails = "full" =>
            /\ log_index[t] <= current_logger /\ log_index[t] < next_logger
            /\ list[log_index[t]] # NoLog /\ next_free'[list[log_index[t]]] >= Cap
      BY <2>4, <1>1, <1>5 DEF PortalInv, CallsFollow, LoggerFull
    <3>3. QED
      BY <3>1, <3>2, <2>1, <2>2, <1>1 DEF PortalInv, CallsFollow, LoggerFull
  <2>5. QED
    BY <2>3, <2>4
<1>12. PortalInUse'
  <2>1. CASE Fits(next_free[l], n)
    BY <2>1, <1>2, <1>6 DEF PReturn, GotoPlace, PortalInv, PortalTypeOK, PortalInUse
  <2>2. CASE ~ Fits(next_free[l], n)
    BY <2>2, <1>2, <1>6 DEF GotoPlace, PortalInv, PortalTypeOK, PortalInUse
  <2>3. QED
    BY <2>1, <2>2
<1>13. QED
  BY <1>2, <1>8, <1>9, <1>10, <1>11, <1>12 DEF PortalInv

(* An allocate that follows the NULL of an empty slot. *)
LEMMA CrashInv ==
  ASSUME PortalInv, NEW t \in Thread, place[t] # "idle", Crash(t), portal' = portal
  PROVE  PortalInv'
<1>1. /\ list' = list /\ current_logger' = current_logger /\ next_logger' = next_logger
      /\ use' = use /\ next_free' = next_free /\ pc' = pc
      /\ log_index' = log_index /\ want' = want
      /\ place' = [place EXCEPT ![t] = "crashed"]
  BY DEF Crash, GotoPlace, portal, vars, header, local
<1>2. PortalTypeOK'
  BY <1>1 DEF PortalInv, PortalTypeOK
<1>3. ListFilled' /\ (\A i \in 0..current_logger-1 : list[i] # NoLog /\ LoggerFull(list[i]))'
  BY <1>1 DEF PortalInv, ListFilled, LoggerFull
<1>4. CallsFollow' /\ PortalInUse'
  BY <1>1 DEF PortalInv, PortalTypeOK, CallsFollow, PortalInUse, LoggerFull
<1>5. QED
  BY <1>2, <1>3, <1>4 DEF PortalInv

(* The allocates from the logger at log_index and from the next. *)
LEMMA AllocFromInv ==
  ASSUME LogInv, PortalInv, NEW t \in Thread, FirstAlloc(t) \/ SecondAlloc(t)
  PROVE  LogInv' /\ PortalInv'
<1> DEFINE i == IF place[t] = "alloc" THEN log_index[t] ELSE log_index[t] + 1
<1>1. i \in Slot /\ i <= current_logger /\ place[t] \in {"alloc", "retry"}
  BY PortalAssumption DEF FirstAlloc, SecondAlloc, PortalInv, PortalTypeOK, CallsFollow, Slot
<1>2. PICK fails \in {"full", "start"} :
        /\ AllocFrom(t, i, fails)
        /\ fails = "full" => i = log_index[t] /\ place[t] = "alloc"
  BY DEF FirstAlloc, SecondAlloc
<1>3. CASE list[i] = NoLog
  <2>1. Crash(t) /\ portal' = portal
    BY <1>2, <1>3 DEF AllocFrom
  <2>2. LogInv'
    BY <2>1, NextInv DEF Crash
  <2>3. QED
    BY <1>1, <2>1, <2>2, CrashInv
<1>4. CASE list[i] # NoLog
  <2>1. LoggerAlloc(t, list[i], fails) /\ portal' = portal
    BY <1>2, <1>4 DEF AllocFrom
  <2>2. QED
    BY <1>1, <1>2, <1>4, <2>1, LoggerAllocInv
<1>5. QED
  BY <1>3, <1>4

(* The test that the logger is full and another is there. *)
LEMMA CheckFullInv ==
  ASSUME PortalInv, NEW t \in Thread, CheckFull(t)
  PROVE  PortalInv'
<1>1. /\ list' = list /\ current_logger' = current_logger /\ next_logger' = next_logger
      /\ use' = use /\ next_free' = next_free /\ pc' = pc /\ place[t] = "full"
  BY DEF CheckFull, portal, vars, header, local
<1>2. ListFilled' /\ (\A i \in 0..current_logger-1 : list[i] # NoLog /\ LoggerFull(list[i]))'
  BY <1>1 DEF PortalInv, ListFilled, LoggerFull
<1>3. CASE HasNextLogger(log_index[t]) /\ GotoPlace(t, "swap") /\ UNCHANGED <<log_index, want>>
  <2>1. PortalTypeOK'
    BY <1>1, <1>3 DEF PortalInv, PortalTypeOK, GotoPlace
  <2>2. CallsFollow' /\ PortalInUse'
    BY <1>1, <1>3 DEF PortalInv, PortalTypeOK, CallsFollow, PortalInUse, LoggerFull,
                      GotoPlace, HasNextLogger
  <2>3. QED
    BY <1>2, <2>1, <2>2 DEF PortalInv
<1>4. CASE PReturn(t)
  <2>1. PortalTypeOK'
    BY <1>1, <1>4, PReturnType DEF PortalInv, PortalTypeOK
  <2>2. CallsFollow' /\ PortalInUse'
    BY <1>1, <1>4 DEF PortalInv, PortalTypeOK, CallsFollow, PortalInUse, LoggerFull,
                      GotoPlace, PReturn
  <2>3. QED
    BY <1>2, <2>1, <2>2 DEF PortalInv
<1>5. QED
  BY <1>3, <1>4 DEF CheckFull

(* The swap of the current logger: the one left behind is full. *)
LEMMA SwapCurrentInv ==
  ASSUME PortalInv, NEW t \in Thread, SwapCurrent(t)
  PROVE  PortalInv'
<1> USE PortalAssumption
<1> DEFINE i == log_index[t]
<1>1. /\ list' = list /\ next_logger' = next_logger
      /\ use' = use /\ next_free' = next_free /\ pc' = pc
      /\ log_index' = log_index /\ want' = want /\ place[t] = "swap"
  BY DEF SwapCurrent, vars, header, local
<1>2. /\ i + 1 < next_logger
      /\ list[i] # NoLog /\ LoggerFull(list[i])
      /\ current_logger \in Nat /\ i \in Slot /\ next_logger \in 0..ListSize+1
  BY <1>1 DEF PortalInv, PortalTypeOK, CallsFollow, Slot
<1>3. CASE IsCurrent(i)
  <2>1. /\ current_logger = i /\ current_logger' = current_logger + 1
        /\ place' = [place EXCEPT ![t] = "retry"]
    BY <1>3 DEF SwapCurrent, IsCurrent, GotoPlace
  <2>2. PortalTypeOK'
    BY <1>1, <1>2, <2>1 DEF PortalInv, PortalTypeOK, Slot
  <2>3. ListFilled'
    BY <1>1, <1>2, <2>1 DEF PortalInv, ListFilled
  <2>4. (\A j \in 0..current_logger-1 : list[j] # NoLog /\ LoggerFull(list[j]))'
    BY <1>1, <1>2, <2>1 DEF PortalInv, LoggerFull
  <2>5. CallsFollow'
    BY <1>1, <1>2, <2>1 DEF PortalInv, PortalTypeOK, CallsFollow, LoggerFull, Slot
  <2>6. PortalInUse'
    BY <1>1, <2>1 DEF PortalInv, PortalTypeOK, PortalInUse
  <2>7. QED
    BY <2>2, <2>3, <2>4, <2>5, <2>6 DEF PortalInv
<1>4. CASE ~ IsCurrent(i)
  <2>1. current_logger' = current_logger /\ place' = [place EXCEPT ![t] = "start"]
    BY <1>4 DEF SwapCurrent, GotoPlace
  <2>2. PortalTypeOK'
    BY <1>1, <2>1 DEF PortalInv, PortalTypeOK
  <2>3. ListFilled' /\ (\A j \in 0..current_logger-1 : list[j] # NoLog /\ LoggerFull(list[j]))'
    BY <1>1, <2>1 DEF PortalInv, ListFilled, LoggerFull
  <2>4. CallsFollow' /\ PortalInUse'
    BY <1>1, <2>1 DEF PortalInv, PortalTypeOK, CallsFollow, PortalInUse, LoggerFull
  <2>5. QED
    BY <2>2, <2>3, <2>4 DEF PortalInv
<1>5. QED
  BY <1>3, <1>4

(* Every step keeps both invariants. *)
LEMMA PNextInv ==
  ASSUME LogInv, PortalInv, [PNext]_pvars
  PROVE  LogInv' /\ PortalInv'
<1>1. ASSUME [Next]_vars, UNCHANGED <<portal, plocal>>
      PROVE  LogInv' /\ PortalInv'
  BY <1>1, NextInv, LoggerStepInv
<1>2. ASSUME NEW l \in Log, AddLogger(l)
      PROVE  LogInv' /\ PortalInv'
  <2>1. UNCHANGED vars
    BY <1>2 DEF AddLogger
  <2>2. QED
    BY <1>2, <2>1, NextInv, AddLoggerInv
<1>3. ASSUME NEW t \in Thread, NEW n \in use.sizes, NEW raw \in BOOLEAN, PortalAlloc(t, n, raw)
      PROVE  LogInv' /\ PortalInv'
  <2>1. /\ use \in PortalUses /\ pc[t] = "idle" /\ t \in use.users
        /\ Enter(t, [size |-> n, raw |-> raw])
        /\ portal' = portal /\ next_free' = next_free /\ pc' = pc /\ use' = use
        /\ calls' = calls + 1
        /\ UNCHANGED <<header, mem, use, local, ghost>>
    BY <1>3 DEF PortalAlloc, Begin, header, local
  <2>2. [size |-> n, raw |-> raw] \in Want
    <3>1. n \in 0..Cap
      BY <2>1, PortalUseFacts, LogAssumption
    <3>2. QED
      BY <3>1 DEF Want
  <2>3. LogInv'
    BY <2>1 DEF LogInv, TypeOK, EntriesDisjoint, OnePrimary, CallsInUse, header, local, ghost
  <2>4. QED
    BY <2>1, <2>2, <2>3, EnterInv
<1>4. ASSUME NEW t \in Thread, PSteps(t)
      PROVE  LogInv' /\ PortalInv'
  <2>1. CASE Start(t)
    <3>1. /\ use \in PortalUses /\ pc[t] = "idle" /\ t \in use.users
          /\ want[t].size \in use.sizes /\ want[t] \in Want
      BY <2>1 DEF Start, PortalInv, PortalTypeOK, PortalInUse
    <3>2. /\ Enter(t, want[t]) /\ UNCHANGED vars
          /\ portal' = portal /\ next_free' = next_free /\ pc' = pc /\ use' = use
      BY <2>1 DEF Start, vars, header, local
    <3>3. QED
      BY <3>1, <3>2, NextInv, EnterInv
  <2>2. CASE FirstAlloc(t) \/ SecondAlloc(t)
    BY <2>2, AllocFromInv
  <2>3. CASE CheckFull(t) \/ SwapCurrent(t)
    <3>1. UNCHANGED vars
      BY <2>3 DEF CheckFull, SwapCurrent
    <3>2. QED
      BY <2>3, <3>1, NextInv, CheckFullInv, SwapCurrentInv
  <2>4. QED
    BY <1>4, <2>1, <2>2, <2>3 DEF PSteps
<1>5. QED
  BY <1>1, <1>2, <1>3, <1>4 DEF PNext, pvars

(* PortalInv holds always: the loggers before the current one are full,    *)
(* and a thread is at the current one or behind it.                        *)
THEOREM PortalInvariant == PSpec => [](LogInv /\ PortalInv)
<1>1. LogInv /\ PortalInv /\ [PNext]_pvars => LogInv' /\ PortalInv'
  BY PNextInv
<1>2. QED
  BY PInitInv, <1>1, PTL DEF PSpec

-----------------------------------------------------------------------------
(* An allocate from the list: it gives an entry of the current logger, or  *)
(* none.                                                                   *)
LEMMA AllocFromGives ==
  ASSUME LogInv, PortalInv, NEW t \in Thread, FirstAlloc(t) \/ SecondAlloc(t)
  PROVE  \/ given' = given /\ place'[t] # "idle"
         \/ /\ Give(t, list[current_logger], want[t].size)
            /\ list[current_logger] \in Log
            /\ want[t].size \in 1..Cap
<1> USE LogAssumption
<1> DEFINE i == IF place[t] = "alloc" THEN log_index[t] ELSE log_index[t] + 1
           n == want[t].size
<1>1. i \in Slot /\ i <= current_logger /\ place[t] \in {"alloc", "retry"}
  BY PortalAssumption DEF FirstAlloc, SecondAlloc, PortalInv, PortalTypeOK, CallsFollow, Slot
<1>2. PICK fails \in {"full", "start"} : AllocFrom(t, i, fails)
  BY DEF FirstAlloc, SecondAlloc
<1>3. CASE list[i] = NoLog
  <2>1. Crash(t)
    BY <1>2, <1>3 DEF AllocFrom
  <2>2. QED
    BY <2>1 DEF Crash, GotoPlace, vars, ghost, PortalInv, PortalTypeOK
<1>4. CASE list[i] # NoLog
  <2>1. LoggerAlloc(t, list[i], fails)
    BY <1>2, <1>4 DEF AllocFrom
  <2>2. /\ list[i] \in Log /\ n \in 1..Cap
        /\ ~ Fits(next_free[list[i]], n) => given' = given
        /\ Fits(next_free[list[i]], n) => Give(t, list[i], n)
    BY <1>1, <1>4, <2>1, LoggerAllocFacts
  <2>3. CASE Fits(next_free[list[i]], n)
    <3>1. ~ LoggerFull(list[i])
      BY <2>2, <2>3 DEF Fits, LoggerFull, LogInv, TypeOK
    <3>2. i = current_logger
      BY <1>1, <3>1 DEF PortalInv, PortalTypeOK, Slot
    <3>3. QED
      BY <2>2, <2>3, <3>2
  <2>4. CASE ~ Fits(next_free[list[i]], n)
    <3>1. GotoPlace(t, fails)
      BY <2>1, <2>4 DEF LoggerAlloc
    <3>2. place'[t] = fails
      BY <3>1 DEF GotoPlace, PortalInv, PortalTypeOK
    <3>3. QED
      BY <2>2, <2>4, <3>2
  <2>5. QED
    BY <2>3, <2>4
<1>5. QED
  BY <1>3, <1>4

(* The steps that give out no entry. *)
LEMMA GivesNothing ==
  ASSUME LogInv, PortalInv, PNext, use \in PortalUses,
         \A t \in Thread : ~ FirstAlloc(t) /\ ~ SecondAlloc(t)
  PROVE  given' = given
<1>1. CASE Next
  BY <1>1, LoggerStepFrame
<1>2. CASE \E l \in Log : AddLogger(l)
  BY <1>2 DEF AddLogger, vars, ghost
<1>3. CASE \E t \in Thread, n \in use.sizes, raw \in BOOLEAN : PortalAlloc(t, n, raw)
  BY <1>3 DEF PortalAlloc, ghost
<1>4. CASE \E t \in Thread : Start(t) \/ CheckFull(t) \/ SwapCurrent(t)
  BY <1>4 DEF Start, CheckFull, SwapCurrent, vars, ghost
<1>5. QED
  BY <1>1, <1>2, <1>3, <1>4 DEF PNext, PSteps

(* OneLogAtATime holds of every step: entries come from the current logger *)
(* only, however late a thread is.                                         *)
THEOREM EntriesFromCurrent == PSpec => OneLogAtATime
<1> DEFINE Step ==
      \A l \in Log :
        use \in PortalUses /\ given'[l] # given[l] => l = list[current_logger]
<1>1. LogInv /\ PortalInv /\ [PNext]_pvars => [Step]_pvars
  <2> SUFFICES ASSUME LogInv, PortalInv, PNext, use \in PortalUses,
                      NEW l \in Log, given'[l] # given[l]
               PROVE  l = list[current_logger]
    OBVIOUS
  <2>1. PICK t \in Thread : FirstAlloc(t) \/ SecondAlloc(t)
    BY GivesNothing
  <2>2. Give(t, list[current_logger], want[t].size)
    BY <2>1, AllocFromGives
  <2>3. QED
    BY <2>2 DEF Give, LogInv, TypeOK
<1>2. PSpec => [](LogInv /\ PortalInv)
  BY PortalInvariant
<1> HIDE DEF Step
<1>3. PSpec => [][Step]_pvars
  BY <1>1, <1>2, PTL DEF PSpec
<1>4. QED
  BY <1>3 DEF Step, OneLogAtATime

(* An entry given out is a new one. *)
LEMMA GivesNew ==
  ASSUME LogInv, NEW t \in Thread, NEW l \in Log, NEW n \in 1..Cap,
         Give(t, l, n), given' = given
  PROVE  FALSE
<1> DEFINE e == [addr |-> next_free[l], len |-> n]
<1>1. e \in given[l]
  BY DEF Give, LogInv, TypeOK
<1>2. e.addr + e.len <= next_free[l]
  BY <1>1 DEF LogInv, EntriesDisjoint
<1>3. QED
  BY <1>2, LogAssumption DEF LogInv, TypeOK

(* Which loggers are in the list. *)
LEMMA AttachedFull ==
  ASSUME PortalInv, NEW m \in Nat, next_logger <= m,
         \A i \in Slot : i < m /\ i < next_logger /\ list[i] # NoLog => LoggerFull(list[i])
  PROVE  \A l \in Attached : LoggerFull(l)
BY PortalAssumption DEF PortalInv, PortalTypeOK, ListFilled, Attached, Slot

(* FailsOnlyWhenAllFull holds of every step: a call returns NULL only when *)
(* each logger in the list is full.                                        *)
THEOREM FailsWhenAllFull == PSpec => FailsOnlyWhenAllFull
<1> DEFINE Step == \A t \in Thread : Fails(t) => \A l \in Attached : LoggerFull(l)
<1>1. LogInv /\ PortalInv /\ [PNext]_pvars => [Step]_pvars
  <2> SUFFICES ASSUME LogInv, PortalInv, PNext, NEW t \in Thread, Fails(t)
               PROVE  \A l \in Attached : LoggerFull(l)
    OBVIOUS
  <2>1. /\ place[t] # "idle" /\ place'[t] = "idle" /\ given' = given
        /\ use \in PortalUses
    BY DEF Fails, PortalInv, PortalInUse
  <2>2. PICK u \in Thread : PSteps(u)
    <3>1. place' # place
      BY <2>1
    <3>2. ~ (\E l \in Log : AddLogger(l)) /\ ~ UNCHANGED <<portal, plocal>>
      BY <3>1 DEF AddLogger, plocal
    <3>3. ~ (\E v \in Thread, n \in use.sizes, raw \in BOOLEAN : PortalAlloc(v, n, raw))
      <4>1. ASSUME NEW v \in Thread, NEW w, place[v] = "idle", Enter(v, w)
            PROVE  place'[t] # "idle"
        BY <2>1, <4>1 DEF Enter, PReturn, GotoPlace, PortalInv, PortalTypeOK
      <4>2. QED
        BY <2>1, <4>1 DEF PortalAlloc
    <3>4. QED
      BY <3>2, <3>3 DEF PNext
  <2>3. u = t
    BY <2>1, <2>2 DEF PSteps, Start, FirstAlloc, SecondAlloc, CheckFull, SwapCurrent, Enter,
       AllocFrom, LoggerAlloc, Crash, PReturn, GotoPlace, PortalInv, PortalTypeOK
  <2>4. ~ SwapCurrent(t)
    BY <2>1 DEF SwapCurrent, GotoPlace, PortalInv, PortalTypeOK
  <2>5. ~ FirstAlloc(t) /\ ~ SecondAlloc(t)
    <3>1. SUFFICES ASSUME FirstAlloc(t) \/ SecondAlloc(t) PROVE FALSE
      OBVIOUS
    <3>2. /\ Give(t, list[current_logger], want[t].size)
          /\ list[current_logger] \in Log
          /\ want[t].size \in 1..Cap
      BY <2>1, <3>1, AllocFromGives
    <3>3. QED
      BY <2>1, <3>1, <3>2, GivesNew
  <2>6. CASE Start(t)
    <3>1. next_logger <= current_logger
      BY <2>1, <2>6 DEF Start, Enter, GotoPlace, PortalInv, PortalTypeOK, Slot
    <3>2. QED
      BY <3>1, AttachedFull DEF PortalInv, PortalTypeOK, Slot
  <2>7. CASE CheckFull(t)
    <3>1. LoggerFull(list[log_index[t]]) /\ log_index[t] <= current_logger
      BY <2>7 DEF CheckFull, PortalInv, CallsFollow
    <3>2. next_logger <= log_index[t] + 1
      BY <2>1, <2>7, <3>1 DEF CheckFull, HasNextLogger, GotoPlace, PortalInv, PortalTypeOK, Slot
    <3>3. \A i \in Slot : i < log_index[t] + 1 => i = log_index[t] \/ i \in 0..current_logger-1
      BY <3>1 DEF PortalInv, PortalTypeOK, Slot
    <3>4. QED
      BY <3>1, <3>2, <3>3, AttachedFull DEF PortalInv, PortalTypeOK, Slot
  <2>8. QED
    BY <2>2, <2>3, <2>4, <2>5, <2>6, <2>7 DEF PSteps
<1>2. PSpec => [](LogInv /\ PortalInv)
  BY PortalInvariant
<1> HIDE DEF Step
<1>3. PSpec => [][Step]_pvars
  BY <1>1, <1>2, PTL DEF PSpec
<1>4. QED
  BY <1>3 DEF Step, FailsOnlyWhenAllFull

-----------------------------------------------------------------------------
(* The states of an iterator. *)
IteratorState == [current : Nat, free : Nat, circular : BOOLEAN, notfirst : BOOLEAN]

(* A step of an iterator leaves it a state of an iterator. *)
LEMMA IteratorTypes ==
  ASSUME TypeOK, NEW l \in Log
  PROVE  /\ CreateIterator(l) \in IteratorState
         /\ \A x \in IteratorState : HasNext(l, x) =>
              /\ x.current \in Unit
              /\ mem[l][x.current].len \in Nat
              /\ NextEntry(l, x) \in Nat
              /\ IteratorNext(l, x) \in IteratorState
<1> USE LogAssumption
<1>1. Wrapped(l) \in BOOLEAN /\ next_free[l] \in Nat
  BY DEF Wrapped, TypeOK
<1>2. CreateIterator(l) \in IteratorState
  BY <1>1 DEF CreateIterator, IteratorState
<1>3. ASSUME NEW x \in IteratorState, HasNext(l, x)
      PROVE  /\ x.current \in Unit
             /\ mem[l][x.current].len \in Nat
             /\ NextEntry(l, x) \in Nat
             /\ IteratorNext(l, x) \in IteratorState
  <2>1. x.current \in Unit
    BY <1>3 DEF HasNext, IteratorState, Unit
  <2>2. mem[l][x.current] \in [len : 0..Cap, valid : BOOLEAN, pass : Nat]
    BY <2>1 DEF TypeOK
  <2>3. mem[l][x.current].len \in Nat
    BY <2>2
  <2>4. NextEntry(l, x) \in Nat
    BY <2>1, <2>3 DEF NextEntry, Unit
  <2>5. GoesOn(NextEntry(l, x)) \in Nat
    BY <2>4 DEF GoesOn
  <2>6. IteratorNext(l, x) \in IteratorState
    BY <2>4, <2>5 DEF IteratorNext, IteratorState
  <2> QED BY <2>1, <2>3, <2>4, <2>6
<1> QED BY <1>2, <1>3

(* An iterator takes one step after the other. *)
IsIteration(l, it) ==
  /\ it[0] = CreateIterator(l)
  /\ \A k \in 1..Cap+1 :
       it[k] = IF HasNext(l, it[k-1]) THEN IteratorNext(l, it[k-1]) ELSE it[k-1]
  /\ \A k \in 0..Cap+1 : it[k] \in IteratorState

(* The recursion of Iterators has a solution: each is a step of the one    *)
(* before.                                                                 *)
LEMMA IteratorsIterate ==
  ASSUME TypeOK, NEW l \in Log
  PROVE  IsIteration(l, Iterators(l))
<1> USE LogAssumption
<1> DEFINE N == Cap + 1
           c == CreateIterator(l)
           Step(x) == IF HasNext(l, x) THEN IteratorNext(l, x) ELSE x
           F(f) == [k \in 0..N |-> IF k = 0 THEN c ELSE Step(f[k-1])]
           g == [k \in Nat |-> [x \in IteratorState |-> Step(x)]]
           it == Iterators(l)
<1>1. \A x \in IteratorState : Step(x) \in IteratorState
  BY IteratorTypes
<1>2. c \in IteratorState
  BY IteratorTypes
<1>3. it = CHOOSE f : f = F(f)
  BY DEF Iterators
<1>4. \E f : f = F(f)
  <2>1. g \in [Nat -> [IteratorState -> IteratorState]]
    BY <1>1
  <2> HIDE DEF g, c
  <2>2. PICK f \in [0..N -> IteratorState] : IsIterated(f, c, g, N)
    <3>1. N \in Nat
      OBVIOUS
    <3> HIDE DEF N
    <3> QED BY <1>2, <2>1, <3>1, Iterated
  <2> HIDE DEF Step
  <2>3. \A k \in 1..N : g[k][f[k-1]] = Step(f[k-1])
    <3>1. ASSUME NEW k \in 1..N PROVE g[k][f[k-1]] = Step(f[k-1])
      <4>1. f[k-1] \in IteratorState /\ k \in Nat
        OBVIOUS
      <4> QED BY <4>1 DEF g
    <3> QED BY <3>1
  <2>4. f = F(f)
    BY <2>2, <2>3 DEF IsIterated
  <2> QED BY <2>4
<1> HIDE DEF it, Step, c
<1>5. it = F(it)
  BY <1>3, <1>4
<1>6. it[0] = c /\ \A k \in 1..N : it[k] = Step(it[k-1])
  BY <1>5
<1>7. \A k \in 0..N : it[k] \in IteratorState
  <2> DEFINE Bad == {k \in Nat : k <= N /\ it[k] \notin IteratorState}
  <2> SUFFICES ASSUME Bad # {} PROVE FALSE
    OBVIOUS
  <2>1. PICK k \in Bad : \A j \in Bad : k <= j
    BY LeastNatural
  <2>2. k # 0
    BY <1>2, <1>6
  <2>3. k - 1 \in Nat /\ k - 1 <= N /\ k \in 1..N /\ k - 1 \notin Bad
    BY <2>1, <2>2
  <2> QED BY <2>1, <2>3, <1>1, <1>6
<1> QED BY <1>6, <1>7 DEF IsIteration, it, Step, c

(* m entries are read out. *)
ReadsEntries(l, it, m) ==
  /\ m \in 0..Cap+1
  /\ ReadOut(l) = [k \in 1..m |-> it[k-1].current]
  /\ \A j \in 0..m-1 : HasNext(l, it[j]) /\ it[j+1] = IteratorNext(l, it[j])
  /\ m <= Cap => ~ HasNext(l, it[m])

(* The iterator returns entries until it ends, or as many as there are     *)
(* units and one more.                                                     *)
LEMMA ReadOutEnds ==
  ASSUME TypeOK, NEW l \in Log
  PROVE  \E m : ReadsEntries(l, Iterators(l), m)
<1> USE LogAssumption
<1> DEFINE it == Iterators(l)
           Stops == {j \in Nat : j = Cap + 1 \/ (j <= Cap /\ ~ HasNext(l, it[j]))}
           more == {k \in 1..Cap+1 : \A j \in 0..k-1 : HasNext(l, it[j])}
<1>1. ReadOut(l) = [k \in more |-> it[k-1].current]
  BY DEF ReadOut
<1>2. IsIteration(l, it)
  BY IteratorsIterate
<1> HIDE DEF it
<1>3. Cap + 1 \in Stops
  OBVIOUS
<1>4. PICK m \in Stops : \A j \in Stops : m <= j
  BY <1>3, LeastNatural
<1>5. m \in 0..Cap+1
  BY <1>3, <1>4
<1>6. \A j \in 0..m-1 : HasNext(l, it[j])
  BY <1>4, <1>5
<1>7. more = 1..m
  <2>1. \A k \in more : k <= m
    BY <1>4, <1>5
  <2> QED BY <2>1, <1>5, <1>6
<1>8. \A j \in 0..m-1 : it[j+1] = IteratorNext(l, it[j])
  <2>1. ASSUME NEW j \in 0..m-1 PROVE it[j+1] = IteratorNext(l, it[j])
    <3>1. j + 1 \in 1..Cap+1 /\ j + 1 - 1 = j /\ HasNext(l, it[j])
      BY <1>5, <1>6
    <3> QED BY <3>1, <1>2 DEF IsIteration
  <2> QED BY <2>1
<1>9. m <= Cap => ~ HasNext(l, it[m])
  BY <1>4
<1>10. ReadsEntries(l, it, m)
  BY <1>1, <1>5, <1>6, <1>7, <1>8, <1>9 DEF ReadsEntries
<1> QED BY <1>10 DEF it
-----------------------------------------------------------------------------
(* What is needed to read the logs.                                        *)

(* The entry of a thread that has not completed it. *)
Fills(t, l) == pc[t] \in {"header", "open"} /\ log[t] = l

(* The entries given out lie side by side from the start of the buffer to  *)
(* next_free, or to where some entry did not fit any more.                 *)
LastGiven(l, e) ==
  /\ next_free[l] > Cap
  /\ \E n \in use.sizes : e.addr + e.len + n > Cap
  /\ \A f \in given[l] : f.addr <= e.addr

Tiled(l) ==
  /\ given[l] = {} => next_free[l] = 0
  /\ given[l] # {} => \E e \in given[l] : e.addr = 0
  /\ \A e \in given[l] :
       /\ e.len \in use.sizes
       /\ \/ e.addr + e.len = next_free[l]
          \/ \E f \in given[l] : f.addr = e.addr + e.len
          \/ LastGiven(l, e)

(* A header that was written is that of an entry inside the buffer, and an *)
(* entry given out has a valid header or is being filled.                  *)
Headers(l) ==
  /\ \A a \in Unit :
       /\ mem[l][a].valid => mem[l][a].len > 0
       /\ mem[l][a].len > 0 => mem[l][a].len \in use.sizes /\ a + mem[l][a].len <= Cap
  /\ \A t \in Thread : Fills(t, l) /\ pc[t] = "open" => mem[l][log_entry[t]].len > 0
  /\ \A e \in given[l] : BeingFilled(l, e.addr) \/ mem[l][e.addr].valid

(* In the first pass the headers are those of the entries given out.       *)
FirstPass(l) ==
  pass[l] = 0 =>
    /\ \A t \in Thread : Fills(t, l) =>
         /\ [addr |-> log_entry[t], len |-> size[t]] \in given[l]
         /\ ~ mem[l][log_entry[t]].valid
         /\ pc[t] = "open" => mem[l][log_entry[t]].len = size[t]
         /\ \A u \in Thread : Fills(u, l) /\ log_entry[u] = log_entry[t] => u = t
    /\ \A a \in Unit : mem[l][a].valid =>
         [addr |-> a, len |-> mem[l][a].len] \in given[l]

(* The pass of the entry at a in a circular log.                           *)
PassOf(l, a) == IF a < next_free[l] THEN pass[l] ELSE pass[l] - 1

(* Entries that fill the buffer of a circular log are at multiples of      *)
(* their size, each with the header of its pass unless it is being filled. *)
Placed(l, n) ==
  /\ next_free[l] % n = 0
  /\ \A a \in Unit : mem[l][a].len > 0 => a % n = 0
  /\ \A t \in Thread : Fills(t, l) =>
       /\ log_entry[t] % n = 0
       /\ log_entry[t] < next_free[l] \/ pass[l] > 0
       /\ stamp[t] = PassOf(l, log_entry[t])
       /\ pc[t] = "open" => mem[l][log_entry[t]].pass = stamp[t]
       /\ \A u \in Thread : Fills(u, l) /\ log_entry[u] = log_entry[t] => u = t
  /\ \A a \in Unit :
       a % n = 0 /\ (a < next_free[l] \/ pass[l] > 0) =>
         \/ BeingFilled(l, a)
         \/ mem[l][a].valid /\ mem[l][a].pass = PassOf(l, a)

Round(l) ==
  use.circular /\ ~ lapped[l] =>
    \A n \in use.sizes : Cap % n = 0 => Placed(l, n)

LogRead(l) == Tiled(l) /\ Headers(l) /\ FirstPass(l) /\ Round(l)

(* What the calls know. *)
CallsRead ==
  /\ \A t \in Thread :
       /\ pc[t] \in {"header", "open", "primary", "mark", "wait", "add"} => size[t] \in use.sizes
       /\ pc[t] = "mark" => pass[log[t]] > 0
  /\ \A l \in Log :
       /\ "WRAPED" \in options[l] => pass[l] > 0
       /\ pass[l] > 0 => use.circular \/ use.resets

ReadInv ==
  /\ CallsRead
  /\ ~ use.raw => \A l \in Log : LogRead(l)

(* In a portal, the loggers after the current one are empty. *)
PortalRead ==
  use \in PortalUses =>
    \A l \in Log : given[l] # {} => \E i \in 0..current_logger : list[i] = l

-----------------------------------------------------------------------------
(* What an iterator that does not wrap needs: the header of an entry that  *)
(* is not being filled is its own, and where it expects a header there is  *)
(* one of an entry, or none.                                               *)
Legible(l) ==
  /\ \A e \in given[l] : ~ BeingFilled(l, e.addr) =>
       mem[l][e.addr].valid /\ mem[l][e.addr].len = e.len
  /\ \A a \in Unit :
       /\ mem[l][a].valid
       /\ a + mem[l][a].len <= next_free[l]
       /\ a = 0 \/ \E g \in given[l] : a = g.addr + g.len
       => \E e \in given[l] : e.addr = a /\ ~ BeingFilled(l, a)

Row(l) ==
  {f \in given[l] : \A g \in given[l] : g.addr <= f.addr => ~ BeingFilled(l, g.addr)}

(* After k entries the iterator has returned those before its place, and   *)
(* that is the end of the last of them.                                    *)
ReadTo(l, it, k) ==
  /\ ~ it[k].circular /\ it[k].free = next_free[l]
  /\ k <= it[k].current /\ it[k].current <= Cap
  /\ it[k].current = 0 \/ \E g \in Row(l) : it[k].current = g.addr + g.len
  /\ \A g \in given[l] : g.addr < it[k].current =>
       g \in Row(l) /\ \E j \in 0..k-1 : g.addr = it[j].current
  /\ \A j \in 0..k-1 :
       it[j].current < it[k].current /\ \E g \in Row(l) : g.addr = it[j].current

(* An entry given out lies in the buffer and below next_free, alone. *)
LEMMA EntryFacts ==
  ASSUME LogInv, NEW l \in Log, NEW e \in given[l]
  PROVE  /\ e.addr \in Nat /\ e.addr \in Unit /\ e.len \in Nat /\ e.len >= 1
         /\ e.addr + e.len <= Cap /\ e.addr + e.len <= next_free[l]
         /\ e = [addr |-> e.addr, len |-> e.len]
         /\ \A f \in given[l] : f.addr >= e.addr /\ f.addr < e.addr + e.len => f = e
<1> USE LogAssumption
<1>1. \A f \in given[l] : /\ f \in Entry /\ f.addr \in Nat /\ f.addr \in Unit
                          /\ f.len \in Nat /\ f.len >= 1
  <2>1. \A f \in Entry : f.addr \in Nat /\ f.addr \in Unit /\ f.len \in Nat /\ f.len >= 1
    BY DEF Entry, Unit
  <2> QED BY <2>1 DEF LogInv, TypeOK
<1>2. e.addr + e.len <= Cap /\ e.addr + e.len <= next_free[l]
  BY DEF LogInv, EntriesDisjoint
<1>3. e = [addr |-> e.addr, len |-> e.len]
  BY <1>1 DEF Entry
<1>4. ASSUME NEW f \in given[l], f.addr >= e.addr, f.addr < e.addr + e.len, f # e
      PROVE  FALSE
  <2>1. ~ Overlaps(e.addr, e.len, f.addr, f.len)
    BY <1>4 DEF LogInv, EntriesDisjoint
  <2> QED BY <2>1, <1>1, <1>4 DEF Overlaps
<1> QED BY <1>1, <1>2, <1>3, <1>4

(* At such a place there is a next entry if and only if one was given out  *)
(* there and no earlier one is being filled.                               *)
NextFollows(l, x) ==
  /\ HasNext(l, x) <=> \E e \in Row(l) : e.addr = x.current
  /\ \A e \in Row(l) : e.addr = x.current =>
       IteratorNext(l, x) = [x EXCEPT !.current = e.addr + e.len, !.notfirst = TRUE]

(* From such a place the iterator goes as the row does. *)
LEMMA NextInRow ==
  ASSUME LogInv, NEW l \in Log, Legible(l), NEW it, NEW k \in Nat, it[k] \in IteratorState,
         ReadTo(l, it, k)
  PROVE  NextFollows(l, it[k])
<1> USE LogAssumption
<1> DEFINE x == it[k]
           a == x.current
<1>1. a \in Nat /\ ~ x.circular /\ x.free = next_free[l] /\ next_free[l] \in Nat
  BY DEF ReadTo, IteratorState, LogInv, TypeOK
<1>2. ASSUME NEW e \in Row(l), e.addr = a
      PROVE  HasNext(l, x) /\ NextEntry(l, x) = e.addr + e.len
  <2>1. /\ e \in given[l] /\ ~ BeingFilled(l, e.addr)
        /\ mem[l][a].valid /\ mem[l][a].len = e.len
    <3>1. e \in given[l]
      BY DEF Row
    <3>2. e.addr <= e.addr
      BY <3>1, EntryFacts
    <3>3. ~ BeingFilled(l, e.addr)
      BY <3>1, <3>2 DEF Row
    <3> QED BY <3>1, <3>3, <1>2 DEF Legible
  <2>2. a < Cap /\ a + e.len <= next_free[l]
    BY <1>2, <2>1, EntryFacts
  <2> QED BY <1>1, <1>2, <2>1, <2>2 DEF HasNext, NextEntry, UpToFree
<1>3. ASSUME HasNext(l, x)
      PROVE  \E e \in Row(l) : e.addr = a
  <2>1. a \in Unit /\ mem[l][a].valid /\ a + mem[l][a].len <= next_free[l]
    BY <1>1, <1>3 DEF HasNext, NextEntry, UpToFree, Unit
  <2>2. a = 0 \/ \E g \in given[l] : a = g.addr + g.len
    BY DEF ReadTo, Row
  <2>3. PICK e \in given[l] : e.addr = a /\ ~ BeingFilled(l, a)
    BY <2>1, <2>2 DEF Legible
  <2>4. ASSUME NEW g \in given[l], g.addr <= e.addr PROVE ~ BeingFilled(l, g.addr)
    <3>1. g.addr \in Nat
      BY EntryFacts
    <3>2. CASE g.addr = a
      BY <3>2, <2>3
    <3>3. CASE g.addr < a
      <4>1. g \in Row(l)
        BY <3>3 DEF ReadTo
      <4> QED BY <4>1, <3>1 DEF Row
    <3> QED BY <3>1, <3>2, <3>3, <2>3, <2>4, <1>1
  <2> QED BY <2>3, <2>4 DEF Row
<1> QED BY <1>1, <1>2, <1>3 DEF IteratorNext, NextFollows

(* So it goes from entry to entry. *)
LEMMA ReadToNext ==
  ASSUME LogInv, NEW l \in Log, Legible(l), NEW it, NEW k \in Nat,
         it[k] \in IteratorState, it[k+1] = IteratorNext(l, it[k]), HasNext(l, it[k]),
         \A j \in 0..k : it[j].current \in Nat,
         ReadTo(l, it, k)
  PROVE  ReadTo(l, it, k + 1)
<1> USE LogAssumption
<1>0. NextFollows(l, it[k])
  BY NextInRow
<1>1. PICK e \in Row(l) : e.addr = it[k].current
  BY <1>0 DEF NextFollows
<1>2. it[k+1] = [it[k] EXCEPT !.current = e.addr + e.len, !.notfirst = TRUE]
  BY <1>0, <1>1 DEF NextFollows
<1>3. /\ it[k+1].current = e.addr + e.len
      /\ it[k+1].circular = it[k].circular /\ it[k+1].free = it[k].free
  BY <1>2 DEF IteratorState
<1>4. /\ e \in given[l] /\ e.addr \in Nat /\ e.len \in Nat /\ e.len >= 1
      /\ e.addr + e.len <= Cap
  <2>1. e \in given[l]
    BY DEF Row
  <2> QED BY <2>1, EntryFacts
<1>5. \A g \in given[l] : g.addr < it[k+1].current =>
         g \in Row(l) /\ \E j \in 0..k : g.addr = it[j].current
  <2>1. ASSUME NEW g \in given[l], g.addr < it[k+1].current
        PROVE  g \in Row(l) /\ \E j \in 0..k : g.addr = it[j].current
    <3>1. g.addr \in Nat
      BY EntryFacts
    <3>2. CASE g.addr < it[k].current
      BY <3>2 DEF ReadTo
    <3>3. CASE g.addr >= it[k].current
      <4>1. g = e
        BY <3>1, <3>3, <2>1, <1>1, <1>3, <1>4, EntryFacts
      <4> QED BY <4>1, <1>1
    <3> QED BY <3>1, <3>2, <3>3, <1>1, <1>4
  <2> QED BY <2>1
<1>6. \A j \in 0..k :
         it[j].current < it[k+1].current /\ \E g \in Row(l) : g.addr = it[j].current
  <2>1. ASSUME NEW j \in 0..k
        PROVE  it[j].current < it[k+1].current /\ \E g \in Row(l) : g.addr = it[j].current
    <3>1. CASE j = k
      BY <3>1, <1>1, <1>3, <1>4
    <3>2. CASE j # k
      <4>1. j \in 0..k-1
        BY <3>2
      <4>2. it[j].current < it[k].current /\ \E g \in Row(l) : g.addr = it[j].current
        BY <4>1 DEF ReadTo
      <4> QED BY <4>2, <1>1, <1>3, <1>4
    <3> QED BY <3>1, <3>2
  <2> QED BY <2>1
<1>7. k + 1 <= it[k+1].current
  BY <1>1, <1>3, <1>4 DEF ReadTo
<1>8. k + 1 - 1 = k
  OBVIOUS
<1> QED BY <1>1, <1>3, <1>4, <1>5, <1>6, <1>7, <1>8 DEF ReadTo

(* In the row all entries but the last have the next behind them. *)
LEMMA RowGoesOn ==
  ASSUME LogInv, NEW l \in Log, Tiled(l), NEW a \in Nat,
         a = 0 \/ \E g \in Row(l) : a = g.addr + g.len,
         NEW e \in Row(l), a <= e.addr
  PROVE  \E f \in Row(l) : f.addr = a
<1>1. e \in given[l] /\ e.addr \in Nat
  <2>1. e \in given[l]
    BY DEF Row
  <2> QED BY <2>1, EntryFacts
<1>2. \A f \in given[l] : f.addr \in Nat /\ (f.addr <= e.addr => f \in Row(l))
  <2>1. ASSUME NEW f \in given[l] PROVE f.addr \in Nat
    BY EntryFacts
  <2>2. ASSUME NEW f \in given[l], f.addr <= e.addr, NEW g \in given[l], g.addr <= f.addr
        PROVE  ~ BeingFilled(l, g.addr)
    <3>1. g.addr <= e.addr
      BY <2>1, <2>2, <1>1
    <3> QED BY <3>1 DEF Row
  <2> QED BY <2>1, <2>2 DEF Row
<1>3. CASE a = 0
  <2>1. PICK f \in given[l] : f.addr = 0
    BY <1>1 DEF Tiled
  <2> QED BY <2>1, <1>1, <1>2, <1>3
<1>4. ASSUME NEW g \in Row(l), a = g.addr + g.len
      PROVE  \E f \in Row(l) : f.addr = a
  <2>1. g \in given[l]
    BY DEF Row
  <2>2. g.addr \in Nat /\ g.len \in Nat /\ g.len >= 1
    BY <2>1, EntryFacts
  <2>3. CASE a = next_free[l]
    <3>1. e.len >= 1 /\ e.len \in Nat /\ e.addr + e.len <= next_free[l]
      BY <1>1, EntryFacts
    <3> QED BY <3>1, <2>3, <1>1
  <2>4. CASE \E f \in given[l] : f.addr = a
    BY <2>4, <1>2
  <2>5. CASE LastGiven(l, g)
    <3>1. e.addr <= g.addr
      BY <2>5, <1>1 DEF LastGiven
    <3> QED BY <3>1, <2>2, <1>1, <1>4
  <2> QED BY <2>1, <2>3, <2>4, <2>5, <1>4 DEF Tiled
<1> QED BY <1>3, <1>4

(* So the iterator returns the completed entries in a row, in order. *)
ReadsInOrder(l) ==
  /\ Addresses(ReadOut(l)) = CompletedInRow(l)
  /\ \A i, j \in DOMAIN ReadOut(l) : i < j => ReadOut(l)[i] < ReadOut(l)[j]

(* So an iterator that does not wrap returns the row, in the order of the  *)
(* addresses.                                                              *)
LEMMA ReadsTheRow ==
  ASSUME LogInv, NEW l \in Log, Tiled(l), ~ Wrapped(l), Legible(l)
  PROVE  ReadsInOrder(l)
<1> USE LogAssumption
<1>0. TypeOK
  BY DEF LogInv
<1> DEFINE it == Iterators(l)
           out == ReadOut(l)
<1>1. IsIteration(l, it)
  BY <1>0, IteratorsIterate
<1>2. PICK m : ReadsEntries(l, it, m)
  BY <1>0, ReadOutEnds
<1> HIDE DEF it, out
<1>3. m \in 0..Cap+1 /\ \A k \in 0..Cap+1 : it[k] \in IteratorState /\ it[k].current \in Nat
  BY <1>1, <1>2 DEF IsIteration, ReadsEntries, IteratorState
<1>4. \A k \in 0..m : ReadTo(l, it, k)
  <2> DEFINE Bad == {k \in Nat : k <= m /\ ~ ReadTo(l, it, k)}
  <2> SUFFICES ASSUME Bad # {} PROVE FALSE
    BY <1>3
  <2>1. PICK k \in Bad : \A j \in Bad : k <= j
    BY LeastNatural
  <2>2. ReadTo(l, it, 0)
    <3>1. it[0] = CreateIterator(l) /\ next_free[l] \in Nat
      BY <1>0, <1>1 DEF IsIteration, TypeOK
    <3>2. it[0].current = 0 /\ it[0].free = next_free[l] /\ ~ it[0].circular
      BY <3>1 DEF CreateIterator
    <3>3. \A g \in given[l] : ~ g.addr < 0
      <4>1. ASSUME NEW g \in given[l] PROVE ~ g.addr < 0
        <5>1. g.addr \in Nat
          BY EntryFacts
        <5> QED BY <5>1
      <4> QED BY <4>1
    <3> QED BY <3>2, <3>3 DEF ReadTo
  <2>3. CASE k = 0
    BY <2>1, <2>2, <2>3
  <2>4. CASE k # 0
    <3> DEFINE j == k - 1
    <3>1. j \in Nat /\ j <= m /\ j \notin Bad /\ j \in 0..m-1 /\ j + 1 = k
      BY <2>1, <2>4, <1>3
    <3>2. ReadTo(l, it, j) /\ HasNext(l, it[j]) /\ it[j+1] = IteratorNext(l, it[j])
      BY <3>1, <1>2 DEF ReadsEntries
    <3>3. it[j] \in IteratorState /\ \A i \in 0..j : it[i].current \in Nat
      BY <3>1, <1>3
    <3> HIDE DEF j
    <3>4. ReadTo(l, it, j + 1)
      BY <3>1, <3>2, <3>3, ReadToNext
    <3> QED BY <3>1, <3>4, <2>1
  <2> QED BY <2>3, <2>4
<1>5. ReadTo(l, it, m) /\ m <= Cap
  <2>1. ReadTo(l, it, m)
    BY <1>3, <1>4
  <2> QED BY <2>1, <1>3 DEF ReadTo
<1>6. ~ \E e \in Row(l) : e.addr = it[m].current
  <2>1. ~ HasNext(l, it[m])
    BY <1>2, <1>5 DEF ReadsEntries
  <2>2. it[m] \in IteratorState /\ m \in Nat
    BY <1>3
  <2>3. NextFollows(l, it[m])
    BY <1>5, <2>2, NextInRow
  <2> QED BY <2>1, <2>3 DEF NextFollows
<1>7. \A e \in Row(l) : e \in given[l] /\ e.addr < it[m].current
  <2>1. ASSUME NEW e \in Row(l) PROVE e \in given[l] /\ e.addr < it[m].current
    <3>1. e \in given[l]
      BY DEF Row
    <3>2. e.addr \in Nat /\ it[m].current \in Nat
      BY <3>1, <1>3, EntryFacts
    <3>3. ~ it[m].current <= e.addr
      <4>1. it[m].current = 0 \/ \E g \in Row(l) : it[m].current = g.addr + g.len
        BY <1>5 DEF ReadTo
      <4> QED BY <4>1, <3>2, <1>6, RowGoesOn
    <3> QED BY <3>1, <3>2, <3>3
  <2> QED BY <2>1
<1>8. /\ DOMAIN out = 1..m
      /\ \A k \in 1..m : out[k] = it[k-1].current /\ k - 1 \in 0..m-1
  BY <1>2, <1>3 DEF ReadsEntries, out
<1>9. Addresses(out) = CompletedInRow(l)
  <2>1. CompletedInRow(l) = {e.addr : e \in Row(l)}
    BY DEF CompletedInRow, Row
  <2>2. \A k \in 1..m : \E g \in Row(l) : g.addr = out[k]
    BY <1>5, <1>8 DEF ReadTo
  <2>3. ASSUME NEW e \in Row(l) PROVE \E k \in 1..m : e.addr = out[k]
    <3>1. PICK j \in 0..m-1 : e.addr = it[j].current
      BY <1>5, <1>7 DEF ReadTo
    <3>2. j + 1 \in 1..m /\ out[j+1] = it[j].current
      BY <1>3, <1>8
    <3> QED BY <3>1, <3>2
  <2>4. Addresses(out) = {out[k] : k \in 1..m}
    BY <1>8 DEF Addresses
  <2> QED BY <2>1, <2>2, <2>3, <2>4
<1>10. \A i, j \in DOMAIN out : i < j => out[i] < out[j]
  <2>1. ASSUME NEW i \in 1..m, NEW j \in 1..m, i < j PROVE out[i] < out[j]
    <3>1. ReadTo(l, it, j - 1) /\ i - 1 \in 0..j-1-1
      BY <2>1, <1>3, <1>4
    <3> QED BY <3>1, <1>8 DEF ReadTo
  <2> QED BY <2>1, <1>8
<1> QED BY <1>9, <1>10 DEF ReadsInOrder, out

(* In the first pass a header is of the entry given out there; with entries *)
(* of one size that are all complete, a header left behind from an earlier  *)
(* pass either is at an entry given out again or does not end below         *)
(* next_free.                                                               *)
LEMMA ReadableIsLegible ==
  ASSUME LogInv, ReadInv, NEW l \in Log, Readable(l)
  PROVE  Tiled(l) /\ ~ Wrapped(l) /\ Legible(l)
<1> USE LogAssumption
<1>0. TypeOK /\ next_free[l] \in Nat
  BY DEF LogInv, TypeOK
<1>1. ~ use.raw /\ ~ Wrapped(l) /\ LogRead(l)
  BY DEF Readable, ReadInv
<1>2. Tiled(l) /\ Headers(l) /\ FirstPass(l)
  BY <1>1 DEF LogRead
<1>m. \A a \in Unit : mem[l][a].len \in Nat
  <2>1. ASSUME NEW a \in Unit PROVE mem[l][a].len \in Nat
    <3>1. mem[l][a] \in [len : 0..Cap, valid : BOOLEAN, pass : Nat]
      BY <1>0 DEF TypeOK
    <3> QED BY <3>1
  <2> QED BY <2>1
<1>3. CASE pass[l] = 0
  <2>1. \A a \in Unit : mem[l][a].valid =>
          [addr |-> a, len |-> mem[l][a].len] \in given[l] /\ ~ BeingFilled(l, a)
    BY <1>2, <1>3 DEF FirstPass, BeingFilled, Fills
  <2>2. ASSUME NEW e \in given[l], ~ BeingFilled(l, e.addr)
        PROVE  mem[l][e.addr].valid /\ mem[l][e.addr].len = e.len
    <3>1. e.addr \in Unit /\ mem[l][e.addr].valid
      BY <1>2, <2>2, EntryFacts DEF Headers
    <3> DEFINE f == [addr |-> e.addr, len |-> mem[l][e.addr].len]
    <3>2. f \in given[l]
      BY <2>1, <3>1
    <3>3. f.addr >= e.addr /\ f.addr < e.addr + e.len
      BY EntryFacts
    <3>4. f = e
      BY <3>2, <3>3, EntryFacts
    <3>5. f.len = e.len
      BY <3>4
    <3> QED BY <3>1, <3>5
  <2>3. ASSUME NEW a \in Unit, mem[l][a].valid
        PROVE  \E e \in given[l] : e.addr = a /\ ~ BeingFilled(l, a)
    BY <2>1, <2>3
  <2> QED BY <1>1, <1>2, <2>2, <2>3 DEF Legible
<1>4. CASE Quiet /\ Cardinality(use.sizes) = 1
  <2>1. \A a : ~ BeingFilled(l, a)
    BY <1>4 DEF Quiet, BeingFilled
  <2>2. \A m, n \in use.sizes : m = n
    BY <1>0, <1>4, SoleSize
  <2>3. use.sizes \subseteq 1..Cap
    BY <1>0, UseFacts
  <2>4. ASSUME NEW e \in given[l]
        PROVE  mem[l][e.addr].valid /\ mem[l][e.addr].len = e.len
    <3>1. e.addr \in Unit /\ mem[l][e.addr].valid
      BY <1>2, <2>1, EntryFacts DEF Headers
    <3>2. mem[l][e.addr].len \in use.sizes /\ e.len \in use.sizes
      BY <1>2, <3>1, <1>m DEF Headers, Tiled
    <3> QED BY <3>1, <3>2, <2>2
  <2>5. ASSUME NEW a \in Unit, mem[l][a].valid, a + mem[l][a].len <= next_free[l],
               a = 0 \/ \E g \in given[l] : a = g.addr + g.len
        PROVE  \E e \in given[l] : e.addr = a
    <3> DEFINE n == mem[l][a].len
    <3>1. n \in use.sizes /\ n \in Nat /\ n >= 1 /\ a + n <= Cap /\ a \in Nat
      <4>1. n \in use.sizes /\ a + n <= Cap
        BY <1>2, <2>5, <1>m DEF Headers
      <4> QED BY <4>1, <2>3 DEF Unit
    <3> HIDE DEF n
    <3>2. CASE a = 0
      BY <3>1, <3>2, <2>5, <1>2, <1>0 DEF Tiled, n
    <3>3. ASSUME NEW g \in given[l], a = g.addr + g.len
          PROVE  \E e \in given[l] : e.addr = a
      <4>1. CASE a = next_free[l]
        BY <4>1, <3>1, <2>5, <1>0 DEF n
      <4>2. CASE LastGiven(l, g)
        <5>1. PICK k \in use.sizes : g.addr + g.len + k > Cap
          BY <4>2 DEF LastGiven
        <5>2. k = n
          BY <3>1, <2>2
        <5> QED BY <5>1, <5>2, <3>1, <3>3
      <4> QED BY <4>1, <4>2, <3>3, <1>2 DEF Tiled
    <3> QED BY <3>2, <3>3, <2>5
  <2> QED BY <1>1, <1>2, <2>1, <2>4, <2>5 DEF Legible
<1> QED BY <1>3, <1>4 DEF Readable

-----------------------------------------------------------------------------
(* A buffer that entries of size n fill, each with its header. *)
Filled(l, n) ==
  /\ n \in Nat /\ n >= 1 /\ Cap % n = 0
  /\ next_free[l] \in Nat /\ next_free[l] % n = 0 /\ next_free[l] + n < Cap
  /\ \A a \in Unit :
       /\ a % n = 0 => /\ mem[l][a].valid /\ mem[l][a].len = n
                       /\ mem[l][a].pass = PassOf(l, a)
       /\ mem[l][a].len > 0 => a % n = 0

(* A circular log that can be read out is such a buffer. *)
LEMMA ReadableIsFilled ==
  ASSUME LogInv, ReadInv, NEW l \in Log, ReadableRound(l)
  PROVE  \E n : Filled(l, n)
<1> USE LogAssumption
<1>0. TypeOK /\ next_free[l] \in Nat
  BY DEF LogInv, TypeOK
<1>1. Quiet /\ options[l] = {"CIRCULAR", "WRAPED"} /\ ~ lapped[l]
  BY DEF ReadableRound, Wrapped
<1>2. use.circular /\ pass[l] > 0
  BY <1>1 DEF ReadInv, CallsRead, LogInv, CallsInUse
<1>3. ~ use.raw /\ Cardinality(use.sizes) = 1 /\ use.sizes \subseteq 1..Cap
  BY <1>0, <1>2, UseFacts
<1>4. PICK n : n \in use.sizes
  <2>1. use.sizes # {}
    BY <1>3, FS_EmptySet
  <2> QED BY <2>1
<1>5. n \in Nat /\ n >= 1 /\ Cap % n = 0 /\ next_free[l] + n < Cap
  BY <1>3, <1>4 DEF ReadableRound
<1>6. Placed(l, n) /\ Headers(l)
  BY <1>1, <1>2, <1>3, <1>4, <1>5 DEF ReadInv, LogRead, Round
<1>7. \A a : ~ BeingFilled(l, a)
  BY <1>1 DEF Quiet, BeingFilled
<1>8. \A a \in Unit : mem[l][a].len > 0 => mem[l][a].len = n
  BY <1>0, <1>3, <1>4, <1>6, SoleSize DEF Headers
<1>9. \A a \in Unit : a % n = 0 => /\ mem[l][a].valid /\ mem[l][a].len = n
                                  /\ mem[l][a].pass = PassOf(l, a)
  <2>1. \A a \in Unit : a % n = 0 => mem[l][a].valid /\ mem[l][a].pass = PassOf(l, a)
    BY <1>2, <1>6, <1>7 DEF Placed
  <2> QED BY <2>1, <1>6, <1>8 DEF Headers
<1>10. Filled(l, n)
  BY <1>0, <1>5, <1>6, <1>9 DEF Filled, Placed
<1> QED BY <1>10

(* The places of entries of size n. *)
Place(n) == {a \in Unit : a % n = 0}

PlaceGaps(n) ==
  /\ 0 \in Place(n)
  /\ \A a \in Place(n) : /\ a \in Nat /\ a + n <= Cap
                         /\ a + n < Cap => a + n \in Place(n)
  /\ \A a, b \in Place(n) : a < b => a + n <= b

(* The places are a size apart, from the start of the buffer to its end. *)
LEMMA PlaceFacts ==
  ASSUME NEW n \in Nat, n >= 1, Cap % n = 0
  PROVE  PlaceGaps(n)
<1> USE LogAssumption
<1>1. 0 \in Place(n)
  BY MultipleZero DEF Place, Unit
<1>2. \A a \in Place(n) : a \in Nat /\ a < Cap /\ a % n = 0
  BY DEF Place, Unit
<1>3. ASSUME NEW a \in Place(n) PROVE a + n <= Cap
  <2>1. a \in Nat /\ Cap \in Nat /\ n > 0 /\ a < Cap /\ a % n = 0
    BY <1>2
  <2> QED BY <2>1, MultipleGap
<1>4. ASSUME NEW a \in Place(n), a + n < Cap PROVE a + n \in Place(n)
  <2>0. a \in Nat /\ n > 0 /\ a % n = 0
    BY <1>2
  <2>1. (a + n) % n = 0
    BY <2>0, MultipleNext
  <2> QED BY <2>1, <1>2, <1>4 DEF Place, Unit
<1>5. ASSUME NEW a \in Place(n), NEW b \in Place(n), a < b PROVE a + n <= b
  <2>1. a \in Nat /\ b \in Nat /\ n > 0 /\ a % n = 0 /\ b % n = 0
    BY <1>2
  <2> QED BY <2>1, <1>5, MultipleGap
<1> QED BY <1>1, <1>2, <1>3, <1>4, <1>5 DEF PlaceGaps

(* After k entries a wrapped iterator is at a place from next_free on, and *)
(* has returned those from next_free to it; or it has come to the start,   *)
(* and has returned those below it too.                                    *)
Returned(it, k, a) == \E j \in 0..k-1 : it[j].current = a

RoundTo(l, it, k, n) ==
  LET f == next_free[l]
      a == it[k].current
  IN  /\ it[k].circular /\ it[k].free = f
      /\ it[k].notfirst <=> k > 0
      /\ a \in Place(n)
      /\ \A j \in 0..k-1 : it[j].current \in Place(n)
      /\ \/ /\ k <= a - f /\ (k > 0 => a > f) /\ a >= f
            /\ \A b \in Place(n) : Returned(it, k, b) <=> f <= b /\ b < a
         \/ /\ k <= Cap - f + a /\ k > 0 /\ a <= f
            /\ \A b \in Place(n) : Returned(it, k, b) <=> f <= b \/ b < a

(* It goes on until it is back at next_free. *)
LEMMA NextInRound ==
  ASSUME LogInv, NEW l \in Log, NEW n, Filled(l, n), NEW it, NEW k \in Nat,
         it[k] \in IteratorState, RoundTo(l, it, k, n)
  PROVE  /\ HasNext(l, it[k]) <=> k = 0 \/ it[k].current # next_free[l]
         /\ NextEntry(l, it[k]) = it[k].current + n
<1> USE LogAssumption
<1> DEFINE x == it[k]
           a == x.current
<1>1. /\ x.circular /\ x.free = next_free[l] /\ (x.notfirst <=> k > 0)
      /\ a \in Place(n)
  BY DEF RoundTo
<1>2. a \in Unit /\ a \in Nat /\ a < Cap /\ mem[l][a].valid /\ mem[l][a].len = n
  BY <1>1 DEF Filled, Place, Unit
<1>3. NextEntry(l, x) = a + n
  BY <1>2 DEF NextEntry
<1>4. HasNext(l, x) <=> (a + n >= Cap \/ a # next_free[l] \/ k = 0)
  BY <1>1, <1>2, <1>3 DEF HasNext
<1> QED BY <1>2, <1>3, <1>4 DEF Filled

(* The place after a: the start comes after the last. *)
LEMMA RoundToNext ==
  ASSUME LogInv, NEW l \in Log, NEW n, Filled(l, n), NEW it, NEW k \in Nat,
         it[k] \in IteratorState, it[k+1] = IteratorNext(l, it[k]), HasNext(l, it[k]),
         RoundTo(l, it, k, n)
  PROVE  RoundTo(l, it, k + 1, n)
<1> USE LogAssumption
<1> DEFINE f == next_free[l]
           a == it[k].current
           b == it[k+1].current
<1>1. (k = 0 \/ a # f) /\ NextEntry(l, it[k]) = a + n
  BY NextInRound
<1>2. /\ it[k].circular /\ it[k].free = f /\ a \in Place(n)
      /\ \A j \in 0..k-1 : it[j].current \in Place(n)
  BY DEF RoundTo
<1>3. /\ it[k+1].circular /\ it[k+1].free = f /\ it[k+1].notfirst
      /\ b = GoesOn(a + n)
  BY <1>1, <1>2 DEF IteratorNext, IteratorState
<1>4. n \in Nat /\ n >= 1 /\ f \in Nat /\ f \in Place(n) /\ f + n < Cap /\ Cap \in Nat
  BY DEF Filled, Place, Unit
<1>5. PlaceGaps(n)
  BY PlaceFacts DEF Filled
<1>6. a \in Nat /\ a + n <= Cap /\ b \in Place(n) /\ b \in Nat
      /\ b = IF a + n = Cap THEN 0 ELSE a + n
  BY <1>2, <1>3, <1>4, <1>5 DEF PlaceGaps, GoesOn
<1>7. \A j \in 0..k : it[j].current \in Place(n)
  <2>1. \A j \in 0..k : j = k \/ j \in 0..k-1
    OBVIOUS
  <2> QED BY <2>1, <1>2
<1>8. \A c : Returned(it, k + 1, c) <=> Returned(it, k, c) \/ c = a
  <2>1. 0..k+1-1 = 0..k-1 \cup {k}
    OBVIOUS
  <2> QED BY <2>1 DEF Returned
<1>9. \A c \in Place(n) : c \in Nat /\ c + n <= Cap /\ (c < a + n <=> c < a \/ c = a)
                        /\ (c < f + n <=> c <= f)
  <2>1. ASSUME NEW c \in Place(n), NEW d \in Place(n)
        PROVE  c \in Nat /\ c + n <= Cap /\ (c < d + n <=> c < d \/ c = d)
    <3>1. c \in Nat /\ d \in Nat /\ c + n <= Cap /\ (d < c => d + n <= c)
      BY <1>5 DEF PlaceGaps
    <3> QED BY <3>1, <1>4
  <2>2. \A c \in Place(n) : c < f + n <=> c < f \/ c = f
    BY <2>1, <1>4
  <2> QED BY <2>1, <2>2, <1>2, <1>4
<1> HIDE DEF a, b, f
<1>10. \/ /\ k + 1 <= b - f /\ b > f
          /\ \A c \in Place(n) : Returned(it, k + 1, c) <=> f <= c /\ c < b
       \/ /\ k + 1 <= Cap - f + b /\ b <= f
          /\ \A c \in Place(n) : Returned(it, k + 1, c) <=> f <= c \/ c < b
  <2>1. CASE /\ k <= a - f /\ (k > 0 => a > f) /\ a >= f
             /\ \A c \in Place(n) : Returned(it, k, c) <=> f <= c /\ c < a
    <3>1. CASE a + n = Cap
      <4>1. b = 0 /\ k + 1 <= Cap - f + b
        BY <3>1, <2>1, <1>4, <1>6
      <4>2. \A c \in Place(n) : Returned(it, k + 1, c) <=> f <= c \/ c < b
        BY <3>1, <4>1, <2>1, <1>4, <1>6, <1>8, <1>9
      <4> QED BY <4>1, <4>2, <1>4
    <3>2. CASE a + n # Cap
      <4>1. b = a + n /\ k + 1 <= b - f /\ b > f
        BY <3>2, <2>1, <1>4, <1>6
      <4>2. \A c \in Place(n) : Returned(it, k + 1, c) <=> f <= c /\ c < b
        BY <4>1, <2>1, <1>4, <1>6, <1>8, <1>9
      <4> QED BY <4>1, <4>2
    <3> QED BY <3>1, <3>2
  <2>2. CASE /\ k <= Cap - f + a /\ k > 0 /\ a <= f
             /\ \A c \in Place(n) : Returned(it, k, c) <=> f <= c \/ c < a
    <3>1. a < f /\ a + n <= f
      <4>1. a < f
        BY <2>2, <1>1, <1>4, <1>6 DEF f, a
      <4> QED BY <4>1, <1>2, <1>4, <1>5 DEF PlaceGaps, f, a
    <3>2. b = a + n /\ k + 1 <= Cap - f + b /\ b <= f
      BY <3>1, <2>2, <1>4, <1>6
    <3>3. \A c \in Place(n) : Returned(it, k + 1, c) <=> f <= c \/ c < b
      BY <3>2, <2>2, <1>4, <1>6, <1>8, <1>9
    <3> QED BY <3>2, <3>3
  <2>3. \/ /\ k <= a - f /\ (k > 0 => a > f) /\ a >= f
           /\ \A c \in Place(n) : Returned(it, k, c) <=> f <= c /\ c < a
        \/ /\ k <= Cap - f + a /\ k > 0 /\ a <= f
           /\ \A c \in Place(n) : Returned(it, k, c) <=> f <= c \/ c < a
    BY DEF RoundTo, a, f
  <2> QED BY <2>1, <2>2, <2>3
<1>11. /\ k + 1 > 0 /\ k + 1 - 1 = k
       /\ b > f => b >= f
  BY <1>4, <1>6
<1> QED BY <1>3, <1>6, <1>7, <1>10, <1>11 DEF RoundTo, a, b, f

(* A wrapped iterator returns every entry of the buffer, oldest to newest. *)
ReadsOldestFirst(l) ==
  /\ Addresses(ReadOut(l)) = InBuffer(l)
  /\ \A i, j \in DOMAIN ReadOut(l) : i < j => Older(l, ReadOut(l)[i], ReadOut(l)[j])

(* So it returns each place once, from next_free to the end and from the   *)
(* start.                                                                  *)
LEMMA ReadsTheRound ==
  ASSUME LogInv, NEW l \in Log, Wrapped(l), NEW n, Filled(l, n)
  PROVE  ReadsOldestFirst(l)
<1> USE LogAssumption
<1>0. TypeOK
  BY DEF LogInv
<1> DEFINE it == Iterators(l)
           out == ReadOut(l)
           f == next_free[l]
<1>1. IsIteration(l, it)
  BY <1>0, IteratorsIterate
<1>2. PICK m : ReadsEntries(l, it, m)
  BY <1>0, ReadOutEnds
<1> HIDE DEF it, out
<1>3. m \in 0..Cap+1 /\ \A k \in 0..Cap+1 : it[k] \in IteratorState /\ it[k].current \in Nat
  BY <1>1, <1>2 DEF IsIteration, ReadsEntries, IteratorState
<1>4. n \in Nat /\ n >= 1 /\ f \in Nat /\ f \in Place(n) /\ f + n < Cap /\ pass[l] \in Nat
  BY <1>0 DEF Filled, Place, Unit, TypeOK
<1>5. \A a \in Place(n) : a \in Nat /\ a < Cap
  BY DEF Place, Unit
<1>6. \A k \in 0..m : RoundTo(l, it, k, n)
  <2> DEFINE Bad == {k \in Nat : k <= m /\ ~ RoundTo(l, it, k, n)}
  <2> SUFFICES ASSUME Bad # {} PROVE FALSE
    BY <1>3
  <2>1. PICK k \in Bad : \A j \in Bad : k <= j
    BY LeastNatural
  <2>2. RoundTo(l, it, 0, n)
    <3>1. it[0].current = f /\ it[0].free = f /\ it[0].circular /\ it[0].notfirst = FALSE
      BY <1>1 DEF CreateIterator, IsIteration
    <3>2. 0 <= f - f /\ ~ 0 > 0 /\ f >= f /\ \A c \in Place(n) : ~ (f <= c /\ c < f)
      BY <1>4, <1>5
    <3>3. 0..0-1 = {}
      OBVIOUS
    <3>4. \A c : ~ Returned(it, 0, c)
      BY <3>3 DEF Returned
    <3> QED BY <3>1, <3>2, <3>3, <3>4, <1>4 DEF RoundTo
  <2>3. CASE k = 0
    BY <2>1, <2>2, <2>3
  <2>4. CASE k # 0
    <3> DEFINE j == k - 1
    <3>1. j \in Nat /\ j <= m /\ j \notin Bad /\ j \in 0..m-1 /\ j + 1 = k
      BY <2>1, <2>4, <1>3
    <3>2. RoundTo(l, it, j, n) /\ HasNext(l, it[j]) /\ it[j+1] = IteratorNext(l, it[j])
      BY <3>1, <1>2 DEF ReadsEntries
    <3>3. it[j] \in IteratorState
      BY <3>1, <1>3
    <3> HIDE DEF j
    <3>4. RoundTo(l, it, j + 1, n)
      BY <3>1, <3>2, <3>3, RoundToNext
    <3> QED BY <3>1, <3>4, <2>1
  <2> QED BY <2>3, <2>4
<1>7. RoundTo(l, it, m, n) /\ m <= Cap /\ m \in Nat /\ it[m].current \in Place(n)
  <2>1. RoundTo(l, it, m, n) /\ m \in Nat
    BY <1>3, <1>6
  <2>2. it[m].current \in Place(n) /\ it[m].current < Cap /\ it[m].current \in Nat
    BY <2>1, <1>5 DEF RoundTo
  <2>3. m <= Cap
    <3>1. m <= it[m].current - f \/ (m <= Cap - f + it[m].current /\ it[m].current <= f)
      BY <2>1 DEF RoundTo
    <3> QED BY <3>1, <2>1, <2>2, <1>4
  <2> QED BY <2>1, <2>2, <2>3
<1>8. m > 0 /\ it[m].current = f
  <2>1. ~ HasNext(l, it[m])
    BY <1>2, <1>7 DEF ReadsEntries
  <2>2. it[m] \in IteratorState
    BY <1>3
  <2>3. HasNext(l, it[m]) <=> m = 0 \/ it[m].current # next_free[l]
    BY <1>7, <2>2, NextInRound
  <2> QED BY <2>1, <2>3, <1>7
<1>9. \A a \in Place(n) : Returned(it, m, a)
  <2>1. \A a \in Place(n) : Returned(it, m, a) <=> f <= a \/ a < f
    BY <1>7, <1>8, <1>4 DEF RoundTo
  <2> QED BY <2>1, <1>4, <1>5
<1>10. /\ DOMAIN out = 1..m
       /\ \A k \in 1..m : /\ out[k] = it[k-1].current /\ k - 1 \in 0..m-1
                          /\ out[k] \in Place(n)
  <2>1. /\ DOMAIN out = 1..m
        /\ \A k \in 1..m : out[k] = it[k-1].current /\ k - 1 \in 0..m-1
    BY <1>2, <1>3 DEF ReadsEntries, out
  <2>2. \A j \in 0..m-1 : it[j].current \in Place(n)
    BY <1>7 DEF RoundTo
  <2> QED BY <2>1, <2>2
<1>11. Addresses(out) = InBuffer(l)
  <2>1. InBuffer(l) = Place(n)
    BY <1>4 DEF InBuffer, Place, Filled
  <2>2. ASSUME NEW a \in Place(n) PROVE \E k \in 1..m : a = out[k]
    <3>1. PICK j \in 0..m-1 : it[j].current = a
      BY <1>9 DEF Returned
    <3>2. j + 1 \in 1..m /\ out[j+1] = it[j].current
      BY <1>3, <1>10
    <3> QED BY <3>1, <3>2
  <2>3. Addresses(out) = {out[k] : k \in 1..m}
    BY <1>10 DEF Addresses
  <2> QED BY <2>1, <2>2, <2>3, <1>10
<1>12. \A i, j \in DOMAIN out : i < j => Older(l, out[i], out[j])
  <2>1. ASSUME NEW i \in 1..m, NEW j \in 1..m, i < j PROVE Older(l, out[i], out[j])
    <3> DEFINE a == out[i]
               b == out[j]
               k == j - 1
    <3>1. k \in 0..m /\ k \in Nat /\ k > 0 /\ i - 1 \in 0..k-1
      BY <2>1, <1>3
    <3>2. RoundTo(l, it, k, n) /\ HasNext(l, it[k])
      BY <3>1, <2>1, <1>2, <1>3, <1>6 DEF ReadsEntries
    <3>3. a \in Place(n) /\ b \in Place(n) /\ b = it[k].current
          /\ Returned(it, k, a)
      BY <3>1, <1>10 DEF Returned
    <3>4. b # f
      <4>1. it[k] \in IteratorState
        BY <3>1, <1>3, <1>7
      <4>2. HasNext(l, it[k]) <=> k = 0 \/ it[k].current # next_free[l]
        BY <3>1, <3>2, <4>1, NextInRound
      <4> QED BY <3>1, <3>2, <3>3, <4>2
    <3>5. \/ f <= a /\ a < b /\ f <= b
          \/ b < f /\ (f <= a \/ a < b)
      <4>1. a \in Nat /\ b \in Nat
        BY <3>3, <1>5
      <4>2. \/ b > f /\ (Returned(it, k, a) <=> f <= a /\ a < b)
            \/ b <= f /\ (Returned(it, k, a) <=> f <= a \/ a < b)
        <5> HIDE DEF k, a, b
        <5> QED BY <3>1, <3>2, <3>3 DEF RoundTo
      <4> QED BY <4>1, <4>2, <3>3, <3>4, <1>4
    <3>6. mem[l][a].pass = PassOf(l, a) /\ mem[l][b].pass = PassOf(l, b)
      BY <3>3 DEF Filled, Place
    <3> HIDE DEF a, b, k
    <3>7. a \in Nat /\ b \in Nat
      BY <3>3, <1>5
    <3>8. Older(l, a, b)
      BY <3>5, <3>6, <3>7, <1>4 DEF Older, PassOf
    <3> QED BY <3>8 DEF a, b
  <2> QED BY <2>1, <1>10
<1> QED BY <1>11, <1>12 DEF ReadsOldestFirst, out

(* ReadOutIsLog follows from the two invariants of a logger. *)
LEMMA LogIsReadOut ==
  ASSUME LogInv, ReadInv
  PROVE  ReadOutIsLog
<1>1. ASSUME NEW l \in Log, Readable(l) PROVE ReadsInOrder(l)
  <2>1. Tiled(l) /\ ~ Wrapped(l) /\ Legible(l)
    BY <1>1, ReadableIsLegible
  <2> QED BY <2>1, ReadsTheRow
<1>2. ASSUME NEW l \in Log, ReadableRound(l) PROVE ReadsOldestFirst(l)
  <2>1. PICK n : Filled(l, n)
    BY <1>2, ReadableIsFilled
  <2>2. Wrapped(l)
    BY <1>2 DEF ReadableRound
  <2> QED BY <2>1, <2>2, ReadsTheRound
<1> QED BY <1>1, <1>2 DEF ReadOutIsLog, ReadsInOrder, ReadsOldestFirst

-----------------------------------------------------------------------------
(* What the iterator of the portal takes from the logger in slot i. *)
Segment(i) ==
  IF Reads(i) THEN LET out == ReadOut(list[i])
                   IN  [k \in DOMAIN out |-> <<i, out[k]>>]
              ELSE <<>>

(* What an iterator of the portal returns. *)
Found == Slot \X Nat

IsJoined(upto) ==
  /\ upto[0] = <<>> \o Segment(0)
  /\ \A k \in 1..ListSize : upto[k] = upto[k-1] \o Segment(k)
  /\ \A k \in Slot : upto[k] \in Seq(Found)

(* The recursion of PortalReadOut joins the segments of the slots. *)
LEMMA PortalReadOutJoined ==
  ASSUME \A i \in Slot : Segment(i) \in Seq(Found)
  PROVE  \E upto : IsJoined(upto) /\ PortalReadOut = upto[ListSize]
<1> USE PortalAssumption
<1> DEFINE c == <<>> \o Segment(0)
           F(f) == [i \in 0..ListSize |-> (IF i = 0 THEN <<>> ELSE f[i-1]) \o Segment(i)]
           g == [k \in Nat |-> [x \in Seq(Found) |-> IF k \in Slot THEN x \o Segment(k) ELSE x]]
           upto == CHOOSE f : f = F(f)
<1>1. PortalReadOut = upto[ListSize]
  BY DEF PortalReadOut, Segment
<1>2. c \in Seq(Found)
  <2>1. 0 \in Slot /\ <<>> \in Seq(Found)
    BY DEF Slot
  <2> HIDE DEF Found
  <2> QED BY <2>1, ConcatProperties
<1>3. g \in [Nat -> [Seq(Found) -> Seq(Found)]]
  <2> HIDE DEF Found
  <2>1. \A k \in Slot : \A x \in Seq(Found) : x \o Segment(k) \in Seq(Found)
    BY ConcatProperties
  <2> QED BY <2>1
<1> HIDE DEF c, g, Found
<1>4. PICK f \in [0..ListSize -> Seq(Found)] : IsIterated(f, c, g, ListSize)
  BY <1>2, <1>3, Iterated
<1>5. ASSUME NEW k \in 1..ListSize PROVE f[k] = f[k-1] \o Segment(k)
  <2>1. k \in Nat /\ k \in Slot /\ k - 1 \in 0..ListSize /\ f[k-1] \in Seq(Found)
    BY DEF Slot
  <2>2. f[k] = g[k][f[k-1]]
    BY <1>4 DEF IsIterated
  <2> QED BY <2>1, <2>2 DEF g
<1>6. f = F(f)
  <2>1. f[0] = c
    BY <1>4 DEF IsIterated
  <2>2. ASSUME NEW i \in 0..ListSize PROVE f[i] = F(f)[i]
    <3>1. CASE i = 0
      BY <3>1, <2>1 DEF c
    <3>2. CASE i # 0
      <4>1. i \in 1..ListSize
        BY <3>2
      <4> QED BY <4>1, <3>2, <1>5
    <3> QED BY <3>1, <3>2
  <2>3. DOMAIN f = 0..ListSize /\ DOMAIN F(f) = 0..ListSize /\ f = [i \in 0..ListSize |-> f[i]]
    OBVIOUS
  <2> QED BY <2>2, <2>3
<1>7. upto = F(upto)
  BY <1>6
<1> HIDE DEF upto
<1>8. upto[0] = c /\ \A k \in 1..ListSize : upto[k] = upto[k-1] \o Segment(k)
  <2>1. \A k \in 0..ListSize :
           upto[k] = (IF k = 0 THEN <<>> ELSE upto[k-1]) \o Segment(k)
    BY <1>7
  <2>2. 0 \in 0..ListSize /\ \A k \in 1..ListSize : k \in 0..ListSize /\ k # 0
    OBVIOUS
  <2> QED BY <2>1, <2>2 DEF c
<1>9. \A k \in Slot : upto[k] \in Seq(Found)
  <2> DEFINE Bad == {k \in Nat : k <= ListSize /\ upto[k] \notin Seq(Found)}
  <2>0. \A k \in Slot : k \notin Bad => upto[k] \in Seq(Found)
    BY DEF Slot
  <2> SUFFICES ASSUME Bad # {} PROVE FALSE
    BY <2>0
  <2>1. PICK k \in Bad : \A j \in Bad : k <= j
    BY LeastNatural
  <2>2. k # 0
    BY <1>2, <1>8
  <2>3. k - 1 \in Nat /\ k - 1 <= ListSize /\ k \in 1..ListSize /\ k - 1 \notin Bad /\ k \in Slot
    BY <2>1, <2>2 DEF Slot
  <2>4. upto[k-1] \in Seq(Found)
    BY <2>3
  <2>5. upto[k] \in Seq(Found)
    <3>1. upto[k] = upto[k-1] \o Segment(k) /\ Segment(k) \in Seq(Found)
      BY <2>3, <1>8
    <3> QED BY <3>1, <2>4, ConcatProperties
  <2> QED BY <2>1, <2>5
<1>10. IsJoined(upto)
  BY <1>8, <1>9 DEF IsJoined, c
<1> QED BY <1>1, <1>10

(* A sequence that has the elements of the set P, in their order. *)
Lists(s, P) ==
  /\ s \in Seq(Found)
  /\ Addresses(s) = P
  /\ \A i, j \in DOMAIN s : i < j => Before(s[i], s[j])

(* Two such sequences, one before the other, are joined to one. *)
LEMMA ListsJoin ==
  ASSUME NEW s, NEW P, Lists(s, P), NEW t, NEW Q, Lists(t, Q),
         \A p \in P, q \in Q : Before(p, q)
  PROVE  Lists(s \o t, P \cup Q)
<1> HIDE DEF Found
<1> DEFINE st == s \o t
<1>1. /\ s \in Seq(Found) /\ t \in Seq(Found)
      /\ Len(s) \in Nat /\ DOMAIN s = 1..Len(s)
      /\ Len(t) \in Nat /\ DOMAIN t = 1..Len(t)
  BY LenProperties DEF Lists
<1>2. /\ st \in Seq(Found) /\ Len(st) = Len(s) + Len(t)
      /\ \A i \in 1..Len(s)+Len(t) : st[i] = IF i <= Len(s) THEN s[i] ELSE t[i - Len(s)]
  BY <1>1, ConcatProperties
<1>3. DOMAIN st = 1..Len(s)+Len(t)
  BY <1>2, LenProperties
<1> HIDE DEF st
<1>4. /\ \A i \in DOMAIN s : i \in DOMAIN st /\ st[i] = s[i]
      /\ \A i \in DOMAIN t : i + Len(s) \in DOMAIN st /\ st[i + Len(s)] = t[i]
      /\ \A i \in DOMAIN st : \/ i \in DOMAIN s /\ st[i] = s[i]
                              \/ i - Len(s) \in DOMAIN t /\ st[i] = t[i - Len(s)]
  <2>1. \A i \in DOMAIN s : i \in DOMAIN st /\ st[i] = s[i]
    BY <1>1, <1>2, <1>3
  <2>2. ASSUME NEW i \in DOMAIN t PROVE i + Len(s) \in DOMAIN st /\ st[i + Len(s)] = t[i]
    <3>1. i \in Nat /\ i + Len(s) \in 1..Len(s)+Len(t) /\ ~ (i + Len(s) <= Len(s))
          /\ i + Len(s) - Len(s) = i
      BY <1>1
    <3> QED BY <3>1, <1>2, <1>3
  <2>3. \A i \in DOMAIN st : \/ i \in DOMAIN s /\ st[i] = s[i]
                             \/ i - Len(s) \in DOMAIN t /\ st[i] = t[i - Len(s)]
    BY <1>1, <1>2, <1>3
  <2> QED BY <2>1, <2>2, <2>3
<1>5. Addresses(st) = P \cup Q
  <2>1. P = {s[i] : i \in DOMAIN s} /\ Q = {t[i] : i \in DOMAIN t}
    BY DEF Lists, Addresses
  <2> QED BY <2>1, <1>4 DEF Addresses
<1>6. ASSUME NEW i \in DOMAIN st, NEW j \in DOMAIN st, i < j
      PROVE  Before(st[i], st[j])
  <2>1. i \in Nat /\ j \in Nat
    BY <1>1, <1>3
  <2>2. CASE i \in DOMAIN s /\ st[i] = s[i] /\ j \in DOMAIN s /\ st[j] = s[j]
    BY <2>2, <1>6 DEF Lists
  <2>3. CASE i - Len(s) \in DOMAIN t /\ st[i] = t[i - Len(s)]
             /\ j - Len(s) \in DOMAIN t /\ st[j] = t[j - Len(s)]
    <3>1. i - Len(s) < j - Len(s)
      BY <2>1, <1>1, <1>6
    <3> QED BY <2>3, <3>1 DEF Lists
  <2>4. CASE i \in DOMAIN s /\ st[i] = s[i] /\ j - Len(s) \in DOMAIN t /\ st[j] = t[j - Len(s)]
    BY <2>4 DEF Lists, Addresses
  <2>5. CASE j \in DOMAIN s /\ i - Len(s) \in DOMAIN t
    BY <2>5, <2>1, <1>1, <1>6
  <2> QED BY <1>4, <2>2, <2>3, <2>4, <2>5
<1> QED BY <1>2, <1>5, <1>6 DEF Lists, st

(* The entries of the logger in slot i, and of those up to it. *)
EntriesIn(i) == IF list[i] # NoLog THEN {<<i, e.addr>> : e \in given[list[i]]} ELSE {}

EntriesUpTo(k) == UNION {EntriesIn(i) : i \in 0..k}

(* A logger that has entries is the current one or before it, and those    *)
(* before the current one have entries: so the iterator comes to it.       *)
LEMMA ComesToEntries ==
  ASSUME LogInv, PortalInv, ReadInv, PortalRead, use \in PortalUses, Quiet, ~ use.raw,
         NEW i \in Slot
  PROVE  Lists(Segment(i), EntriesIn(i))
<1> USE LogAssumption, PortalAssumption
<1>0. TypeOK /\ \A j \in Slot : list[j] # NoLog => list[j] \in Log
  BY DEF LogInv, PortalInv, PortalTypeOK
<1>1. ASSUME NEW l \in Log
      PROVE  /\ Addresses(ReadOut(l)) = {e.addr : e \in given[l]}
             /\ \A a, b \in DOMAIN ReadOut(l) : a < b => ReadOut(l)[a] < ReadOut(l)[b]
  <2>1. "CIRCULAR" \notin options[l] /\ ~ use.circular /\ ~ use.resets
    BY PortalUseFacts
  <2>2. pass[l] = 0
    <3>1. pass[l] \in Nat /\ ~ pass[l] > 0
      BY <1>0, <2>1 DEF ReadInv, CallsRead, TypeOK
    <3> QED BY <3>1
  <2>3. Readable(l)
    BY <2>1, <2>2 DEF Readable, Wrapped
  <2>4. ReadsInOrder(l)
    BY <2>3, ReadableIsLegible, ReadsTheRow
  <2>5. \A a : ~ BeingFilled(l, a)
    BY DEF Quiet, BeingFilled
  <2>6. CompletedInRow(l) = {e.addr : e \in given[l]}
    BY <2>5 DEF CompletedInRow
  <2> QED BY <2>4, <2>6 DEF ReadsInOrder
<1>2. ASSUME NEW l \in Log
      PROVE  \E m \in Nat : DOMAIN ReadOut(l) = 1..m /\ ReadOut(l) \in [1..m -> Nat]
  <2>1. PICK m : ReadsEntries(l, Iterators(l), m)
    BY <1>0, ReadOutEnds
  <2>2. m \in Nat /\ ReadOut(l) = [k \in 1..m |-> Iterators(l)[k-1].current]
    BY <2>1 DEF ReadsEntries
  <2>3. \A k \in 0..Cap+1 : Iterators(l)[k].current \in Nat
    BY <1>0, IteratorsIterate DEF IsIteration, IteratorState
  <2>4. \A k \in 1..m : k - 1 \in 0..Cap+1
    BY <2>1 DEF ReadsEntries
  <2> QED BY <2>2, <2>3, <2>4
<1>3. \A l \in Log : ReadOut(l) = <<>> => given[l] = {}
  <2>1. ASSUME NEW l \in Log, ReadOut(l) = <<>> PROVE given[l] = {}
    <3>1. Addresses(ReadOut(l)) = {}
      BY <2>1 DEF Addresses
    <3> QED BY <3>1, <1>1
  <2> QED BY <2>1
<1>4. ASSUME list[i] # NoLog, given[list[i]] # {}
      PROVE  Reads(i)
  <2>1. i \in Nat /\ i <= current_logger /\ current_logger \in Nat /\ current_logger <= next_logger
        /\ next_logger \in Nat
    <3>1. PICK c \in 0..current_logger : list[c] = list[i]
      BY <1>0, <1>4 DEF PortalRead
    <3>2. current_logger \in 0..ListSize /\ current_logger <= next_logger /\ next_logger \in Nat
      BY DEF PortalInv, PortalTypeOK, ListFilled, Slot
    <3>3. c \in Slot /\ c = i
      BY <3>1, <3>2, <1>4 DEF PortalInv, ListFilled, Slot
    <3> QED BY <3>1, <3>2, <3>3
  <2>2. i < ListSize
    BY <1>4 DEF PortalInv, ListFilled
  <2>3. ASSUME NEW j \in 0..i
        PROVE  GoesTo(j) /\ list[j] \in Log /\ given[list[j]] # {}
    <3>1. j \in Slot /\ j <= next_logger /\ j < ListSize
      BY <2>1, <2>2 DEF Slot
    <3>2. CASE j = i
      BY <3>1, <3>2, <1>0, <1>4 DEF GoesTo
    <3>3. CASE j # i
      <4>1. list[j] # NoLog /\ LoggerFull(list[j])
        BY <3>3, <2>1 DEF PortalInv
      <4>2. list[j] \in Log /\ next_free[list[j]] # 0
        BY <4>1, <3>1, <1>0 DEF LoggerFull
      <4>3. Tiled(list[j])
        BY <4>2 DEF ReadInv, LogRead
      <4> QED BY <3>1, <4>1, <4>2, <4>3 DEF GoesTo, Tiled
    <3> QED BY <3>2, <3>3
  <2> QED BY <2>1, <2>3, <1>3 DEF Reads
<1>5. CASE Reads(i)
  <2>1. list[i] # NoLog /\ list[i] \in Log
    <3>1. i \in 0..i
      BY DEF Slot
    <3> QED BY <3>1, <1>0, <1>5 DEF Reads, GoesTo
  <2> DEFINE out == ReadOut(list[i])
  <2>2. PICK m \in Nat : DOMAIN out = 1..m /\ out \in [1..m -> Nat]
    BY <2>1, <1>2
  <2>3. Segment(i) = [k \in 1..m |-> <<i, out[k]>>]
    BY <1>5, <2>2 DEF Segment
  <2>4. /\ Addresses(out) = {e.addr : e \in given[list[i]]}
        /\ \A a, b \in DOMAIN out : a < b => out[a] < out[b]
    BY <2>1, <1>1
  <2>5. EntriesIn(i) = {<<i, e.addr>> : e \in given[list[i]]}
    BY <2>1 DEF EntriesIn
  <2> HIDE DEF out
  <2>6. Segment(i) \in Seq(Found)
    <3>1. Segment(i) \in [1..m -> Found]
      BY <2>2, <2>3 DEF Found
    <3> HIDE DEF Found
    <3> QED BY <3>1
  <2>7. DOMAIN Segment(i) = 1..m /\ \A k \in 1..m : Segment(i)[k] = <<i, out[k]>>
    BY <2>3
  <2>8. Addresses(Segment(i)) = EntriesIn(i)
    <3>1. Addresses(Segment(i)) = {<<i, out[k]>> : k \in 1..m}
      BY <2>7 DEF Addresses
    <3>2. \A k \in 1..m : \E e \in given[list[i]] : out[k] = e.addr
      BY <2>2, <2>4 DEF Addresses
    <3>3. \A e \in given[list[i]] : \E k \in 1..m : out[k] = e.addr
      BY <2>2, <2>4 DEF Addresses
    <3> QED BY <3>1, <3>2, <3>3, <2>5
  <2>9. \A a, b \in DOMAIN Segment(i) : a < b => Before(Segment(i)[a], Segment(i)[b])
    BY <2>2, <2>4, <2>7 DEF Before
  <2> QED BY <2>6, <2>8, <2>9 DEF Lists
<1>6. CASE ~ Reads(i)
  <2>1. EntriesIn(i) = {}
    BY <1>4, <1>6 DEF EntriesIn
  <2>2. Segment(i) = <<>>
    BY <1>6 DEF Segment
  <2>3. <<>> \in Seq(Found) /\ Addresses(<<>>) = {}
    BY DEF Addresses
  <2> QED BY <2>1, <2>2, <2>3 DEF Lists
<1> QED BY <1>5, <1>6

(* PortalReadOutIsLog follows. *)
LEMMA PortalIsReadOut ==
  ASSUME LogInv, PortalInv, ReadInv, PortalRead
  PROVE  PortalReadOutIsLog
<1> USE PortalAssumption
<1> SUFFICES ASSUME Quiet, use \in PortalUses, ~ use.raw
             PROVE  Lists(PortalReadOut, EntriesUpTo(ListSize))
  <2>1. EntriesUpTo(ListSize) =
          UNION {{<<i, e.addr>> : e \in given[list[i]]} : i \in {j \in Slot : list[j] # NoLog}}
    BY DEF EntriesUpTo, EntriesIn, Slot
  <2> QED BY <2>1 DEF PortalReadOutIsLog, Lists
<1>1. \A i \in Slot : Lists(Segment(i), EntriesIn(i))
  BY ComesToEntries
<1>2. PICK upto : IsJoined(upto) /\ PortalReadOut = upto[ListSize]
  BY <1>1, PortalReadOutJoined DEF Lists
<1>3. \A i \in Slot : \A q \in EntriesIn(i) : q[1] = i
  BY DEF EntriesIn
<1>4. Lists(upto[0], EntriesUpTo(0))
  <2>1. 0 \in Slot /\ Segment(0) \in Seq(Found) /\ EntriesUpTo(0) = EntriesIn(0)
    <3>1. 0 \in Slot /\ 0..0 = {0}
      BY DEF Slot
    <3> QED BY <3>1, <1>1 DEF Lists, EntriesUpTo
  <2>2. upto[0] = Segment(0)
    <3> HIDE DEF Found
    <3> QED BY <2>1, <1>2, ConcatEmptySeq DEF IsJoined
  <2> QED BY <2>1, <2>2, <1>1
<1>5. ASSUME NEW k \in 1..ListSize, Lists(upto[k-1], EntriesUpTo(k-1))
      PROVE  Lists(upto[k], EntriesUpTo(k))
  <2>1. k \in Slot /\ 0..k = 0..k-1 \cup {k} /\ 0..k-1 \subseteq Slot
    BY DEF Slot
  <2>2. EntriesUpTo(k) = EntriesUpTo(k-1) \cup EntriesIn(k)
    BY <2>1 DEF EntriesUpTo
  <2>3. \A p \in EntriesUpTo(k-1), q \in EntriesIn(k) : Before(p, q)
    <3>1. ASSUME NEW p \in EntriesUpTo(k-1), NEW q \in EntriesIn(k) PROVE Before(p, q)
      <4>1. PICK i \in 0..k-1 : p \in EntriesIn(i)
        BY DEF EntriesUpTo
      <4>2. p[1] = i /\ q[1] = k
        BY <4>1, <2>1, <1>3
      <4> QED BY <4>2 DEF Before
    <3> QED BY <3>1
  <2>4. Lists(Segment(k), EntriesIn(k))
    BY <2>1, <1>1
  <2>5. Lists(upto[k-1] \o Segment(k), EntriesUpTo(k-1) \cup EntriesIn(k))
    BY <1>5, <2>3, <2>4, ListsJoin
  <2> QED BY <2>2, <2>5, <1>2 DEF IsJoined
<1>6. \A k \in 0..ListSize : Lists(upto[k], EntriesUpTo(k))
  <2> DEFINE Bad == {k \in Nat : k <= ListSize /\ ~ Lists(upto[k], EntriesUpTo(k))}
  <2> SUFFICES ASSUME Bad # {} PROVE FALSE
    OBVIOUS
  <2>1. PICK k \in Bad : \A j \in Bad : k <= j
    BY LeastNatural
  <2>2. k # 0
    BY <1>4
  <2>3. k - 1 \in Nat /\ k - 1 <= ListSize /\ k \in 1..ListSize /\ k - 1 \notin Bad
    BY <2>1, <2>2
  <2> QED BY <2>1, <2>3, <1>5
<1> QED BY <1>2, <1>6

-----------------------------------------------------------------------------
(* What the steps do to one log, and that they keep it readable.  First,   *)
(* nothing: another log, or a step that changes neither headers nor the    *)
(* entries that threads fill.                                              *)
SameThread(u) ==
  /\ pc'[u] = pc[u] /\ log'[u] = log[u] /\ size'[u] = size[u]
  /\ log_entry'[u] = log_entry[u] /\ stamp'[u] = stamp[u]

(* Neither a filler of l before nor after, or as it was. *)
SameFiller(u, l) == SameThread(u) \/ (~ Fills(u, l) /\ ~ Fills(u, l)')

SameLog(l) ==
  /\ use' = use
  /\ next_free'[l] = next_free[l] /\ mem'[l] = mem[l]
  /\ pass'[l] = pass[l] /\ given'[l] = given[l] /\ lapped'[l] = lapped[l]
  /\ \A u \in Thread : SameFiller(u, l)

(* The log has the same fillers then. *)
LEMMA SameFills ==
  ASSUME NEW l, \A u \in Thread : SameFiller(u, l)
  PROVE  /\ \A u \in Thread : /\ Fills(u, l)' <=> Fills(u, l)
                              /\ Fills(u, l) => SameThread(u)
         /\ \A a : BeingFilled(l, a)' <=> BeingFilled(l, a)
<1>1. ASSUME NEW u \in Thread
      PROVE  (Fills(u, l)' <=> Fills(u, l)) /\ (Fills(u, l) => SameThread(u))
  BY DEF SameFiller, SameThread, Fills
<1>2. ASSUME NEW a PROVE BeingFilled(l, a)' <=> BeingFilled(l, a)
  BY <1>1 DEF BeingFilled, Fills, SameThread
<1> QED BY <1>1, <1>2

(* A log that a step does not touch stays readable. *)
LEMMA SameKeeps ==
  ASSUME NEW l \in Log, SameLog(l), LogRead(l)
  PROVE  LogRead(l)'
<1>1. /\ use' = use
      /\ next_free'[l] = next_free[l] /\ mem'[l] = mem[l]
      /\ pass'[l] = pass[l] /\ given'[l] = given[l] /\ lapped'[l] = lapped[l]
  BY DEF SameLog
<1>2. /\ \A u \in Thread : /\ Fills(u, l)' <=> Fills(u, l)
                           /\ Fills(u, l) => SameThread(u)
      /\ \A a : BeingFilled(l, a)' <=> BeingFilled(l, a)
  BY SameFills DEF SameLog
<1>3. Tiled(l)'
  BY <1>1 DEF LogRead, Tiled, LastGiven
<1>4. Headers(l)'
  BY <1>1, <1>2 DEF LogRead, Headers, SameThread
<1>5. FirstPass(l)'
  BY <1>1, <1>2 DEF LogRead, FirstPass, SameThread
<1>6. Round(l)'
  <2>1. \A a : PassOf(l, a)' = PassOf(l, a)
    BY <1>1 DEF PassOf
  <2>2. ASSUME NEW n \in use.sizes, Placed(l, n) PROVE Placed(l, n)'
    BY <1>1, <1>2, <2>1, <2>2 DEF Placed, SameThread
  <2> QED BY <1>1, <2>2 DEF LogRead, Round
<1> QED BY <1>3, <1>4, <1>5, <1>6 DEF LogRead

(* What is known of the log and of a thread that fills an entry of it. *)
LEMMA FillerFacts ==
  ASSUME LogInv, CallsRead, NEW l \in Log, NEW u \in Thread, Fills(u, l)
  PROVE  /\ log_entry[u] \in Nat /\ log_entry[u] \in Unit
         /\ size[u] \in use.sizes /\ size[u] \in Nat /\ size[u] >= 1
         /\ log_entry[u] + size[u] <= Cap
<1> USE LogAssumption
<1>1. /\ log_entry[u] \in Nat /\ size[u] \in Nat /\ size[u] >= 1
      /\ log_entry[u] + size[u] <= Cap
  BY DEF LogInv, TypeOK, CallsInUse, Fills
<1>2. size[u] \in use.sizes
  BY DEF CallsRead, Fills
<1> QED BY <1>1, <1>2 DEF Unit

(* What a header is. *)
LEMMA HeaderTypes ==
  ASSUME TypeOK, NEW l \in Log, NEW a \in Unit
  PROVE  /\ mem[l][a].len \in Nat
         /\ mem[l][a].valid \in BOOLEAN
         /\ mem[l][a].pass \in Nat
         /\ mem[l][a] = [len |-> mem[l][a].len, valid |-> mem[l][a].valid,
                         pass |-> mem[l][a].pass]
<1>1. mem[l][a] \in [len : 0..Cap, valid : BOOLEAN, pass : Nat]
  BY DEF TypeOK
<1> QED BY <1>1

(* An allocate that does not fit. *)
Overflows(l, n) ==
  /\ use' = use
  /\ next_free'[l] = next_free[l] + n /\ mem'[l] = mem[l]
  /\ pass'[l] = pass[l] /\ given'[l] = given[l] /\ lapped'[l] = lapped[l]
  /\ \A u \in Thread : SameFiller(u, l)

(* Nothing of a placed log fits only when next_free is at the end. *)
LEMMA PlacedEnd ==
  ASSUME LogInv, NEW l \in Log, NEW n \in Nat, n >= 1, Cap % n = 0, Placed(l, n),
         ~ Fits(next_free[l], n)
  PROVE  next_free[l] >= Cap
<1>1. next_free[l] \in Nat /\ Cap \in Nat /\ n > 0 /\ next_free[l] % n = 0
  BY LogAssumption DEF LogInv, TypeOK, Placed
<1>2. ~ next_free[l] < Cap
  <2>1. ~ next_free[l] + n <= Cap
    BY DEF Fits
  <2> QED BY <2>1, <1>1, MultipleGap
<1> QED BY <1>1, <1>2

(* It raises next_free beyond the end: what was the last entry is LastGiven. *)
LEMMA OverflowKeeps ==
  ASSUME LogInv, CallsRead, NEW l \in Log, LogRead(l), NEW n \in use.sizes,
         ~ Fits(next_free[l], n), Overflows(l, n)
  PROVE  LogRead(l)'
<1> USE LogAssumption
<1>0. TypeOK /\ next_free[l] \in Nat
  BY DEF LogInv, TypeOK
<1>1. /\ use' = use
      /\ next_free'[l] = next_free[l] + n /\ mem'[l] = mem[l]
      /\ pass'[l] = pass[l] /\ given'[l] = given[l] /\ lapped'[l] = lapped[l]
  BY DEF Overflows
<1>2. /\ \A u \in Thread : /\ Fills(u, l)' <=> Fills(u, l)
                           /\ Fills(u, l) => SameThread(u)
      /\ \A a : BeingFilled(l, a)' <=> BeingFilled(l, a)
  BY SameFills DEF Overflows
<1>s. use.sizes \subseteq 1..Cap
  BY <1>0, UseFacts
<1>n. n \in Nat /\ n >= 1 /\ n <= Cap /\ next_free[l] + n > Cap
  BY <1>s, <1>0 DEF Fits
<1>3. Tiled(l)'
  <2>1. given[l] # {}
    BY <1>0, <1>n DEF LogRead, Tiled
  <2>2. ASSUME NEW e \in given[l]
        PROVE  \/ \E f \in given[l] : f.addr = e.addr + e.len
               \/ LastGiven(l, e)'
    <3>1. CASE e.addr + e.len = next_free[l]
      <4>1. ASSUME NEW f \in given[l] PROVE f.addr <= e.addr
        <5>1. f.addr + f.len <= next_free[l] /\ f.addr \in Nat /\ f.len \in Nat /\ f.len >= 1
          BY EntryFacts
        <5>2. f.addr >= e.addr /\ f.addr < e.addr + e.len => f = e
          BY EntryFacts
        <5>3. e.addr \in Nat /\ e.len \in Nat
          BY EntryFacts
        <5> QED BY <5>1, <5>2, <5>3, <3>1
      <4> QED BY <4>1, <3>1, <1>1, <1>n DEF LastGiven
    <3>2. CASE LastGiven(l, e)
      BY <3>2, <1>0, <1>1, <1>n DEF LastGiven
    <3> QED BY <3>1, <3>2 DEF LogRead, Tiled
  <2> QED BY <2>1, <2>2, <1>1 DEF LogRead, Tiled
<1>4. Headers(l)'
  BY <1>1, <1>2 DEF LogRead, Headers, SameThread
<1>5. FirstPass(l)'
  BY <1>1, <1>2 DEF LogRead, FirstPass, SameThread
<1>6. Round(l)'
  <2> SUFFICES ASSUME use.circular, ~ lapped[l], NEW m \in use.sizes, Cap % m = 0
               PROVE  Placed(l, m)'
    BY <1>1 DEF Round
  <2>1. m = n /\ Placed(l, n)
    <3>1. m = n
      BY <1>0, OneSize
    <3> QED BY <3>1 DEF LogRead, Round
  <2>2. next_free[l] >= Cap
    BY <2>1, <1>n, PlacedEnd
  <2>3. \A a \in Unit : a < next_free[l] /\ a < next_free'[l] /\ PassOf(l, a)' = PassOf(l, a)
    <3>1. \A a \in Unit : a \in Nat /\ a < Cap
      BY DEF Unit
    <3> QED BY <3>1, <2>2, <1>0, <1>1, <1>n DEF PassOf
  <2>4. next_free'[l] % n = 0
    <3>1. (next_free[l] + n) % n = 0
      <4>1. next_free[l] % n = 0 /\ n > 0
        BY <2>1, <1>n DEF Placed
      <4> QED BY <4>1, <1>0, <1>n, MultipleNext
    <3> QED BY <3>1, <1>1
  <2>5. ASSUME NEW u \in Thread, Fills(u, l)
        PROVE  log_entry[u] \in Unit /\ SameThread(u)
    BY <2>5, <1>2, FillerFacts
  <2> QED BY <1>1, <1>2, <2>1, <2>3, <2>4, <2>5 DEF Placed, SameThread
<1> QED BY <1>3, <1>4, <1>5, <1>6 DEF LogRead

(* A log is started over: a circular one when it is full. *)
Restarts(l) ==
  /\ use' = use
  /\ next_free'[l] = 0 /\ mem'[l] = mem[l]
  /\ pass'[l] = pass[l] + 1 /\ given'[l] = {} /\ lapped'[l] = lapped[l]
  /\ \A u \in Thread : SameFiller(u, l)

(* The headers stay, as those of the pass before. *)
LEMMA RestartKeeps ==
  ASSUME LogInv, CallsRead, NEW l \in Log, LogRead(l), Restarts(l),
         use.circular => next_free[l] >= Cap
  PROVE  LogRead(l)'
<1> USE LogAssumption
<1>0. TypeOK /\ next_free[l] \in Nat /\ pass[l] \in Nat
  BY DEF LogInv, TypeOK
<1>1. /\ use' = use
      /\ next_free'[l] = 0 /\ mem'[l] = mem[l]
      /\ pass'[l] = pass[l] + 1 /\ given'[l] = {} /\ lapped'[l] = lapped[l]
  BY DEF Restarts
<1>2. /\ \A u \in Thread : /\ Fills(u, l)' <=> Fills(u, l)
                           /\ Fills(u, l) => SameThread(u)
      /\ \A a : BeingFilled(l, a)' <=> BeingFilled(l, a)
  BY SameFills DEF Restarts
<1>3. Tiled(l)'
  BY <1>1 DEF Tiled
<1>4. Headers(l)'
  BY <1>1, <1>2 DEF LogRead, Headers, SameThread
<1>5. FirstPass(l)'
  BY <1>0, <1>1 DEF FirstPass
<1>6. Round(l)'
  <2> SUFFICES ASSUME use.circular, ~ lapped[l], NEW n \in use.sizes, Cap % n = 0
               PROVE  Placed(l, n)'
    BY <1>1 DEF Round
  <2>1. Placed(l, n)
    BY DEF LogRead, Round
  <2>2. n \in Nat /\ n > 0
    BY <1>0, UseFacts
  <2>3. next_free'[l] % n = 0
    BY <1>1, <2>2, MultipleZero
  <2>4. \A a \in Unit : a < next_free[l] /\ PassOf(l, a)' = PassOf(l, a)
    <3>1. \A a \in Unit : a \in Nat /\ a < Cap
      BY DEF Unit
    <3> QED BY <3>1, <1>0, <1>1 DEF PassOf
  <2>5. ASSUME NEW u \in Thread, Fills(u, l)
        PROVE  log_entry[u] \in Unit /\ SameThread(u)
    BY <2>5, <1>2, FillerFacts
  <2>6. pass'[l] > 0
    BY <1>0, <1>1
  <2> QED BY <1>1, <1>2, <2>1, <2>3, <2>4, <2>5, <2>6 DEF Placed, SameThread
<1> QED BY <1>3, <1>4, <1>5, <1>6 DEF LogRead

(* A new entry of thread t at the address a, in pass p; with open, its     *)
(* header is written at once.                                              *)
Stands(t, l, a, n, p, open) ==
  /\ use' = use
  /\ pc'[t] = IF open THEN "open" ELSE "header"
  /\ log'[t] = l /\ size'[t] = n /\ log_entry'[t] = a /\ stamp'[t] = p
  /\ \A u \in Thread \ {t} : SameThread(u)
  /\ \A b \in Unit : b # a => mem'[l][b] = mem[l][b]
  /\ mem'[l][a] = IF open THEN [len |-> n, valid |-> FALSE, pass |-> p] ELSE mem[l][a]

Gives(t, l, n, open) ==
  /\ Stands(t, l, next_free[l], n, pass[l], open)
  /\ next_free'[l] = next_free[l] + n
  /\ pass'[l] = pass[l]
  /\ given'[l] = given[l] \cup {[addr |-> next_free[l], len |-> n]}
  /\ lapped'[l] = (lapped[l] \/ LapsOpenEntry(t, l, next_free[l], n))

(* The new entry begins at next_free, where the last one ended, and is     *)
(* being filled.                                                           *)
LEMMA GiveKeeps ==
  ASSUME LogInv, CallsRead, NEW l \in Log, LogRead(l), NEW t \in Thread, ~ Fills(t, l),
         NEW n \in use.sizes, NEW open \in BOOLEAN,
         Fits(next_free[l], n), Gives(t, l, n, open)
  PROVE  LogRead(l)'
<1> USE LogAssumption
<1>a. PICK a : a = next_free[l]
  OBVIOUS
<1> DEFINE new == [addr |-> a, len |-> n]
<1>0. TypeOK /\ a \in Nat /\ pass[l] \in Nat
  BY <1>a DEF LogInv, TypeOK
<1>s. use.sizes \subseteq 1..Cap
  BY <1>0, UseFacts
<1>n. n \in Nat /\ n >= 1 /\ a + n <= Cap /\ a \in Unit
  BY <1>s, <1>0, <1>a DEF Fits, Unit
<1>1. /\ use' = use
      /\ next_free'[l] = a + n
      /\ pass'[l] = pass[l] /\ given'[l] = given[l] \cup {new}
      /\ lapped'[l] = (lapped[l] \/ LapsOpenEntry(t, l, a, n))
  BY <1>a DEF Gives, Stands
<1>2. /\ pc'[t] = IF open THEN "open" ELSE "header"
      /\ log'[t] = l /\ size'[t] = n /\ log_entry'[t] = a /\ stamp'[t] = pass[l]
      /\ \A u \in Thread \ {t} : SameThread(u)
  BY <1>a DEF Gives, Stands
<1>3. /\ \A b \in Unit : b # a => mem'[l][b] = mem[l][b]
      /\ mem'[l][a] = IF open THEN [len |-> n, valid |-> FALSE, pass |-> pass[l]] ELSE mem[l][a]
  BY <1>a DEF Gives, Stands
<1>4. /\ Fills(t, l)'
      /\ \A u \in Thread \ {t} : (Fills(u, l)' <=> Fills(u, l)) /\ SameThread(u)
      /\ \A u \in Thread : Fills(u, l) => u # t
  BY <1>2 DEF Fills, SameThread
<1>5. /\ BeingFilled(l, a)'
      /\ \A b : BeingFilled(l, b) => BeingFilled(l, b)'
  BY <1>2, <1>4 DEF BeingFilled, Fills, SameThread
<1>6. \A e \in given[l] : e.addr \in Nat /\ e.addr \in Unit /\ e.addr < a /\ e.addr # a
  <2>1. ASSUME NEW e \in given[l]
        PROVE  e.addr \in Nat /\ e.addr \in Unit /\ e.addr < a /\ e.addr # a
    <3>1. e.addr \in Nat /\ e.addr \in Unit /\ e.len \in Nat /\ e.len >= 1 /\ e.addr + e.len <= a
      BY <1>a, EntryFacts
    <3> QED BY <3>1, <1>0
  <2> QED BY <2>1
<1>7. new.addr = a /\ new.len = n
  OBVIOUS
<1>8. \A b \in Unit : /\ mem[l][b].len \in Nat /\ mem[l][b].valid \in BOOLEAN
                      /\ mem[l][b].pass \in Nat
  BY <1>0, HeaderTypes
<1>9. open => mem'[l][a].len = n /\ ~ mem'[l][a].valid /\ mem'[l][a].pass = pass[l]
  BY <1>3
<1>10. ~ open => \A b \in Unit : mem'[l][b] = mem[l][b]
  BY <1>3
<1> HIDE DEF new
<1>11. Tiled(l)'
  <2>1. \E e \in given'[l] : e.addr = 0
    <3>1. CASE given[l] = {}
      BY <3>1, <1>1, <1>7, <1>a DEF LogRead, Tiled
    <3>2. CASE given[l] # {}
      BY <3>2, <1>1 DEF LogRead, Tiled
    <3> QED BY <3>1, <3>2
  <2>2. ASSUME NEW e \in given[l]
        PROVE  e.len \in use.sizes /\ \E f \in given'[l] : f.addr = e.addr + e.len
    <3>1. CASE e.addr + e.len = next_free[l]
      BY <3>1, <1>1, <1>7, <1>a DEF LogRead, Tiled
    <3>2. ~ LastGiven(l, e)
      BY <1>0, <1>n, <1>a DEF LastGiven
    <3> QED BY <3>1, <3>2, <1>1 DEF LogRead, Tiled
  <2>3. new.len \in use.sizes /\ new.addr + new.len = next_free'[l]
    BY <1>1, <1>7
  <2> QED BY <2>1, <2>2, <2>3, <1>1 DEF Tiled
<1>12. Headers(l)'
  <2>1. ASSUME NEW b \in Unit
        PROVE  /\ mem'[l][b].valid => mem'[l][b].len > 0
               /\ mem'[l][b].len > 0 => mem'[l][b].len \in use.sizes /\ b + mem'[l][b].len <= Cap
    <3>1. CASE open /\ b = a
      BY <3>1, <1>9, <1>n
    <3>2. CASE ~ (open /\ b = a)
      <4>1. mem'[l][b] = mem[l][b]
        BY <3>2, <1>3
      <4> QED BY <4>1 DEF LogRead, Headers
    <3> QED BY <3>1, <3>2
  <2>2. ASSUME NEW u \in Thread, Fills(u, l)', pc'[u] = "open"
        PROVE  mem'[l][log_entry'[u]].len > 0
    <3>1. CASE u = t
      BY <3>1, <2>2, <1>2, <1>9, <1>n
    <3>2. CASE u # t
      <4>1. Fills(u, l) /\ pc[u] = "open" /\ log_entry'[u] = log_entry[u]
        BY <3>2, <2>2, <1>4 DEF SameThread
      <4>2. log_entry[u] \in Unit /\ mem[l][log_entry[u]].len > 0
        BY <4>1, FillerFacts DEF LogRead, Headers
      <4> QED BY <4>1, <4>2, <1>3, <1>9, <1>n
    <3> QED BY <3>1, <3>2
  <2>3. ASSUME NEW e \in given'[l] PROVE BeingFilled(l, e.addr)' \/ mem'[l][e.addr].valid
    <3>1. CASE e = new
      BY <3>1, <1>5, <1>7
    <3>2. CASE e \in given[l]
      BY <3>2, <1>3, <1>5, <1>6 DEF LogRead, Headers
    <3> QED BY <3>1, <3>2, <1>1
  <2> QED BY <2>1, <2>2, <2>3, <1>1 DEF Headers
<1>13. FirstPass(l)'
  <2> SUFFICES ASSUME pass[l] = 0
               PROVE  /\ \A u \in Thread : Fills(u, l)' =>
                           /\ [addr |-> log_entry'[u], len |-> size'[u]] \in given'[l]
                           /\ ~ mem'[l][log_entry'[u]].valid
                           /\ pc'[u] = "open" => mem'[l][log_entry'[u]].len = size'[u]
                           /\ \A v \in Thread :
                                Fills(v, l)' /\ log_entry'[v] = log_entry'[u] => v = u
                      /\ \A b \in Unit : mem'[l][b].valid =>
                           [addr |-> b, len |-> mem'[l][b].len] \in given'[l]
    BY <1>1 DEF FirstPass
  <2>1. ASSUME NEW u \in Thread, Fills(u, l), u # t
        PROVE  /\ log_entry'[u] = log_entry[u] /\ log_entry[u] # a
               /\ size'[u] = size[u] /\ pc'[u] = pc[u]
               /\ [addr |-> log_entry[u], len |-> size[u]] \in given[l]
               /\ mem'[l][log_entry[u]] = mem[l][log_entry[u]]
    <3> DEFINE e == [addr |-> log_entry[u], len |-> size[u]]
    <3>1. e \in given[l] /\ e.addr = log_entry[u]
      BY <2>1 DEF LogRead, FirstPass
    <3>2. log_entry[u] # a /\ log_entry[u] \in Unit
      BY <3>1, <1>6
    <3> QED BY <2>1, <3>1, <3>2, <1>3, <1>4 DEF SameThread
  <2>2. ~ mem[l][a].valid
    <3>1. ASSUME mem[l][a].valid PROVE FALSE
      <4> DEFINE e == [addr |-> a, len |-> mem[l][a].len]
      <4>1. e \in given[l] /\ e.addr = a
        BY <3>1, <1>n DEF LogRead, FirstPass
      <4> QED BY <4>1, <1>6
    <3> QED BY <3>1
  <2>3. ~ mem'[l][a].valid
    BY <2>2, <1>9, <1>10, <1>n
  <2>4. [addr |-> log_entry'[t], len |-> size'[t]] = new
    BY <1>2 DEF new
  <2>5. ASSUME NEW u \in Thread, Fills(u, l)'
        PROVE  /\ [addr |-> log_entry'[u], len |-> size'[u]] \in given'[l]
               /\ ~ mem'[l][log_entry'[u]].valid
               /\ pc'[u] = "open" => mem'[l][log_entry'[u]].len = size'[u]
               /\ \A v \in Thread :
                    Fills(v, l)' /\ log_entry'[v] = log_entry'[u] => v = u
    <3>1. CASE u = t
      BY <3>1, <2>1, <2>3, <2>4, <1>1, <1>2, <1>4, <1>9
    <3>2. CASE u # t
      <4>1. Fills(u, l)
        BY <3>2, <2>5, <1>4
      <4>2. /\ [addr |-> log_entry[u], len |-> size[u]] \in given[l]
            /\ ~ mem[l][log_entry[u]].valid
            /\ pc[u] = "open" => mem[l][log_entry[u]].len = size[u]
            /\ \A v \in Thread : Fills(v, l) /\ log_entry[v] = log_entry[u] => v = u
        BY <4>1 DEF LogRead, FirstPass
      <4>3. /\ log_entry'[u] = log_entry[u] /\ log_entry[u] # a
            /\ size'[u] = size[u] /\ pc'[u] = pc[u]
            /\ mem'[l][log_entry[u]] = mem[l][log_entry[u]]
        BY <4>1, <3>2, <2>1
      <4>4. ASSUME NEW v \in Thread, Fills(v, l)', log_entry'[v] = log_entry'[u] PROVE v = u
        <5>1. v # t
          BY <4>3, <4>4, <1>2
        <5>2. Fills(v, l) /\ log_entry'[v] = log_entry[v]
          BY <5>1, <4>4, <1>4 DEF SameThread
        <5> QED BY <5>2, <4>2, <4>3, <4>4
      <4> QED BY <4>2, <4>3, <4>4, <1>1
    <3> QED BY <3>1, <3>2
  <2>6. ASSUME NEW b \in Unit, mem'[l][b].valid
        PROVE  [addr |-> b, len |-> mem'[l][b].len] \in given'[l]
    <3>1. b # a
      BY <2>3, <2>6
    <3>2. mem'[l][b] = mem[l][b]
      BY <3>1, <1>3
    <3> QED BY <2>6, <3>2, <1>1 DEF LogRead, FirstPass
  <2> QED BY <2>5, <2>6
<1>14. Round(l)'
  <2> SUFFICES ASSUME use.circular, ~ lapped[l], ~ LapsOpenEntry(t, l, a, n),
                      NEW m \in use.sizes, Cap % m = 0
               PROVE  Placed(l, m)'
    BY <1>1 DEF Round
  <2>1. m = n /\ Placed(l, n) /\ n > 0
    <3>1. m = n
      BY <1>0, OneSize
    <3> QED BY <3>1, <1>n DEF LogRead, Round
  <2>2. a % n = 0 /\ (a + n) % n = 0
    <3>1. a % n = 0
      BY <2>1, <1>a DEF Placed
    <3> QED BY <3>1, <2>1, <1>0, <1>n, MultipleNext
  <2>3. \A b \in Unit : b % n = 0 /\ b # a =>
          /\ b < a + n <=> b < a
          /\ PassOf(l, b)' = PassOf(l, b)
    <3>1. ASSUME NEW b \in Unit, b % n = 0, b # a PROVE b < a + n <=> b < a
      <4>1. b \in Nat
        BY DEF Unit
      <4>2. a < b => a + n <= b
        BY <4>1, <3>1, <2>1, <2>2, <1>0, <1>n, MultipleGap
      <4> QED BY <4>1, <4>2, <3>1, <1>0, <1>n
    <3> QED BY <3>1, <1>1, <1>a DEF PassOf
  <2>4. a < a + n /\ PassOf(l, a)' = pass[l]
    BY <1>0, <1>1, <1>n DEF PassOf
  <2>5. ASSUME NEW u \in Thread, Fills(u, l)
        PROVE  /\ u # t /\ SameThread(u)
               /\ log_entry[u] # a /\ log_entry[u] \in Unit /\ log_entry[u] % n = 0
               /\ mem'[l][log_entry[u]] = mem[l][log_entry[u]]
    <3>1. u # t /\ SameThread(u)
      BY <2>5, <1>4
    <3>2. log_entry[u] \in Unit /\ log_entry[u] \in Nat /\ size[u] \in Nat /\ size[u] >= 1
      BY <2>5, FillerFacts
    <3>3. ~ Overlaps(a, n, log_entry[u], size[u])
      BY <2>5, <3>1 DEF LapsOpenEntry, Fills
    <3>4. log_entry[u] # a
      BY <3>2, <3>3, <1>0, <1>n DEF Overlaps
    <3>5. log_entry[u] % n = 0
      BY <2>1, <2>5 DEF Placed
    <3> QED BY <3>1, <3>2, <3>4, <3>5, <1>3
  <2>6. \A b \in Unit : mem'[l][b].len > 0 => b % n = 0
    <3>1. ASSUME NEW b \in Unit, mem'[l][b].len > 0 PROVE b % n = 0
      <4>1. CASE b = a
        BY <4>1, <2>2
      <4>2. CASE b # a
        BY <4>2, <3>1, <1>3, <2>1 DEF Placed
      <4> QED BY <4>1, <4>2
    <3> QED BY <3>1
  <2>7. ASSUME NEW u \in Thread, Fills(u, l)'
        PROVE  /\ log_entry'[u] % n = 0
               /\ log_entry'[u] < next_free'[l] \/ pass'[l] > 0
               /\ stamp'[u] = PassOf(l, log_entry[u])'
               /\ pc'[u] = "open" => mem'[l][log_entry'[u]].pass = stamp'[u]
               /\ \A v \in Thread : Fills(v, l)' /\ log_entry'[v] = log_entry'[u] => v = u
    <3>1. CASE u = t
      <4>1. PassOf(l, log_entry[u])' = pass[l]
        BY <3>1, <1>0, <1>1, <1>2, <1>n DEF PassOf
      <4>2. \A v \in Thread : Fills(v, l)' /\ log_entry'[v] = a => v = t
        BY <2>5, <1>4 DEF SameThread
      <4> QED BY <3>1, <4>1, <4>2, <2>2, <2>4, <1>1, <1>2, <1>9
    <3>2. CASE u # t
      <4>1. Fills(u, l)
        BY <3>2, <2>7, <1>4
      <4>a. PICK x : x = log_entry[u]
        OBVIOUS
      <4>2. /\ x < a \/ pass[l] > 0
            /\ stamp[u] = PassOf(l, x)
            /\ pc[u] = "open" => mem[l][x].pass = stamp[u]
            /\ \A v \in Thread : Fills(v, l) /\ log_entry[v] = x => v = u
        BY <4>1, <4>a, <2>1, <1>a DEF Placed
      <4>3. /\ log_entry'[u] = x /\ stamp'[u] = stamp[u] /\ pc'[u] = pc[u]
            /\ x # a /\ x \in Unit /\ x % n = 0
            /\ mem'[l][x] = mem[l][x]
        BY <4>1, <4>a, <2>5 DEF SameThread
      <4>4. PassOf(l, log_entry[u])' = PassOf(l, x) /\ (x < a => x < next_free'[l])
        <5>1. PassOf(l, log_entry[u])' = PassOf(l, x)'
          BY <4>3 DEF PassOf
        <5> QED BY <5>1, <4>3, <2>3, <1>1
      <4>5. \A v \in Thread : Fills(v, l)' /\ log_entry'[v] = x => v = u
        BY <4>2, <4>3, <1>2, <1>4 DEF SameThread
      <4> QED BY <4>2, <4>3, <4>4, <4>5, <1>1
    <3> QED BY <3>1, <3>2
  <2>8. ASSUME NEW b \in Unit, b % n = 0, b < next_free'[l] \/ pass'[l] > 0
        PROVE  BeingFilled(l, b)' \/ (mem'[l][b].valid /\ mem'[l][b].pass = PassOf(l, b)')
    <3>1. CASE b = a
      BY <3>1, <1>5
    <3>2. CASE b # a
      <4>1. BeingFilled(l, b) \/ (mem[l][b].valid /\ mem[l][b].pass = PassOf(l, b))
        BY <3>2, <2>1, <2>3, <2>8, <1>1, <1>a DEF Placed
      <4> QED BY <4>1, <3>2, <2>3, <2>8, <1>3, <1>5
    <3> QED BY <3>1, <3>2
  <2> QED BY <2>1, <2>2, <2>6, <2>7, <2>8, <1>1 DEF Placed
<1> QED BY <1>11, <1>12, <1>13, <1>14 DEF LogRead

(* A full circular log is started over with the entry of thread t, by the  *)
(* only thread that uses it.                                               *)
StartsOver(t, l, n) ==
  /\ Stands(t, l, 0, n, pass[l] + 1, TRUE)
  /\ next_free'[l] = n
  /\ pass'[l] = pass[l] + 1
  /\ given'[l] = {[addr |-> 0, len |-> n]}
  /\ lapped'[l] = lapped[l]

(* The same of a log that is started over with its first entry. *)
LEMMA StartOverKeeps ==
  ASSUME LogInv, CallsRead, NEW l \in Log, LogRead(l), NEW t \in Thread,
         \A u \in Thread : ~ Fills(u, l),
         NEW n \in use.sizes, ~ Fits(next_free[l], n), StartsOver(t, l, n)
  PROVE  LogRead(l)'
<1> USE LogAssumption
<1>0. TypeOK /\ next_free[l] \in Nat /\ pass[l] \in Nat
  BY DEF LogInv, TypeOK
<1>s. use.sizes \subseteq 1..Cap
  BY <1>0, UseFacts
<1>n. n \in Nat /\ n >= 1 /\ n <= Cap /\ 0 \in Unit
  BY <1>s DEF Unit
<1>1. /\ use' = use
      /\ next_free'[l] = n
      /\ pass'[l] = pass[l] + 1 /\ pass'[l] > 0
      /\ given'[l] = {[addr |-> 0, len |-> n]}
      /\ lapped'[l] = lapped[l]
  BY <1>0 DEF StartsOver, Stands
<1>2. /\ pc'[t] = "open" /\ log'[t] = l /\ log_entry'[t] = 0 /\ stamp'[t] = pass[l] + 1
      /\ \A u \in Thread : Fills(u, l)' <=> u = t
      /\ BeingFilled(l, 0)'
  <2>1. /\ pc'[t] = "open" /\ log'[t] = l /\ log_entry'[t] = 0 /\ stamp'[t] = pass[l] + 1
    BY DEF StartsOver, Stands
  <2>2. \A u \in Thread \ {t} : SameThread(u)
    BY DEF StartsOver, Stands
  <2>3. \A u \in Thread : Fills(u, l)' <=> u = t
    BY <2>1, <2>2 DEF Fills, SameThread
  <2> QED BY <2>1, <2>3 DEF BeingFilled
<1>3. /\ \A b \in Unit : b # 0 => mem'[l][b] = mem[l][b]
      /\ mem'[l][0].len = n /\ ~ mem'[l][0].valid /\ mem'[l][0].pass = pass[l] + 1
  <2>1. mem'[l][0] = [len |-> n, valid |-> FALSE, pass |-> pass[l] + 1]
    BY DEF StartsOver, Stands
  <2> QED BY <2>1 DEF StartsOver, Stands
<1>4. \A a : ~ BeingFilled(l, a)
  BY DEF BeingFilled, Fills
<1>5. Tiled(l)'
  <2> DEFINE e == [addr |-> 0, len |-> n]
  <2>1. e.addr = 0 /\ e.len = n /\ e.addr + e.len = n
    BY <1>n
  <2> HIDE DEF e
  <2>2. given'[l] = {e}
    BY <1>1 DEF e
  <2> QED BY <2>1, <2>2, <1>1 DEF Tiled
<1>6. Headers(l)'
  <2>1. ASSUME NEW b \in Unit
        PROVE  /\ mem'[l][b].valid => mem'[l][b].len > 0
               /\ mem'[l][b].len > 0 => mem'[l][b].len \in use.sizes /\ b + mem'[l][b].len <= Cap
    <3>1. CASE b = 0
      BY <3>1, <1>3, <1>n
    <3>2. CASE b # 0
      BY <3>2, <1>3 DEF LogRead, Headers
    <3> QED BY <3>1, <3>2
  <2>2. \A u \in Thread : Fills(u, l)' => mem'[l][log_entry'[u]].len > 0
    BY <1>2, <1>3, <1>n
  <2>3. \A e \in given'[l] : e.addr = 0
    BY <1>1
  <2> QED BY <2>1, <2>2, <2>3, <1>1, <1>2 DEF Headers
<1>7. FirstPass(l)'
  BY <1>1 DEF FirstPass
<1>8. Round(l)'
  <2> SUFFICES ASSUME use.circular, ~ lapped[l], NEW m \in use.sizes, Cap % m = 0
               PROVE  Placed(l, m)'
    BY <1>1 DEF Round
  <2>1. m = n /\ Placed(l, n) /\ n > 0
    <3>1. m = n
      BY <1>0, OneSize
    <3> QED BY <3>1, <1>n DEF LogRead, Round
  <2>2. next_free[l] >= Cap
    BY <2>1, <1>n, PlacedEnd
  <2>3. 0 % n = 0 /\ n % n = 0
    <3>1. 0 % n = 0
      BY <2>1, <1>n, MultipleZero
    <3>2. (0 + n) % n = 0
      BY <3>1, <2>1, <1>n, MultipleNext
    <3> QED BY <3>1, <3>2, <1>n
  <2>4. \A b \in Unit : b \in Nat /\ b < next_free[l]
    BY <2>2, <1>0 DEF Unit
  <2>5. \A b \in Unit : mem'[l][b].len > 0 => b % n = 0
    <3>1. ASSUME NEW b \in Unit, mem'[l][b].len > 0 PROVE b % n = 0
      <4>1. CASE b = 0
        BY <4>1, <2>3
      <4>2. CASE b # 0
        BY <4>2, <3>1, <1>3, <2>1 DEF Placed
      <4> QED BY <4>1, <4>2
    <3> QED BY <3>1
  <2>6. ASSUME NEW u \in Thread, Fills(u, l)'
        PROVE  /\ log_entry'[u] % n = 0
               /\ stamp'[u] = PassOf(l, log_entry[u])'
               /\ mem'[l][log_entry'[u]].pass = stamp'[u]
               /\ \A v \in Thread : Fills(v, l)' /\ log_entry'[v] = log_entry'[u] => v = u
    <3>1. u = t
      BY <2>6, <1>2
    <3>2. PassOf(l, log_entry[u])' = pass[l] + 1
      BY <3>1, <1>1, <1>2, <2>1 DEF PassOf
    <3> QED BY <3>1, <3>2, <2>3, <1>2, <1>3
  <2>7. ASSUME NEW b \in Unit, b % n = 0
        PROVE  BeingFilled(l, b)' \/ (mem'[l][b].valid /\ mem'[l][b].pass = PassOf(l, b)')
    <3>1. CASE b = 0
      BY <3>1, <1>2
    <3>2. CASE b # 0
      <4>1. mem[l][b].valid /\ mem[l][b].pass = pass[l]
        BY <2>1, <2>4, <2>7, <1>4 DEF Placed, PassOf
      <4>2. n <= b
        <5>1. b \in Nat /\ 0 < b
          BY <3>2, <2>4
        <5>2. 0 + n <= b
          BY <5>1, <2>1, <2>3, <2>7, <1>n, MultipleGap
        <5> QED BY <5>2, <1>n
      <4>3. PassOf(l, b)' = pass[l]
        BY <4>2, <2>4, <1>0, <1>1, <1>n DEF PassOf
      <4> QED BY <3>2, <4>1, <4>3, <1>3
    <3> QED BY <3>1, <3>2
  <2> QED BY <2>1, <2>3, <2>5, <2>6, <2>7, <1>1 DEF Placed
<1> QED BY <1>5, <1>6, <1>7, <1>8 DEF LogRead

(* The header of an entry is written, or made valid. *)
Writes(t, l, h) ==
  /\ use' = use
  /\ next_free'[l] = next_free[l] /\ pass'[l] = pass[l]
  /\ given'[l] = given[l] /\ lapped'[l] = lapped[l]
  /\ \A u \in Thread \ {t} : SameThread(u)
  /\ \A b \in Unit : b # log_entry[t] => mem'[l][b] = mem[l][b]
  /\ mem'[l][log_entry[t]] = h

(* The thread that has the entry writes its header. *)
LEMMA WriteHeaderKeeps ==
  ASSUME LogInv, CallsRead, NEW l \in Log, LogRead(l), NEW t \in Thread, Fills(t, l),
         Writes(t, l, [len |-> size[t], valid |-> FALSE, pass |-> stamp[t]]),
         pc'[t] = "open", log'[t] = l, size'[t] = size[t],
         log_entry'[t] = log_entry[t], stamp'[t] = stamp[t]
  PROVE  LogRead(l)'
<1> USE LogAssumption
<1>a. PICK a : a = log_entry[t]
  OBVIOUS
<1>0. /\ a \in Unit /\ a \in Nat
      /\ size[t] \in use.sizes /\ size[t] \in Nat /\ size[t] >= 1
      /\ a + size[t] <= Cap
  BY <1>a, FillerFacts
<1>1. /\ use' = use
      /\ next_free'[l] = next_free[l] /\ pass'[l] = pass[l]
      /\ given'[l] = given[l] /\ lapped'[l] = lapped[l]
  BY DEF Writes
<1>2. /\ \A u \in Thread : /\ Fills(u, l)' <=> Fills(u, l)
                           /\ log_entry'[u] = log_entry[u] /\ size'[u] = size[u]
                           /\ stamp'[u] = stamp[u]
                           /\ u # t => pc'[u] = pc[u]
      /\ \A b : BeingFilled(l, b)' <=> BeingFilled(l, b)
  <2>1. \A u \in Thread : /\ Fills(u, l)' <=> Fills(u, l)
                          /\ log_entry'[u] = log_entry[u] /\ size'[u] = size[u]
                          /\ stamp'[u] = stamp[u]
                          /\ u # t => pc'[u] = pc[u]
    BY DEF Writes, SameThread, Fills
  <2> QED BY <2>1 DEF BeingFilled, Fills
<1>3. /\ \A b \in Unit : b # a => mem'[l][b] = mem[l][b]
      /\ mem'[l][a].len = size[t] /\ ~ mem'[l][a].valid /\ mem'[l][a].pass = stamp[t]
  <2>1. mem'[l][a] = [len |-> size[t], valid |-> FALSE, pass |-> stamp[t]]
    BY <1>a DEF Writes
  <2> QED BY <2>1, <1>a DEF Writes
<1>4. BeingFilled(l, a)
  BY <1>a DEF BeingFilled, Fills
<1>5. Tiled(l)'
  BY <1>1 DEF LogRead, Tiled, LastGiven
<1>6. Headers(l)'
  <2>1. ASSUME NEW b \in Unit
        PROVE  /\ mem'[l][b].valid => mem'[l][b].len > 0
               /\ mem'[l][b].len > 0 => mem'[l][b].len \in use.sizes /\ b + mem'[l][b].len <= Cap
    <3>1. CASE b = a
      BY <3>1, <1>0, <1>3
    <3>2. CASE b # a
      BY <3>2, <1>3 DEF LogRead, Headers
    <3> QED BY <3>1, <3>2
  <2>2. ASSUME NEW u \in Thread, Fills(u, l)', pc'[u] = "open"
        PROVE  mem'[l][log_entry'[u]].len > 0
    <3>1. CASE log_entry[u] = a
      BY <3>1, <1>0, <1>2, <1>3
    <3>2. CASE log_entry[u] # a
      <4>1. Fills(u, l) /\ u # t /\ pc[u] = "open"
        BY <3>2, <2>2, <1>a, <1>2
      <4>2. log_entry[u] \in Unit /\ mem[l][log_entry[u]].len > 0
        BY <4>1, FillerFacts DEF LogRead, Headers
      <4> QED BY <3>2, <4>2, <1>2, <1>3
    <3> QED BY <3>1, <3>2
  <2>3. ASSUME NEW e \in given[l] PROVE BeingFilled(l, e.addr)' \/ mem'[l][e.addr].valid
    <3>1. e.addr \in Unit
      BY EntryFacts
    <3> QED BY <3>1, <1>2, <1>3, <1>4 DEF LogRead, Headers
  <2> QED BY <2>1, <2>2, <2>3, <1>1 DEF Headers
<1>7. FirstPass(l)'
  <2> SUFFICES ASSUME pass[l] = 0 PROVE FirstPass(l)'
    BY <1>1 DEF FirstPass
  <2>1. ASSUME NEW u \in Thread, Fills(u, l)
        PROVE  /\ ~ mem'[l][log_entry[u]].valid
               /\ pc'[u] = "open" => mem'[l][log_entry[u]].len = size[u]
    <3>1. CASE u = t
      BY <3>1, <1>a, <1>3
    <3>2. CASE u # t
      <4>1. log_entry[u] # a /\ log_entry[u] \in Unit
        BY <3>2, <2>1, <1>a, FillerFacts DEF LogRead, FirstPass
      <4> QED BY <3>2, <4>1, <2>1, <1>2, <1>3 DEF LogRead, FirstPass
    <3> QED BY <3>1, <3>2
  <2>2. \A b \in Unit : mem'[l][b].valid => [addr |-> b, len |-> mem'[l][b].len] \in given[l]
    BY <1>3 DEF LogRead, FirstPass
  <2> QED BY <2>1, <2>2, <1>1, <1>2 DEF LogRead, FirstPass
<1>8. Round(l)'
  <2> SUFFICES ASSUME use.circular, ~ lapped[l], NEW n \in use.sizes, Placed(l, n)
               PROVE  Placed(l, n)'
    BY <1>1 DEF LogRead, Round
  <2>1. \A b \in Unit : mem'[l][b].len > 0 => b % n = 0
    BY <1>a, <1>3 DEF Placed
  <2>2. \A b : PassOf(l, b)' = PassOf(l, b)
    BY <1>1 DEF PassOf
  <2>3. ASSUME NEW u \in Thread, Fills(u, l), pc'[u] = "open"
        PROVE  mem'[l][log_entry[u]].pass = stamp[u]
    <3>1. CASE u = t
      BY <3>1, <1>a, <1>3
    <3>2. CASE u # t
      <4>1. log_entry[u] # a /\ log_entry[u] \in Unit
        BY <3>2, <2>3, <1>a, FillerFacts DEF Placed
      <4> QED BY <3>2, <4>1, <2>3, <1>2, <1>3 DEF Placed
    <3> QED BY <3>1, <3>2
  <2>4. \A u \in Thread : PassOf(l, log_entry[u])' = PassOf(l, log_entry[u])
    BY <1>1, <1>2 DEF PassOf
  <2>5. ASSUME NEW b \in Unit, b % n = 0, b < next_free[l] \/ pass[l] > 0
        PROVE  BeingFilled(l, b)' \/ (mem'[l][b].valid /\ mem'[l][b].pass = PassOf(l, b))
    BY <2>5, <1>2, <1>3, <1>4 DEF Placed
  <2> QED BY <2>1, <2>2, <2>3, <2>4, <2>5, <1>1, <1>2 DEF Placed
<1> QED BY <1>5, <1>6, <1>7, <1>8 DEF LogRead

(* It makes the header valid and leaves. *)
LEMMA CompleteKeeps ==
  ASSUME LogInv, CallsRead, NEW l \in Log, LogRead(l), NEW t \in Thread, Fills(t, l),
         pc[t] = "open",
         Writes(t, l, [mem[l][log_entry[t]] EXCEPT !.valid = TRUE]),
         ~ Fills(t, l)'
  PROVE  LogRead(l)'
<1> USE LogAssumption
<1>a. PICK a : a = log_entry[t]
  OBVIOUS
<1>0. TypeOK /\ a \in Unit
  BY <1>a, FillerFacts DEF LogInv
<1>1. /\ use' = use
      /\ next_free'[l] = next_free[l] /\ pass'[l] = pass[l]
      /\ given'[l] = given[l] /\ lapped'[l] = lapped[l]
  BY DEF Writes
<1>2. /\ \A u \in Thread : /\ Fills(u, l)' <=> Fills(u, l) /\ u # t
                           /\ u # t => SameThread(u)
      /\ \A b : b # a => (BeingFilled(l, b)' <=> BeingFilled(l, b))
  <2>1. \A u \in Thread : /\ Fills(u, l)' <=> Fills(u, l) /\ u # t
                          /\ u # t => SameThread(u)
    BY DEF Writes, SameThread, Fills
  <2> QED BY <2>1, <1>a DEF BeingFilled, Fills, SameThread
<1>3. /\ \A b \in Unit : b # a => mem'[l][b] = mem[l][b]
      /\ mem'[l][a].len = mem[l][a].len /\ mem'[l][a].valid
      /\ mem'[l][a].pass = mem[l][a].pass
  <2> DEFINE h == mem[l][a]
  <2>1. mem'[l][a] = [h EXCEPT !.valid = TRUE]
    BY <1>a DEF Writes
  <2>2. h = [len |-> h.len, valid |-> h.valid, pass |-> h.pass]
    BY <1>0, HeaderTypes
  <2> QED BY <2>1, <2>2, <1>a DEF Writes
<1>4. mem[l][a].len > 0
  BY <1>a DEF LogRead, Headers
<1>5. Tiled(l)'
  BY <1>1 DEF LogRead, Tiled, LastGiven
<1>6. Headers(l)'
  <2>1. ASSUME NEW b \in Unit
        PROVE  /\ mem'[l][b].len = mem[l][b].len
               /\ mem'[l][b].valid => mem'[l][b].len > 0
    BY <1>3, <1>4 DEF LogRead, Headers
  <2>2. ASSUME NEW u \in Thread, Fills(u, l)', pc'[u] = "open"
        PROVE  mem'[l][log_entry'[u]].len > 0
    <3>1. Fills(u, l) /\ pc[u] = "open" /\ log_entry'[u] = log_entry[u]
      BY <2>2, <1>2 DEF SameThread
    <3>2. log_entry[u] \in Unit /\ mem[l][log_entry[u]].len > 0
      BY <3>1, FillerFacts DEF LogRead, Headers
    <3> QED BY <3>1, <3>2, <2>1
  <2>3. ASSUME NEW e \in given[l] PROVE BeingFilled(l, e.addr)' \/ mem'[l][e.addr].valid
    <3>1. e.addr \in Unit
      BY EntryFacts
    <3>2. CASE e.addr = a
      BY <3>2, <1>3
    <3>3. CASE e.addr # a
      BY <3>1, <3>3, <1>2, <1>3 DEF LogRead, Headers
    <3> QED BY <3>2, <3>3
  <2>4. \A b \in Unit :
          mem'[l][b].len > 0 => mem'[l][b].len \in use.sizes /\ b + mem'[l][b].len <= Cap
    BY <2>1 DEF LogRead, Headers
  <2> QED BY <2>1, <2>2, <2>3, <2>4, <1>1 DEF Headers
<1>7. FirstPass(l)'
  <2> SUFFICES ASSUME pass[l] = 0 PROVE FirstPass(l)'
    BY <1>1 DEF FirstPass
  <2>1. ASSUME NEW u \in Thread, Fills(u, l)'
        PROVE  /\ [addr |-> log_entry'[u], len |-> size'[u]] \in given[l]
               /\ ~ mem'[l][log_entry'[u]].valid
               /\ pc'[u] = "open" => mem'[l][log_entry'[u]].len = size'[u]
               /\ \A v \in Thread : Fills(v, l)' /\ log_entry'[v] = log_entry'[u] => v = u
    <3>1. Fills(u, l) /\ u # t /\ SameThread(u)
      BY <2>1, <1>2
    <3>2. log_entry[u] # a /\ log_entry[u] \in Unit
      BY <3>1, <1>a, FillerFacts DEF LogRead, FirstPass
    <3>3. /\ [addr |-> log_entry[u], len |-> size[u]] \in given[l]
          /\ ~ mem[l][log_entry[u]].valid
          /\ pc[u] = "open" => mem[l][log_entry[u]].len = size[u]
          /\ \A v \in Thread : Fills(v, l) /\ log_entry[v] = log_entry[u] => v = u
      BY <3>1 DEF LogRead, FirstPass
    <3>4. \A v \in Thread : Fills(v, l)' => Fills(v, l) /\ log_entry'[v] = log_entry[v]
      BY <1>2 DEF SameThread
    <3> QED BY <3>1, <3>2, <3>3, <3>4, <1>3 DEF SameThread
  <2>2. ASSUME NEW b \in Unit, mem'[l][b].valid
        PROVE  [addr |-> b, len |-> mem'[l][b].len] \in given[l]
    <3>1. CASE b = a
      <4>1. [addr |-> a, len |-> size[t]] \in given[l] /\ mem[l][a].len = size[t]
        BY <1>a DEF LogRead, FirstPass
      <4> QED BY <3>1, <4>1, <1>3
    <3>2. CASE b # a
      BY <3>2, <2>2, <1>3 DEF LogRead, FirstPass
    <3> QED BY <3>1, <3>2
  <2> QED BY <2>1, <2>2, <1>1 DEF FirstPass
<1>8. Round(l)'
  <2> SUFFICES ASSUME use.circular, ~ lapped[l], NEW n \in use.sizes, Placed(l, n)
               PROVE  Placed(l, n)'
    BY <1>1 DEF LogRead, Round
  <2>1. \A b \in Unit : mem'[l][b].len > 0 => b % n = 0
    BY <1>3 DEF Placed
  <2>2. \A b : PassOf(l, b)' = PassOf(l, b)
    BY <1>1 DEF PassOf
  <2>3. ASSUME NEW u \in Thread, Fills(u, l)'
        PROVE  /\ log_entry'[u] % n = 0
               /\ log_entry'[u] < next_free[l] \/ pass[l] > 0
               /\ stamp'[u] = PassOf(l, log_entry[u])'
               /\ pc'[u] = "open" => mem'[l][log_entry'[u]].pass = stamp'[u]
               /\ \A v \in Thread : Fills(v, l)' /\ log_entry'[v] = log_entry'[u] => v = u
    <3>1. Fills(u, l) /\ u # t /\ SameThread(u)
      BY <2>3, <1>2
    <3>2. log_entry[u] # a /\ log_entry[u] \in Unit
      BY <3>1, <1>a, FillerFacts DEF Placed
    <3>3. /\ log_entry[u] % n = 0
          /\ log_entry[u] < next_free[l] \/ pass[l] > 0
          /\ stamp[u] = PassOf(l, log_entry[u])
          /\ pc[u] = "open" => mem[l][log_entry[u]].pass = stamp[u]
          /\ \A v \in Thread : Fills(v, l) /\ log_entry[v] = log_entry[u] => v = u
      BY <3>1 DEF Placed
    <3>4. \A v \in Thread : Fills(v, l)' => Fills(v, l) /\ log_entry'[v] = log_entry[v]
      BY <1>2 DEF SameThread
    <3>5. PassOf(l, log_entry[u])' = PassOf(l, log_entry[u])
      BY <3>1, <1>1 DEF PassOf, SameThread
    <3> QED BY <3>1, <3>2, <3>3, <3>4, <3>5, <1>3 DEF SameThread
  <2>4. ASSUME NEW b \in Unit, b % n = 0, b < next_free[l] \/ pass[l] > 0
        PROVE  BeingFilled(l, b)' \/ (mem'[l][b].valid /\ mem'[l][b].pass = PassOf(l, b))
    <3>1. CASE b = a
      <4>1. mem[l][a].pass = stamp[t] /\ stamp[t] = PassOf(l, a)
        BY <1>a DEF Placed
      <4> QED BY <3>1, <4>1, <1>3
    <3>2. CASE b # a
      BY <3>2, <2>4, <1>2, <1>3 DEF Placed
    <3> QED BY <3>1, <3>2
  <2> QED BY <2>1, <2>2, <2>3, <2>4, <1>1 DEF Placed
<1> QED BY <1>5, <1>6, <1>7, <1>8 DEF LogRead

-----------------------------------------------------------------------------
(* Each step, on each log. *)
LEMMA AllocReads ==
  ASSUME LogInv, ReadInv, NEW t \in Thread, NEW l \in Log, NEW n \in use.sizes,
         pc[t] \in {"idle", "add"}, AllocTimeStamped(t, l, n)
  PROVE  ReadInv'
<1> USE LogAssumption
<1>0. TypeOK
  BY DEF LogInv
<1>n. n \in Nat
  BY <1>0, UseFacts
<1>1. /\ use' = use /\ options' = options /\ mem' = mem
      /\ next_free' = [next_free EXCEPT ![l] = @ + n]
  BY DEF AllocTimeStamped, FetchAdd
<1>2. pass' = pass
  BY DEF AllocTimeStamped, Give, ghost
<1>3. \A u \in Thread \ {t} : SameThread(u)
  BY <1>0 DEF AllocTimeStamped, Call, Goto, Return, SameThread, TypeOK
<1>4. CallsRead'
  <2>1. pc'[t] \in {"header", "primary", "wait", "idle"}
    BY <1>0 DEF AllocTimeStamped, Goto, Return, TypeOK
  <2>2. pc'[t] # "idle" => size'[t] = n
    BY <1>0 DEF AllocTimeStamped, Goto, Return, Call, TypeOK
  <2>3. ASSUME NEW u \in Thread
        PROVE  /\ pc'[u] \in {"header", "open", "primary", "mark", "wait", "add"} =>
                    size'[u] \in use.sizes
               /\ pc'[u] = "mark" => pass'[log'[u]] > 0
    <3>1. CASE u = t
      BY <3>1, <2>1, <2>2
    <3>2. CASE u # t
      BY <3>2, <1>2, <1>3 DEF ReadInv, CallsRead, SameThread
    <3> QED BY <3>1, <3>2
  <2> QED BY <2>3, <1>1, <1>2 DEF ReadInv, CallsRead
<1>5. ASSUME ~ use.raw, NEW k \in Log PROVE LogRead(k)'
  <2>0. CallsRead /\ LogRead(k)
    BY <1>5 DEF ReadInv
  <2>1. ~ Fills(t, k)
    BY DEF Fills
  <2>2. CASE k # l
    <3>1. next_free'[k] = next_free[k]
      BY <2>2, <1>0, <1>1 DEF TypeOK
    <3>2. given'[k] = given[k] /\ lapped'[k] = lapped[k]
      BY <2>2, <1>0 DEF AllocTimeStamped, Give, ghost, TypeOK
    <3>3. ~ Fills(t, k)'
      BY <2>2, <1>0 DEF AllocTimeStamped, Goto, Return, Call, TypeOK, Fills
    <3>4. SameLog(k)
      BY <3>1, <3>2, <3>3, <2>1, <1>1, <1>2, <1>3 DEF SameLog, SameFiller
    <3> QED BY <3>4, <2>0, SameKeeps
  <2>3. CASE k = l /\ Fits(next_free[l], n)
    <3>1. Give(t, l, n) /\ Call(t, l, n) /\ Goto(t, "header")
          /\ log_entry' = [log_entry EXCEPT ![t] = next_free[l]]
          /\ stamp' = [stamp EXCEPT ![t] = pass[l]]
      BY <2>3 DEF AllocTimeStamped
    <3>2. Stands(t, l, next_free[l], n, pass[l], FALSE)
      BY <3>1, <1>0, <1>1, <1>3 DEF Stands, Call, Goto, TypeOK
    <3>3. Gives(t, l, n, FALSE)
      BY <3>1, <3>2, <1>0, <1>1, <1>2 DEF Gives, Give, TypeOK
    <3> QED BY <3>3, <2>0, <2>1, <2>3, GiveKeeps
  <2>4. CASE k = l /\ ~ Fits(next_free[l], n)
    <3>1. ~ Fills(t, l)' /\ UNCHANGED ghost
      BY <2>4, <1>0 DEF AllocTimeStamped, Goto, Return, Call, TypeOK, Fills
    <3>2. Overflows(l, n)
      BY <3>1, <2>1, <2>4, <1>0, <1>1, <1>3 DEF Overflows, SameFiller, ghost, TypeOK
    <3> QED BY <3>2, <2>0, <2>4, OverflowKeeps
  <2> QED BY <2>2, <2>3, <2>4
<1> QED BY <1>1, <1>4, <1>5 DEF ReadInv

(* A program that makes raw entries has nothing to read. *)
LEMMA AllocRawReads ==
  ASSUME LogInv, ReadInv, NEW t \in Thread, NEW l \in Log, NEW n \in use.sizes,
         AllocRaw(t, l, n)
  PROVE  ReadInv'
<1>0. TypeOK
  BY DEF LogInv
<1>1. use' = use /\ use.raw /\ options' = options
  BY DEF AllocRaw
<1>2. pass' = pass
  BY DEF AllocRaw, Give, ghost
<1>3. /\ pc'[t] = "idle"
      /\ \A u \in Thread \ {t} : SameThread(u)
  BY <1>0 DEF AllocRaw, Goto, Return, SameThread, TypeOK
<1>4. CallsRead'
  BY <1>1, <1>2, <1>3 DEF ReadInv, CallsRead, SameThread
<1> QED BY <1>1, <1>4 DEF ReadInv

(* The only user has no entry open when it allocates. *)
LEMMA AllocNoLockReads ==
  ASSUME LogInv, ReadInv, NEW t \in Thread, NEW l \in Log, NEW n \in use.sizes,
         AllocNoLock(t, l, n)
  PROVE  ReadInv'
<1> USE LogAssumption
<1>0. TypeOK /\ pass[l] \in Nat
  BY DEF LogInv, TypeOK
<1>n. n \in Nat /\ use.sizes \subseteq 1..Cap
  BY <1>0, UseFacts
<1>1. use' = use /\ pc[t] = "idle"
  BY DEF AllocNoLock, Begin
<1>2. \A u \in Thread : pc[u] = "idle"
  BY <1>1 DEF AllocNoLock, LogInv, CallsInUse
<1>3. \A u \in Thread : \A k \in Log : ~ Fills(u, k)
  BY <1>2 DEF Fills
<1>4. /\ \A u \in Thread \ {t} : SameThread(u)
      /\ pc'[t] \in {"open", "idle"}
      /\ pc'[t] = "open" => size'[t] = n /\ log'[t] = l
  BY <1>0 DEF AllocNoLock, Stored, Call, Goto, Return, SameThread, TypeOK
<1>5. /\ \A k \in Log \ {l} : /\ next_free'[k] = next_free[k] /\ mem'[k] = mem[k]
                              /\ pass'[k] = pass[k] /\ given'[k] = given[k]
                              /\ lapped'[k] = lapped[k] /\ options'[k] = options[k]
      /\ pass'[l] >= pass[l] /\ pass'[l] \in Nat
  BY <1>0 DEF AllocNoLock, FetchAdd, Give, Stored, ghost, TypeOK
<1>6. CallsRead'
  <2>1. ASSUME NEW u \in Thread
        PROVE  /\ pc'[u] \in {"header", "open", "primary", "mark", "wait", "add"} =>
                    size'[u] \in use.sizes
               /\ pc'[u] # "mark"
    <3>1. CASE u = t
      BY <3>1, <1>4
    <3>2. CASE u # t
      BY <3>2, <1>2, <1>4 DEF SameThread
    <3> QED BY <3>1, <3>2
  <2>2. /\ "WRAPED" \in options'[l] => pass'[l] > 0
        /\ pass'[l] > 0 => use.circular \/ use.resets
    <3>1. CASE ~ Fits(next_free[l], n) /\ "CIRCULAR" \in options[l]
      <4>1. use.circular /\ pass'[l] = pass[l] + 1
        BY <3>1, <1>0 DEF AllocNoLock, LogInv, CallsInUse, TypeOK
      <4> QED BY <4>1, <1>0
    <3>2. CASE Fits(next_free[l], n) \/ "CIRCULAR" \notin options[l]
      BY <3>2 DEF AllocNoLock, Give, ghost, ReadInv, CallsRead
    <3> QED BY <3>1, <3>2
  <2> QED BY <2>1, <2>2, <1>1, <1>5 DEF ReadInv, CallsRead
<1>7. ASSUME ~ use.raw, NEW k \in Log PROVE LogRead(k)'
  <2>0. CallsRead /\ LogRead(k)
    BY <1>7 DEF ReadInv
  <2>1. CASE k # l
    <3>1. ~ Fills(t, k)'
      BY <2>1, <1>4 DEF Fills
    <3>2. SameLog(k)
      BY <3>1, <2>1, <1>1, <1>3, <1>4, <1>5 DEF SameLog, SameFiller
    <3> QED BY <3>2, <2>0, SameKeeps
  <2>2. ASSUME NEW a \in Unit, NEW p \in Nat, Stored(t, l, a, n, p)
        PROVE  Stands(t, l, a, n, p, TRUE)
    <3> DEFINE h == [len |-> n, valid |-> FALSE, pass |-> p]
    <3>1. mem' = [mem EXCEPT ![l][a] = h]
      BY <2>2 DEF Stored
    <3> HIDE DEF h
    <3>2. mem'[l][a] = h /\ \A b \in Unit : b # a => mem'[l][b] = mem[l][b]
      BY <3>1, <1>0 DEF TypeOK
    <3>3. /\ pc'[t] = "open" /\ log'[t] = l /\ size'[t] = n
          /\ log_entry'[t] = a /\ stamp'[t] = p
      BY <2>2, <1>0 DEF Stored, Call, Goto, TypeOK
    <3> QED BY <3>2, <3>3, <1>1, <1>4 DEF Stands, h
  <2>3. CASE k = l /\ Fits(next_free[l], n)
    <3>1. FetchAdd(l, n) /\ Give(t, l, n) /\ Stored(t, l, next_free[l], n, pass[l])
      BY <2>3 DEF AllocNoLock
    <3>2. next_free[l] \in Unit
      BY <2>3, <1>0, <1>n DEF Fits, Unit, TypeOK
    <3>3. Stands(t, l, next_free[l], n, pass[l], TRUE)
      BY <3>1, <3>2, <2>2, <1>0
    <3>4. Gives(t, l, n, TRUE)
      BY <3>1, <3>3, <1>0 DEF Gives, Give, FetchAdd, TypeOK
    <3> QED BY <3>4, <2>0, <2>3, <1>3, GiveKeeps
  <2>4. CASE k = l /\ ~ Fits(next_free[l], n) /\ "CIRCULAR" \in options[l]
    <3>1. /\ Stored(t, l, 0, n, pass[l] + 1)
          /\ next_free' = [next_free EXCEPT ![l] = n]
          /\ pass' = [pass EXCEPT ![l] = @ + 1]
          /\ given' = [given EXCEPT ![l] = {[addr |-> 0, len |-> n]}]
          /\ lapped' = lapped
      BY <2>4 DEF AllocNoLock
    <3>2. Stands(t, l, 0, n, pass[l] + 1, TRUE)
      <4>1. 0 \in Unit /\ pass[l] + 1 \in Nat
        BY <1>0 DEF Unit
      <4> QED BY <3>1, <4>1, <2>2
    <3>3. StartsOver(t, l, n)
      BY <3>1, <3>2, <1>0 DEF StartsOver, TypeOK
    <3> QED BY <3>3, <2>0, <2>4, <1>3, StartOverKeeps
  <2>5. CASE k = l /\ ~ Fits(next_free[l], n) /\ "CIRCULAR" \notin options[l]
    <3>1. FetchAdd(l, n) /\ Return(t) /\ UNCHANGED <<mem, ghost>>
      BY <2>5 DEF AllocNoLock
    <3>2. ~ Fills(t, l)'
      BY <3>1, <1>0 DEF Return, Goto, TypeOK, Fills
    <3>3. Overflows(l, n)
      BY <3>1, <3>2, <1>0, <1>1, <1>3, <1>4
         DEF Overflows, SameFiller, FetchAdd, ghost, TypeOK
    <3> QED BY <3>3, <2>0, <2>5, OverflowKeeps
  <2> QED BY <2>1, <2>3, <2>4, <2>5
<1> QED BY <1>1, <1>6, <1>7 DEF ReadInv

(* A step that changes no header, and of the logs at most log k, which it  *)
(* starts over, and of the threads only those that fill no entry.          *)
LEMMA OthersKeep ==
  ASSUME LogInv, ReadInv, ~ use.raw, use' = use, mem' = mem,
         \A u \in Thread : \A l \in Log : SameFiller(u, l),
         NEW k \in Log,
         \A l \in Log \ {k} :
           /\ next_free'[l] = next_free[l] /\ pass'[l] = pass[l]
           /\ given'[l] = given[l] /\ lapped'[l] = lapped[l],
         \/ /\ next_free'[k] = next_free[k] /\ pass'[k] = pass[k]
            /\ given'[k] = given[k] /\ lapped'[k] = lapped[k]
         \/ /\ next_free'[k] = 0 /\ pass'[k] = pass[k] + 1
            /\ given'[k] = {} /\ lapped'[k] = lapped[k]
            /\ use.circular => next_free[k] >= Cap
  PROVE  \A l \in Log : LogRead(l)'
<1> SUFFICES ASSUME NEW l \in Log PROVE LogRead(l)'
  OBVIOUS
<1>1. CallsRead /\ LogRead(l)
  BY DEF ReadInv
<1>2. \A u \in Thread : SameFiller(u, l)
  OBVIOUS
<1>3. CASE /\ next_free'[l] = next_free[l] /\ pass'[l] = pass[l]
           /\ given'[l] = given[l] /\ lapped'[l] = lapped[l]
  <2>1. SameLog(l)
    BY <1>2, <1>3 DEF SameLog
  <2> QED BY <2>1, <1>1, SameKeeps
<1>4. CASE /\ next_free'[l] = 0 /\ pass'[l] = pass[l] + 1
           /\ given'[l] = {} /\ lapped'[l] = lapped[l]
           /\ use.circular => next_free[l] >= Cap
  <2>1. Restarts(l)
    BY <1>2, <1>4 DEF Restarts
  <2> QED BY <2>1, <1>1, <1>4, RestartKeeps
<1> QED BY <1>3, <1>4

(* The writing of a header, and its completion. *)
LEMMA HeaderReads ==
  ASSUME LogInv, ReadInv, NEW t \in Thread, WriteHeader(t) \/ EntryComplete(t)
  PROVE  ReadInv'
<1> USE LogAssumption
<1>a. PICK k \in Log : k = log[t]
  BY DEF WriteHeader, EntryComplete, LogInv, TypeOK
<1>b. PICK a : a = log_entry[t]
  OBVIOUS
<1>0. TypeOK /\ Fills(t, k) /\ CallsRead
  BY <1>a DEF WriteHeader, EntryComplete, LogInv, Fills, ReadInv
<1>1. /\ use' = use /\ next_free' = next_free /\ options' = options
      /\ pass' = pass /\ given' = given /\ lapped' = lapped
  BY DEF WriteHeader, EntryComplete, header, ghost
<1>2. \A u \in Thread \ {t} : SameThread(u)
  BY <1>0 DEF WriteHeader, EntryComplete, Goto, Return, SameThread, TypeOK
<1>3. /\ WriteHeader(t) => /\ pc'[t] = "open" /\ log'[t] = k /\ size'[t] = size[t]
                           /\ log_entry'[t] = a /\ stamp'[t] = stamp[t]
      /\ EntryComplete(t) => pc'[t] = "idle"
  BY <1>0, <1>a, <1>b DEF WriteHeader, EntryComplete, Goto, Return, TypeOK
<1>4. a \in Unit
  BY <1>0, <1>b, FillerFacts
<1>5. CallsRead'
  <2>1. ASSUME NEW u \in Thread
        PROVE  /\ pc'[u] \in {"header", "open", "primary", "mark", "wait", "add"} =>
                    size'[u] \in use.sizes
               /\ pc'[u] = "mark" => pass'[log'[u]] > 0
    <3>1. CASE u = t
      <4>1. size[t] \in use.sizes
        BY <1>0 DEF CallsRead, Fills
      <4> QED BY <3>1, <4>1, <1>3
    <3>2. CASE u # t
      BY <3>2, <1>0, <1>1, <1>2 DEF CallsRead, SameThread
    <3> QED BY <3>1, <3>2
  <2> QED BY <2>1, <1>0, <1>1 DEF CallsRead
<1>6. ASSUME ~ use.raw, NEW l \in Log PROVE LogRead(l)'
  <2>1. LogRead(l)
    BY <1>6 DEF ReadInv
  <2>2. \A m \in Log \ {k} : mem'[m] = mem[m]
    BY <1>0, <1>a DEF WriteHeader, EntryComplete, TypeOK
  <2>3. CASE l # k
    <3>1. ~ Fills(t, l) /\ ~ Fills(t, l)'
      BY <2>3, <1>3, <1>a DEF Fills
    <3>2. SameLog(l)
      BY <3>1, <2>2, <2>3, <1>1, <1>2 DEF SameLog, SameFiller
    <3> QED BY <3>2, <2>1, SameKeeps
  <2>4. CASE l = k /\ WriteHeader(t)
    <3> DEFINE h == [len |-> size[t], valid |-> FALSE, pass |-> stamp[t]]
    <3>1. mem' = [mem EXCEPT ![k][a] = h]
      BY <2>4, <1>a, <1>b DEF WriteHeader, HeaderValid
    <3> HIDE DEF h
    <3>2. mem'[k][a] = h /\ \A b \in Unit : b # a => mem'[k][b] = mem[k][b]
      BY <3>1, <1>0, <1>4 DEF TypeOK
    <3>3. Writes(t, k, h)
      BY <3>2, <1>1, <1>2, <1>b DEF Writes
    <3> QED BY <3>3, <2>1, <2>4, <1>0, <1>3, <1>b, WriteHeaderKeeps DEF h
  <2>5. CASE l = k /\ EntryComplete(t)
    <3> DEFINE h == [mem[k][a] EXCEPT !.valid = TRUE]
    <3>1. mem' = [mem EXCEPT ![k][a] = h]
      BY <2>5, <1>a, <1>b DEF EntryComplete
    <3> HIDE DEF h
    <3>2. mem'[k][a] = h /\ \A b \in Unit : b # a => mem'[k][b] = mem[k][b]
      BY <3>1, <1>0, <1>4 DEF TypeOK
    <3>3. Writes(t, k, h)
      BY <3>2, <1>1, <1>2, <1>b DEF Writes
    <3>4. pc[t] = "open" /\ ~ Fills(t, k)'
      BY <2>5, <1>3 DEF EntryComplete, Fills
    <3> QED BY <3>3, <3>4, <2>1, <2>5, <1>0, <1>b, CompleteKeeps DEF h
  <2> QED BY <2>3, <2>4, <2>5
<1> QED BY <1>1, <1>5, <1>6 DEF ReadInv

(* The primary starts a full log over. *)
LEMMA WrapReads ==
  ASSUME LogInv, ReadInv, NEW t \in Thread, Wrap(t)
  PROVE  ReadInv'
<1> USE LogAssumption
<1>a. PICK k \in Log : k = log[t]
  BY DEF Wrap, LogInv, TypeOK
<1>0. /\ TypeOK /\ pc[t] = "primary" /\ use.circular
      /\ pass[k] \in Nat /\ next_free[k] \in Nat /\ CallsRead
  BY DEF Wrap, LogInv, CallsInUse, TypeOK, ReadInv
<1>1. /\ use' = use /\ mem' = mem /\ options' = options /\ lapped' = lapped
      /\ next_free' = [next_free EXCEPT ![k] = 0]
      /\ pass' = [pass EXCEPT ![k] = @ + 1]
      /\ given' = [given EXCEPT ![k] = {}]
      /\ log' = log /\ size' = size /\ log_entry' = log_entry /\ stamp' = stamp
      /\ pc' = [pc EXCEPT ![t] = "mark"]
  BY <1>a DEF Wrap, Restart, Goto
<1>2. next_free[k] >= Cap
  <2>1. log_entry[t] + size[t] > Cap /\ log_entry[t] + size[t] <= next_free[k]
    BY <1>0, <1>a DEF LogInv, OnePrimary
  <2> QED BY <2>1, <1>0 DEF TypeOK
<1>3. pass'[k] > 0 /\ \A l \in Log : pass[l] > 0 => pass'[l] > 0
  BY <1>0, <1>1 DEF TypeOK
<1>4. CallsRead'
  <2>1. ASSUME NEW u \in Thread
        PROVE  /\ pc'[u] \in {"header", "open", "primary", "mark", "wait", "add"} =>
                    size'[u] \in use.sizes
               /\ pc'[u] = "mark" => pass'[log'[u]] > 0
    <3>1. CASE u = t
      BY <3>1, <1>0, <1>1, <1>3, <1>a DEF CallsRead
    <3>2. CASE u # t
      <4>1. pc'[u] = pc[u] /\ size'[u] = size[u] /\ log'[u] = log[u]
        BY <3>2, <1>0, <1>1 DEF TypeOK
      <4>2. pc[u] = "mark" => log[u] \in Log
        BY <1>0 DEF TypeOK
      <4> QED BY <4>1, <4>2, <1>0, <1>3 DEF CallsRead
    <3> QED BY <3>1, <3>2
  <2> QED BY <2>1, <1>0, <1>1, <1>3 DEF CallsRead
<1>5. ASSUME ~ use.raw PROVE \A l \in Log : LogRead(l)'
  <2>1. \A u \in Thread : \A l \in Log : SameFiller(u, l)
    BY <1>0, <1>1 DEF SameFiller, SameThread, Fills, TypeOK
  <2>2. /\ next_free'[k] = 0 /\ pass'[k] = pass[k] + 1
        /\ given'[k] = {} /\ lapped'[k] = lapped[k]
        /\ \A l \in Log \ {k} :
             /\ next_free'[l] = next_free[l] /\ pass'[l] = pass[l]
             /\ given'[l] = given[l] /\ lapped'[l] = lapped[l]
    BY <1>0, <1>1 DEF TypeOK
  <2> QED BY <2>1, <2>2, <1>1, <1>2, <1>5, OthersKeep
<1> QED BY <1>1, <1>4, <1>5 DEF ReadInv

(* The steps that change no log, except for its mark that it has wrapped.  *)
LEMMA MarkReads ==
  ASSUME LogInv, ReadInv, NEW t \in Thread, MarkWraped(t) \/ Secondary(t)
  PROVE  ReadInv'
<1>a. PICK k \in Log : k = log[t]
  BY DEF MarkWraped, Secondary, LogInv, TypeOK
<1>0. TypeOK /\ CallsRead /\ pc[t] \in {"mark", "wait"}
  BY DEF MarkWraped, Secondary, LogInv, ReadInv
<1>1. /\ use' = use /\ mem' = mem /\ next_free' = next_free
      /\ pass' = pass /\ given' = given /\ lapped' = lapped
      /\ log' = log /\ size' = size /\ log_entry' = log_entry /\ stamp' = stamp
      /\ pc' = [pc EXCEPT ![t] = "add"]
  BY DEF MarkWraped, Secondary, Goto, header, ghost
<1>2. \A l \in Log : "WRAPED" \in options'[l] => pass[l] > 0
  <2>1. CASE Secondary(t)
    BY <2>1, <1>0 DEF Secondary, header, CallsRead
  <2>2. CASE MarkWraped(t)
    <3>1. pass[k] > 0
      BY <2>2, <1>0, <1>a DEF MarkWraped, CallsRead
    <3>2. \A l \in Log \ {k} : options'[l] = options[l]
      BY <2>2, <1>0, <1>a DEF MarkWraped, TypeOK
    <3> QED BY <3>1, <3>2, <1>0 DEF CallsRead
  <2> QED BY <2>1, <2>2
<1>3. CallsRead'
  <2>1. \A u \in Thread : pc'[u] = pc[u] \/ (u = t /\ pc'[u] = "add")
    BY <1>0, <1>1 DEF TypeOK
  <2> QED BY <2>1, <1>0, <1>1, <1>2 DEF CallsRead
<1>4. ASSUME ~ use.raw PROVE \A l \in Log : LogRead(l)'
  <2>1. \A u \in Thread : \A l \in Log : SameFiller(u, l)
    BY <1>0, <1>1 DEF SameFiller, SameThread, Fills, TypeOK
  <2> QED BY <2>1, <1>1, <1>4, OthersKeep
<1> QED BY <1>1, <1>3, <1>4 DEF ReadInv

(* The resets of a program that calls them, whose logs are not circular.   *)
LEMMA ResetReads ==
  ASSUME LogInv, ReadInv, NEW t \in Thread, NEW k \in Log,
         ResetIfFull(t, k) \/ TestFull(t) \/ (k = log[t] /\ SwapNextFree(t))
  PROVE  ReadInv'
<1> USE LogAssumption
<1>0. /\ TypeOK /\ CallsRead /\ pc[t] \in {"idle", "test", "reset"}
      /\ use.resets /\ ~ use.circular /\ pass[k] \in Nat
  <2>1. pc[t] \in {"idle", "test", "reset"} /\ use.resets
    BY DEF ResetIfFull, Begin, TestFull, SwapNextFree, LogInv, CallsInUse
  <2> QED BY <2>1, UseFacts DEF LogInv, TypeOK, ReadInv
<1>1. use' = use /\ mem' = mem
  BY DEF ResetIfFull, TestFull, SwapNextFree
<1>2. /\ pc'[t] \in {"idle", "test", "reset"}
      /\ \A u \in Thread \ {t} : SameThread(u)
  BY <1>0 DEF ResetIfFull, TestFull, SwapNextFree, Goto, Return, Call, SameThread, TypeOK
<1>3. \/ /\ next_free' = next_free /\ pass' = pass /\ given' = given /\ lapped' = lapped
         /\ options' = options
      \/ /\ next_free' = [next_free EXCEPT ![k] = 0]
         /\ pass' = [pass EXCEPT ![k] = @ + 1]
         /\ given' = [given EXCEPT ![k] = {}]
         /\ lapped' = lapped
         /\ options' = [options EXCEPT ![k] = @ \ {"WRAPED"}]
  BY DEF ResetIfFull, TestFull, SwapNextFree, Restart, header, ghost
<1>4. \A l \in Log : /\ pass[l] > 0 => pass'[l] > 0
                     /\ "WRAPED" \in options'[l] => "WRAPED" \in options[l]
  <2>1. ASSUME NEW l \in Log, pass[l] > 0 PROVE pass'[l] > 0
    <3>1. pass[l] \in Nat
      BY <1>0 DEF TypeOK
    <3>2. pass'[l] = pass[l] \/ pass'[l] = pass[l] + 1
      BY <1>0, <1>3 DEF TypeOK
    <3> QED BY <2>1, <3>1, <3>2
  <2>2. \A l \in Log : options'[l] = options[l] \/ options'[l] = options[l] \ {"WRAPED"}
    BY <1>0, <1>3 DEF TypeOK
  <2> QED BY <2>1, <2>2
<1>5. CallsRead'
  <2>1. ASSUME NEW u \in Thread
        PROVE  /\ pc'[u] \in {"header", "open", "primary", "mark", "wait", "add"} =>
                    size'[u] \in use.sizes
               /\ pc'[u] = "mark" => pass'[log'[u]] > 0
    <3>1. CASE u = t
      BY <3>1, <1>2
    <3>2. CASE u # t
      <4>1. pc[u] = "mark" => log[u] \in Log
        BY <1>0 DEF TypeOK
      <4> QED BY <3>2, <4>1, <1>0, <1>2, <1>4 DEF CallsRead, SameThread
    <3> QED BY <3>1, <3>2
  <2> QED BY <2>1, <1>0, <1>1, <1>4 DEF CallsRead
<1>6. ASSUME ~ use.raw PROVE \A l \in Log : LogRead(l)'
  <2>1. \A u \in Thread : \A l \in Log : SameFiller(u, l)
    BY <1>0, <1>2 DEF SameFiller, Fills
  <2>2. \/ /\ next_free'[k] = next_free[k] /\ pass'[k] = pass[k]
           /\ given'[k] = given[k] /\ lapped'[k] = lapped[k]
        \/ /\ next_free'[k] = 0 /\ pass'[k] = pass[k] + 1
           /\ given'[k] = {} /\ lapped'[k] = lapped[k]
    BY <1>0, <1>3 DEF TypeOK
  <2>3. \A l \in Log \ {k} : /\ next_free'[l] = next_free[l] /\ pass'[l] = pass[l]
                             /\ given'[l] = given[l] /\ lapped'[l] = lapped[l]
    BY <1>0, <1>3 DEF TypeOK
  <2> QED BY <2>1, <2>2, <2>3, <1>0, <1>1, <1>6, OthersKeep
<1> QED BY <1>1, <1>5, <1>6 DEF ReadInv

(* The steps of no thread: the reset without a call under way, and the     *)
(* options of a log.                                                       *)
LEMMA OptionsRead ==
  ASSUME LogInv, ReadInv, NEW k \in Log, ResetAsync(k) \/ SetCachePrefetch(k)
  PROVE  ReadInv'
<1> USE LogAssumption
<1>0. TypeOK /\ CallsRead /\ pass[k] \in Nat
  BY DEF LogInv, TypeOK, ReadInv
<1>1. /\ use' = use /\ mem' = mem /\ lapped' = lapped
      /\ \A u \in Thread : SameThread(u)
  BY DEF ResetAsync, SetCachePrefetch, Restart, SameThread, local, ghost
<1>2. \/ next_free' = next_free /\ pass' = pass /\ given' = given
      \/ /\ use.resets /\ Quiet
         /\ next_free' = [next_free EXCEPT ![k] = 0]
         /\ pass' = [pass EXCEPT ![k] = @ + 1]
         /\ given' = [given EXCEPT ![k] = {}]
  BY DEF ResetAsync, SetCachePrefetch, Restart, ghost
<1>3. \A l \in Log : /\ pass[l] > 0 => pass'[l] > 0
                     /\ pass'[l] > 0 => pass[l] > 0 \/ use.resets
                     /\ "WRAPED" \in options'[l] => "WRAPED" \in options[l]
  <2>1. options' = [options EXCEPT ![k] = @ \ {"WRAPED"}] \/ options' = [options EXCEPT ![k] = {}]
    BY DEF ResetAsync, SetCachePrefetch
  <2>2. \A l \in Log : options'[l] \in {options[l], options[l] \ {"WRAPED"}, {}}
    BY <2>1, <1>0 DEF TypeOK
  <2>3. ASSUME NEW l \in Log
        PROVE  /\ pass[l] > 0 => pass'[l] > 0
               /\ pass'[l] > 0 => pass[l] > 0 \/ use.resets
    <3>1. pass[l] \in Nat
      BY <1>0 DEF TypeOK
    <3>2. pass'[l] = pass[l] \/ (use.resets /\ pass'[l] = pass[l] + 1)
      BY <1>0, <1>2 DEF TypeOK
    <3> QED BY <3>1, <3>2
  <2> QED BY <2>2, <2>3
<1>4. CallsRead'
  <2>1. \A u \in Thread : pc[u] = "mark" => log[u] \in Log
    BY <1>0 DEF TypeOK
  <2> QED BY <2>1, <1>0, <1>1, <1>3 DEF CallsRead, SameThread
<1>5. ASSUME ~ use.raw PROVE \A l \in Log : LogRead(l)'
  <2>1. \A u \in Thread : \A l \in Log : SameFiller(u, l)
    BY <1>1 DEF SameFiller
  <2>2. \/ /\ next_free'[k] = next_free[k] /\ pass'[k] = pass[k]
           /\ given'[k] = given[k] /\ lapped'[k] = lapped[k]
        \/ /\ next_free'[k] = 0 /\ pass'[k] = pass[k] + 1
           /\ given'[k] = {} /\ lapped'[k] = lapped[k]
           /\ ~ use.circular
    <3>1. use.resets => ~ use.circular
      BY <1>0, UseFacts
    <3> QED BY <3>1, <1>0, <1>1, <1>2 DEF TypeOK
  <2>3. \A l \in Log \ {k} : /\ next_free'[l] = next_free[l] /\ pass'[l] = pass[l]
                             /\ given'[l] = given[l] /\ lapped'[l] = lapped[l]
    BY <1>0, <1>1, <1>2 DEF TypeOK
  <2> QED BY <2>1, <2>2, <2>3, <1>1, <1>5, OthersKeep
<1> QED BY <1>1, <1>4, <1>5 DEF ReadInv

-----------------------------------------------------------------------------
(* Every step keeps what is needed to read the logs. *)
LEMMA ReadNext ==
  ASSUME LogInv, ReadInv, [Next]_vars
  PROVE  ReadInv'
<1>0. TypeOK /\ use.logs \subseteq Log
  BY UseFacts DEF LogInv
<1>1. CASE UNCHANGED vars
  <2>1. /\ use' = use /\ mem' = mem /\ options' = options
        /\ next_free' = next_free /\ pass' = pass /\ given' = given /\ lapped' = lapped
        /\ pc' = pc /\ log' = log /\ size' = size /\ log_entry' = log_entry /\ stamp' = stamp
    BY <1>1 DEF vars, header, local, ghost
  <2>2. CallsRead'
    BY <2>1 DEF ReadInv, CallsRead
  <2>3. ASSUME ~ use.raw PROVE \A l \in Log : LogRead(l)'
    <3>1. \A u \in Thread : \A l \in Log : SameFiller(u, l)
      BY <2>1 DEF SameFiller, SameThread
    <3> QED BY <3>1, <2>1, <2>3, OthersKeep
  <2> QED BY <2>1, <2>2, <2>3 DEF ReadInv
<1>2. ASSUME NEW t \in Thread, NEW l \in use.logs, NEW n \in use.sizes,
             Alloc(t, l, n) \/ AllocNoLock(t, l, n)
      PROVE  ReadInv'
  <2>1. CASE AllocNoLock(t, l, n)
    BY <1>0, <2>1, AllocNoLockReads
  <2>2. CASE Alloc(t, l, n)
    <3>1. pc[t] \in {"idle", "add"}
      BY <2>2 DEF Alloc, Begin
    <3> QED BY <1>0, <2>2, <3>1, AllocReads, AllocRawReads DEF Alloc
  <2> QED BY <1>2, <2>1, <2>2
<1>3. ASSUME NEW t \in Thread, NEW l \in use.logs, ResetIfFull(t, l)
      PROVE  ReadInv'
  BY <1>0, <1>3, ResetReads
<1>4. ASSUME NEW t \in Thread, Steps(t)
      PROVE  ReadInv'
  <2>1. CASE WriteHeader(t) \/ EntryComplete(t)
    BY <2>1, HeaderReads
  <2>2. CASE Wrap(t)
    BY <2>2, WrapReads
  <2>3. CASE MarkWraped(t) \/ Secondary(t)
    BY <2>3, MarkReads
  <2>4. CASE Again(t)
    <3>1. log[t] \in Log /\ pc[t] \in {"idle", "add"}
      BY <2>4 DEF Again, LogInv, TypeOK
    <3>2. size[t] \in use.sizes
      BY <2>4 DEF Again, ReadInv, CallsRead
    <3> QED BY <2>4, <3>1, <3>2, AllocReads DEF Again
  <2>5. CASE TestFull(t) \/ SwapNextFree(t)
    <3>1. log[t] \in Log
      BY <2>5 DEF TestFull, SwapNextFree, LogInv, TypeOK
    <3> QED BY <2>5, <3>1, ResetReads
  <2> QED BY <1>4, <2>1, <2>2, <2>3, <2>4, <2>5 DEF Steps
<1>5. ASSUME NEW l \in use.logs, ResetAsync(l) \/ SetCachePrefetch(l)
      PROVE  ReadInv'
  BY <1>0, <1>5, OptionsRead
<1> QED BY <1>1, <1>2, <1>3, <1>4, <1>5 DEF Next

(* Nothing is in the logs at first. *)
LEMMA InitRead == Init => ReadInv
<1> SUFFICES ASSUME Init PROVE ReadInv
  OBVIOUS
<1> USE LogAssumption
<1>1. /\ \A t \in Thread : pc[t] = "idle"
      /\ \A l \in Log : /\ next_free[l] = 0 /\ pass[l] = 0 /\ given[l] = {}
                        /\ "WRAPED" \notin options[l]
                        /\ \A a \in Unit : mem[l][a].len = 0 /\ ~ mem[l][a].valid
  BY DEF Init, Zero
<1>2. CallsRead
  BY <1>1 DEF CallsRead
<1>3. ASSUME NEW l \in Log PROVE LogRead(l)
  <2>1. \A u \in Thread : ~ Fills(u, l)
    BY <1>1 DEF Fills
  <2>2. Tiled(l) /\ Headers(l) /\ FirstPass(l)
    BY <1>1, <2>1 DEF Tiled, Headers, FirstPass
  <2>3. ASSUME NEW n \in use.sizes PROVE Placed(l, n)
    <3>1. n \in Nat /\ n > 0
      BY UseFacts, InitInv DEF LogInv
    <3>2. 0 % n = 0
      BY <3>1, MultipleZero
    <3>3. \A a \in Unit : ~ a < 0
      BY DEF Unit
    <3> QED BY <3>2, <3>3, <1>1, <2>1 DEF Placed
  <2> QED BY <2>2, <2>3 DEF LogRead, Round
<1> QED BY <1>2, <1>3 DEF ReadInv

(* What is read out of a logger is its log, in the state and in any state  *)
(* that its steps lead to: ReadInv and LogInv hold always, and the         *)
(* iterator (SPHLFLoggerIteratorNext) returns the completed entries.       *)
THEOREM LogsReadOut == Spec => [](LogInv /\ ReadInv) /\ []ReadOutIsLog
<1>1. Init => LogInv /\ ReadInv
  BY InitInv, InitRead
<1>2. LogInv /\ ReadInv /\ [Next]_vars => (LogInv /\ ReadInv)'
  BY NextInv, ReadNext
<1>3. LogInv /\ ReadInv => ReadOutIsLog
  BY LogIsReadOut
<1> QED BY <1>1, <1>2, <1>3, PTL DEF Spec

-----------------------------------------------------------------------------
(* The same in a portal. *)
LEMMA PNextRead ==
  ASSUME LogInv, PortalInv, ReadInv, [PNext]_pvars
  PROVE  ReadInv'
<1>1. ASSUME [Next]_vars PROVE ReadInv'
  BY <1>1, ReadNext
<1>2. ASSUME NEW l \in Log, AddLogger(l) PROVE ReadInv'
  BY <1>1, <1>2 DEF AddLogger
<1>3. ASSUME NEW t \in Thread, NEW n \in use.sizes, NEW raw \in BOOLEAN, PortalAlloc(t, n, raw)
      PROVE  ReadInv'
  <2>1. /\ use' = use /\ mem' = mem /\ options' = options
        /\ next_free' = next_free /\ pass' = pass /\ given' = given /\ lapped' = lapped
        /\ pc' = pc /\ log' = log /\ size' = size /\ log_entry' = log_entry /\ stamp' = stamp
    BY <1>3 DEF PortalAlloc, header, local, ghost
  <2>2. CallsRead'
    BY <2>1 DEF ReadInv, CallsRead
  <2>3. ASSUME ~ use.raw, NEW l \in Log PROVE LogRead(l)'
    <3>1. SameLog(l)
      BY <2>1 DEF SameLog, SameFiller, SameThread
    <3> QED BY <2>3, <3>1, SameKeeps DEF ReadInv
  <2> QED BY <2>1, <2>2, <2>3 DEF ReadInv
<1>4. ASSUME NEW t \in Thread, Start(t) \/ CheckFull(t) \/ SwapCurrent(t)
      PROVE  ReadInv'
  BY <1>1, <1>4 DEF Start, CheckFull, SwapCurrent
<1>5. ASSUME NEW t \in Thread, FirstAlloc(t) \/ SecondAlloc(t)
      PROVE  ReadInv'
  <2> DEFINE i == IF place[t] = "alloc" THEN log_index[t] ELSE log_index[t] + 1
  <2>1. i \in Slot /\ place[t] # "idle"
    BY <1>5, PortalAssumption DEF FirstAlloc, SecondAlloc, PortalInv, PortalTypeOK, CallsFollow, Slot
  <2>2. PICK fails \in {"full", "start"} : AllocFrom(t, i, fails)
    BY <1>5 DEF FirstAlloc, SecondAlloc
  <2>3. CASE list[i] = NoLog
    BY <1>1, <2>2, <2>3 DEF AllocFrom, Crash
  <2>4. CASE list[i] # NoLog
    <3>1. list[i] \in Log /\ want[t].size \in use.sizes /\ pc[t] = "idle"
      BY <2>1, <2>4 DEF PortalInv, PortalTypeOK, PortalInUse
    <3>2. AllocRaw(t, list[i], want[t].size) \/ AllocTimeStamped(t, list[i], want[t].size)
      BY <2>2, <2>4 DEF AllocFrom, LoggerAlloc
    <3> QED BY <3>1, <3>2, AllocReads, AllocRawReads
  <2> QED BY <2>3, <2>4
<1>6. CASE UNCHANGED pvars
  BY <1>1, <1>6 DEF pvars
<1> QED BY <1>1, <1>2, <1>3, <1>4, <1>5, <1>6 DEF PNext, PSteps

(* Entries come from the current logger, and current_logger only grows.    *)
LEMMA PNextPortalRead ==
  ASSUME LogInv, PortalInv, PortalRead, [PNext]_pvars
  PROVE  PortalRead'
<1>0. /\ current_logger \in Nat /\ current_logger \in Slot
      /\ \A i \in Slot : i < next_logger /\ i < ListSize <=> list[i] # NoLog
      /\ list \in [Slot -> Log \cup {NoLog}]
  BY DEF PortalInv, PortalTypeOK, ListFilled, Slot
<1>1. CASE UNCHANGED pvars
  <2>1. /\ use' = use /\ given' = given /\ list' = list /\ current_logger' = current_logger
    BY <1>1 DEF pvars, vars, ghost, portal
  <2> QED BY <2>1 DEF PortalRead
<1>2. CASE PNext
  <2>1. use' = use
    <3>1. CASE Next
      BY <3>1, UseConstant
    <3>2. CASE \E l \in Log : AddLogger(l)
      BY <3>2 DEF AddLogger, vars
    <3>3. CASE \E t \in Thread, n \in use.sizes, raw \in BOOLEAN : PortalAlloc(t, n, raw)
      BY <3>3 DEF PortalAlloc
    <3>4. CASE \E t \in Thread : PSteps(t)
      BY <3>4 DEF PSteps, Start, FirstAlloc, CheckFull, SwapCurrent, SecondAlloc, AllocFrom,
                  LoggerAlloc, Crash, AllocRaw, AllocTimeStamped, vars
    <3> QED BY <1>2, <3>1, <3>2, <3>3, <3>4 DEF PNext
  <2> SUFFICES ASSUME use \in PortalUses, NEW l \in Log, given'[l] # {}
               PROVE  \E i \in 0..current_logger' : list'[i] = l
    BY <2>1 DEF PortalRead
  <2>2. current_logger' \in {current_logger, current_logger + 1}
    BY <1>2 DEF PNext, AddLogger, PortalAlloc, PSteps, Start, FirstAlloc, CheckFull, SwapCurrent,
                SecondAlloc, AllocFrom, portal
  <2>3. \A i \in 0..current_logger : list[i] # NoLog => list'[i] = list[i]
    <3>1. CASE list' = list
      BY <3>1
    <3>2. CASE \E k \in Log : AddLogger(k)
      BY <3>2, <1>0, PortalAssumption DEF AddLogger, Slot
    <3> QED BY <1>2, <3>1, <3>2 DEF PNext, PortalAlloc, PSteps, Start, FirstAlloc, CheckFull,
                SwapCurrent, SecondAlloc, AllocFrom, portal
  <2>4. \E i \in 0..current_logger : list[i] = l
    <3>1. CASE given[l] # {}
      BY <3>1 DEF PortalRead
    <3>2. CASE given[l] = {}
      <4>1. PICK t \in Thread : FirstAlloc(t) \/ SecondAlloc(t)
        BY <1>2, <3>2, GivesNothing
      <4>2. Give(t, list[current_logger], want[t].size)
        BY <3>2, <4>1, AllocFromGives
      <4>3. l = list[current_logger]
        BY <3>2, <4>2 DEF Give, LogInv, TypeOK
      <4> QED BY <4>3, <1>0
    <3> QED BY <3>1, <3>2
  <2>5. l # NoLog
    BY LogAssumption
  <2>6. \A i \in 0..current_logger : i \in 0..current_logger'
    BY <1>0, <2>2
  <2> QED BY <2>3, <2>4, <2>5, <2>6
<1> QED BY <1>1, <1>2

(* ReadOutsAreLogs holds always: what the iterators of a logger and of a   *)
(* portal return is what was logged, each entry once and in its order.     *)
THEOREM ReadOutsHold == PSpec => []ReadOutsAreLogs
<1> DEFINE I == LogInv /\ PortalInv /\ ReadInv /\ PortalRead
<1>1. PInit => I
  <2> SUFFICES ASSUME PInit PROVE I
    OBVIOUS
  <2>1. LogInv /\ PortalInv /\ ReadInv
    BY PInitInv, InitRead DEF PInit
  <2>2. PortalRead
    BY DEF PInit, Init, PortalRead
  <2> QED BY <2>1, <2>2
<1>2. I /\ [PNext]_pvars => I'
  BY PNextInv, PNextRead, PNextPortalRead
<1>3. I => ReadOutsAreLogs
  BY LogIsReadOut, PortalIsReadOut DEF ReadOutsAreLogs
<1> QED BY <1>1, <1>2, <1>3, PTL DEF PSpec
=============================================================================

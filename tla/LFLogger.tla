------------------------------- MODULE LFLogger -------------------------------
(***************************************************************************)
(* The lock-free logger (sphlflogger.cpp).  Threads get entries of a log   *)
(* buffer by one fetch-and-add on next_free and fill them in at their own  *)
(* pace.  In a circular log the thread whose entry crosses the end wraps   *)
(* next_free to the start; those that come after it wait until it has.     *)
(*                                                                         *)
(* A log is an element of Log, an address an offset into its buffer, 0 the *)
(* start and Cap the end, in units of DEFAULT_ALLOC_UNIT; sizes include    *)
(* the entry header.  The body of an entry is left out.  The tail calls of *)
(* the allocate functions are jumps.  An action has one access to what     *)
(* other threads change; the test of the options after a failed allocate   *)
(* goes with it, because CIRCULAR only changes while no call is under way. *)
(***************************************************************************)
EXTENDS Integers, FiniteSets

CONSTANTS
  Thread,
  Log,
  Cap,          (* size of each buffer                                     *)
  Near,         (* a log with no more room than this counts as full to     *)
                (* ResetIfFullSync (128 bytes)                             *)
  Uses,         (* how a program uses its logs: the cases to check         *)
  MaxCalls,     (* bound: allocates and resets that threads begin          *)
  NoLog

(* users, logs: the threads, and the logs they call directly; circular:    *)
(* how the logs are created; sizes: of the entries, one only for circular  *)
(* logs; raw, resets: whether the program calls AllocRaw, and the resets,  *)
(* which the header file has for tests.                                    *)
UseType == [users : SUBSET Thread, logs : SUBSET Log, circular : BOOLEAN,
            sizes : SUBSET (1..Cap), raw : BOOLEAN, resets : BOOLEAN]

ASSUME LogAssumption ==
  /\ Cap \in Nat /\ Cap >= 1
  /\ Near \in Nat
  /\ MaxCalls \in Nat
  /\ Uses \subseteq UseType
  /\ \A u \in Uses : u.circular => ~ u.resets /\ ~ u.raw /\ Cardinality(u.sizes) = 1
  /\ NoLog \notin Log

VARIABLES
  next_free,    (* of each log; beyond Cap when allocates have failed      *)
  options,      (* CIRCULAR and WRAPED; those for prefetching are left out *)
  mem,          (* the headers in the buffer, at the units they start at   *)
  use,          (* the element of Uses                                     *)
  pc,           (* "open": the thread has an entry it has not completed    *)
  log, size,    (* of the call under way: the log, alloc_round             *)
  log_entry,    (* what the fetch-and-add, or a load of next_free, gave    *)
  calls,        (* how many calls were begun                               *)
  pass,         (* how often each log began at its start again             *)
  given,        (* the entries given out in this pass                      *)
  stamp,        (* the pass an entry of a thread belongs to                *)
  lapped        (* a log has given out again what a thread had not         *)
                (* completed                                               *)

header == <<next_free, options>>
local == <<pc, log, size, log_entry, stamp>>
ghost == <<pass, given, lapped>>
vars == <<header, mem, use, local, calls, ghost>>

Unit == 0..Cap-1

Entry == [addr : Unit, len : 1..Cap]

(* What the code stores of a header: entryID.len and .valid; pass stands   *)
(* for the time stamp.  Zero is memory no header was written to.           *)
Zero == [len |-> 0, valid |-> FALSE, pass |-> 0]

TypeOK ==
  /\ next_free \in [Log -> Nat]
  /\ options \in [Log -> SUBSET {"CIRCULAR", "WRAPED"}]
  /\ mem \in [Log -> [Unit -> [len : 0..Cap, valid : BOOLEAN, pass : Nat]]]
  /\ use \in Uses
  /\ pc \in [Thread -> {"idle", "header", "open", "primary", "mark", "wait", "add",
                        "test", "reset"}]
  /\ log \in [Thread -> Log \cup {NoLog}]
  /\ size \in [Thread -> 0..Cap]
  /\ log_entry \in [Thread -> Nat]
  /\ calls \in Nat
  /\ pass \in [Log -> Nat]
  /\ given \in [Log -> SUBSET Entry]
  /\ stamp \in [Thread -> Nat]
  /\ lapped \in [Log -> BOOLEAN]
  /\ \A t \in Thread : pc[t] # "idle" => log[t] \in Log

Init ==
  /\ use \in Uses
  /\ next_free = [l \in Log |-> 0]
  /\ options = [l \in Log |-> IF use.circular THEN {"CIRCULAR"} ELSE {}]
  /\ mem = [l \in Log |-> [a \in Unit |-> Zero]]
  /\ pc = [t \in Thread |-> "idle"]
  /\ log = [t \in Thread |-> NoLog]
  /\ size = [t \in Thread |-> 0]
  /\ log_entry = [t \in Thread |-> 0]
  /\ calls = 0
  /\ pass = [l \in Log |-> 0]
  /\ given = [l \in Log |-> {}]
  /\ stamp = [t \in Thread |-> 0]
  /\ lapped = [l \in Log |-> FALSE]

-----------------------------------------------------------------------------
(* A condition or helper that a fault is seeded in has a name; its faulty  *)
(* form, _Fault, stands before it.                                         *)
Quiet == \A t \in Thread : pc[t] = "idle"

Goto(t, place) == pc' = [pc EXCEPT ![t] = place]

(* A call returns: its locals are gone.                                    *)
Return(t) ==
  /\ Goto(t, "idle")
  /\ log' = [log EXCEPT ![t] = NoLog]
  /\ size' = [size EXCEPT ![t] = 0]
  /\ log_entry' = [log_entry EXCEPT ![t] = 0]
  /\ stamp' = [stamp EXCEPT ![t] = 0]

Call(t, l, n) ==
  /\ log' = [log EXCEPT ![t] = l]
  /\ size' = [size EXCEPT ![t] = n]

Fits_Fault(a, n) == a < Cap
Fits(a, n) == a + n <= Cap

(* "this thread is the first or primary thread to find the wrap condition" *)
IsPrimary_Fault(a, n) == a + n >= Cap
IsPrimaryInside_Fault(a, n) == a < Cap /\ a + n >= Cap
IsPrimary(a, n) == a <= Cap /\ a + n >= Cap

(* Another thread still has an entry open in the units from a on.          *)
Overlaps(a, n, b, m) == a < b + m /\ b < a + n

LapsOpenEntry(t, l, a, n) ==
  \E u \in Thread \ {t} :
    /\ pc[u] \in {"header", "open"}
    /\ log[u] = l
    /\ Overlaps(a, n, log_entry[u], size[u])

FetchAdd(l, n) == next_free' = [next_free EXCEPT ![l] = @ + n]

Give(t, l, n) ==
  /\ given' = [given EXCEPT ![l] = @ \cup {[addr |-> next_free[l], len |-> n]}]
  /\ lapped' = [lapped EXCEPT ![l] = @ \/ LapsOpenEntry(t, l, next_free[l], n)]
  /\ pass' = pass

(* SPHLFLoggerAllocTimeStamped and SPHLFLoggerAllocStrideTimeStamped.      *)
AllocTimeStamped(t, l, n) ==
  /\ FetchAdd(l, n)
  /\ \/ /\ Fits(next_free[l], n)
        /\ Give(t, l, n)
        /\ Call(t, l, n)
        /\ log_entry' = [log_entry EXCEPT ![t] = next_free[l]]
        /\ stamp' = [stamp EXCEPT ![t] = pass[l]]
        /\ Goto(t, "header")
     \/ /\ ~ Fits(next_free[l], n)
        /\ "CIRCULAR" \in options[l]
        /\ Call(t, l, n)
        /\ log_entry' = [log_entry EXCEPT ![t] = next_free[l]]
        /\ Goto(t, IF IsPrimary(next_free[l], n) THEN "primary" ELSE "wait")
        /\ UNCHANGED <<ghost, stamp>>
     \/ /\ ~ Fits(next_free[l], n)
        /\ "CIRCULAR" \notin options[l]
        /\ Return(t)
        /\ UNCHANGED ghost
  /\ UNCHANGED <<options, mem, use>>

(* SPHLFLoggerAllocRaw: the entry has no header and is never completed.    *)
AllocRaw(t, l, n) ==
  /\ use.raw
  /\ FetchAdd(l, n)
  /\ IF Fits(next_free[l], n) THEN Give(t, l, n) ELSE UNCHANGED ghost
  /\ Return(t)
  /\ UNCHANGED <<options, mem, use>>

Begin(t) ==
  /\ t \in use.users
  /\ pc[t] = "idle"
  /\ calls < MaxCalls
  /\ calls' = calls + 1

Alloc(t, l, n) ==
  /\ Begin(t)
  /\ AllocTimeStamped(t, l, n) \/ AllocRaw(t, l, n)

(* "valid" is set when the entry is completed, not here.                   *)
HeaderValid_Fault == TRUE
HeaderValid == FALSE

WriteHeader(t) ==
  /\ pc[t] = "header"
  /\ mem' = [mem EXCEPT ![log[t]][log_entry[t]] =
               [len |-> size[t], valid |-> HeaderValid, pass |-> stamp[t]]]
  /\ Goto(t, "open")
  /\ UNCHANGED <<header, use, log, size, log_entry, stamp, calls, ghost>>

EntryComplete(t) ==
  /\ pc[t] = "open"
  /\ mem' = [mem EXCEPT ![log[t]][log_entry[t]].valid = TRUE]
  /\ Return(t)
  /\ UNCHANGED <<header, use, calls, ghost>>

(* A new pass over log l.                                                  *)
Restart(l) ==
  /\ next_free' = [next_free EXCEPT ![l] = 0]
  /\ pass' = [pass EXCEPT ![l] = @ + 1]
  /\ given' = [given EXCEPT ![l] = {}]
  /\ UNCHANGED lapped

(* The compare-and-swap loop of the primary: in the end it swaps whatever  *)
(* next_free is.                                                           *)
Wrap(t) ==
  /\ pc[t] = "primary"
  /\ Restart(log[t])
  /\ Goto(t, "mark")
  /\ UNCHANGED <<options, mem, use, log, size, log_entry, stamp, calls>>

MarkWraped(t) ==
  /\ pc[t] = "mark"
  /\ options' = [options EXCEPT ![log[t]] = @ \cup {"WRAPED"}]
  /\ Goto(t, "add")
  /\ UNCHANGED <<next_free, mem, use, log, size, log_entry, stamp, calls, ghost>>

(* "secondary threads should just retry until the buffer wraps"            *)
SeesWrap(t) == next_free[log[t]] + size[t] < log_entry[t]

Secondary(t) ==
  /\ pc[t] = "wait"
  /\ SeesWrap(t)
  /\ Goto(t, "add")
  /\ UNCHANGED <<header, mem, use, log, size, log_entry, stamp, calls, ghost>>

Again(t) ==
  /\ pc[t] = "add"
  /\ AllocTimeStamped(t, log[t], size[t])
  /\ calls' = calls

(* SPHLFLoggerAllocTimeStampedNoLock and ...StrideTimeStampedNoLock, by    *)
(* the only thread that uses the loggers; a full circular log is restarted *)
(* and the entry taken from its start.                                     *)
Stored(t, l, a, n, p) ==
  /\ Call(t, l, n)
  /\ log_entry' = [log_entry EXCEPT ![t] = a]
  /\ stamp' = [stamp EXCEPT ![t] = p]
  /\ mem' = [mem EXCEPT ![l][a] = [len |-> n, valid |-> FALSE, pass |-> p]]
  /\ Goto(t, "open")

AllocNoLock(t, l, n) ==
  /\ use.users = {t}
  /\ Begin(t)
  /\ \/ /\ Fits(next_free[l], n)
        /\ FetchAdd(l, n)
        /\ Give(t, l, n)
        /\ Stored(t, l, next_free[l], n, pass[l])
        /\ options' = options
     \/ /\ ~ Fits(next_free[l], n)
        /\ "CIRCULAR" \in options[l]
        /\ next_free' = [next_free EXCEPT ![l] = n]
        /\ options' = [options EXCEPT ![l] = @ \cup {"WRAPED"}]
        /\ pass' = [pass EXCEPT ![l] = @ + 1]
        /\ given' = [given EXCEPT ![l] = {[addr |-> 0, len |-> n]}]
        /\ lapped' = lapped
        /\ Stored(t, l, 0, n, pass[l] + 1)
     \/ /\ ~ Fits(next_free[l], n)
        /\ "CIRCULAR" \notin options[l]
        /\ FetchAdd(l, n)
        /\ Return(t)
        /\ UNCHANGED <<options, mem, ghost>>
  /\ use' = use

-----------------------------------------------------------------------------
(* SPHLFLoggerResetIfFullSync; options &= RESETMASK changes nothing in a   *)
(* log that is not circular.                                               *)
IsFull(a) == a + Near >= Cap

ResetIfFull(t, l) ==
  /\ use.resets
  /\ Begin(t)
  /\ Call(t, l, 0)
  /\ Goto(t, "test")
  /\ UNCHANGED <<header, mem, use, log_entry, stamp, ghost>>

TestFull(t) ==
  /\ pc[t] = "test"
  /\ \/ /\ IsFull(next_free[log[t]])
        /\ log_entry' = [log_entry EXCEPT ![t] = next_free[log[t]]]
        /\ Goto(t, "reset")
        /\ UNCHANGED <<log, size, stamp>>
     \/ /\ ~ IsFull(next_free[log[t]])
        /\ Return(t)
  /\ UNCHANGED <<header, mem, use, calls, ghost>>

SwapNextFree(t) ==
  /\ pc[t] = "reset"
  /\ \/ /\ next_free[log[t]] = log_entry[t]
        /\ Restart(log[t])
        /\ options' = [options EXCEPT ![log[t]] = @ \ {"WRAPED"}]
        /\ Return(t)
     \/ /\ next_free[log[t]] # log_entry[t]
        /\ Goto(t, "test")
        /\ UNCHANGED <<header, log, size, log_entry, stamp, ghost>>
  /\ UNCHANGED <<mem, use, calls>>

(* SPHLFLoggerResetAsync, with no other call under way.                    *)
ResetAsync(l) ==
  /\ use.resets
  /\ Quiet
  /\ next_free[l] > 0
  /\ calls < MaxCalls
  /\ calls' = calls + 1
  /\ Restart(l)
  /\ options' = [options EXCEPT ![l] = @ \ {"WRAPED"}]
  /\ UNCHANGED <<mem, use, local>>

(* SPHLFLoggerSetCachePrefetch keeps the two options for prefetching of    *)
(* the old ones, and no other.  Before the log is used.                    *)
SetCachePrefetch(l) ==
  /\ calls = 0
  /\ options' = [options EXCEPT ![l] = {}]
  /\ UNCHANGED <<next_free, mem, use, local, calls, ghost>>

-----------------------------------------------------------------------------
Steps(t) ==
  \/ WriteHeader(t)
  \/ EntryComplete(t)
  \/ Wrap(t)
  \/ MarkWraped(t)
  \/ Secondary(t)
  \/ Again(t)
  \/ TestFull(t)
  \/ SwapNextFree(t)

Next ==
  \/ \E t \in Thread, l \in use.logs :
       \/ \E n \in use.sizes : Alloc(t, l, n) \/ AllocNoLock(t, l, n)
       \/ ResetIfFull(t, l)
  \/ \E t \in Thread : Steps(t)
  \/ \E l \in use.logs : ResetAsync(l) \/ SetCachePrefetch(l)

Spec == Init /\ [][Next]_vars

(* The threads run, and complete the entries they have.                    *)
Fairness == \A t \in Thread : WF_vars(Steps(t))

FairSpec == Spec /\ Fairness

-----------------------------------------------------------------------------
(* The iterator: current and free of SPHLFLogIterator_t, and its options   *)
(* as circular (both CIRCULAR and CIRCULAR_WRAPED) and notfirst.           *)
Wrapped(l) == options[l] = {"CIRCULAR", "WRAPED"}

CreateIterator(l) ==
  [current |-> IF Wrapped(l) THEN next_free[l] ELSE 0,
   free |-> next_free[l], circular |-> Wrapped(l), notfirst |-> FALSE]

NextEntry(l, it) == it.current + mem[l][it.current].len

UpToFree_Fault(a, free) == a < free
UpToFree(a, free) == a <= free

(* SPHLFLoggerIteratorNext returns a handle, for the entry at current.     *)
HasNext(l, it) ==
  /\ it.current < Cap
  /\ mem[l][it.current].valid
  /\ IF it.circular
       THEN \/ NextEntry(l, it) >= Cap
            \/ it.current # it.free
            \/ ~ it.notfirst
       ELSE UpToFree(NextEntry(l, it), it.free)

(* After the last entry of a circular log comes the first: start_log.      *)
GoesOn_Fault(a) == a
GoesOn(a) == IF a >= Cap THEN 0 ELSE a

IteratorNext(l, it) ==
  [it EXCEPT !.current = IF it.circular THEN GoesOn(NextEntry(l, it)) ELSE NextEntry(l, it),
             !.notfirst = TRUE]

(* An iterator that is used to the end passes these states; an entry has a *)
(* header, so more than Cap of them are more than the log can hold.        *)
Iterators(l) ==
  LET it[k \in 0..Cap+1] ==
        IF k = 0 THEN CreateIterator(l)
        ELSE IF HasNext(l, it[k-1]) THEN IteratorNext(l, it[k-1]) ELSE it[k-1]
  IN  it

(* The addresses of the entries it returns, in their order.                *)
ReadOut(l) ==
  LET it == Iterators(l)
      more == {k \in 1..Cap+1 : \A j \in 0..k-1 : HasNext(l, it[j])}
  IN  [k \in more |-> it[k-1].current]

-----------------------------------------------------------------------------
(* Properties.                                                             *)

(* The entries given out in a pass lie in the buffer, below next_free, and *)
(* no two of them share a unit.                                            *)
EntriesDisjoint ==
  \A l \in Log : \A e, f \in given[l] :
    /\ e.addr + e.len <= Cap
    /\ e.addr + e.len <= next_free[l]
    /\ e # f => ~ Overlaps(e.addr, e.len, f.addr, f.len)

(* A primary of a log is the only one, and nothing fits into the log.      *)
OnePrimary ==
  \A t, u \in Thread :
    pc[t] = "primary" =>
      /\ log_entry[t] <= Cap
      /\ log_entry[t] + size[t] > Cap
      /\ log_entry[t] + size[t] <= next_free[log[t]]
      /\ pc[u] = "primary" /\ log[u] = log[t] => u = t

(* A thread has the locals its place needs, and is at a place that the use *)
(* of the logs leads to: only circular logs have a primary, and those have *)
(* no resets.                                                              *)
CallsInUse ==
  /\ \A t \in Thread :
       /\ pc[t] # "idle" => t \in use.users
       /\ pc[t] \in {"header", "open", "primary", "mark", "wait", "add"} => size[t] >= 1
       /\ pc[t] \in {"header", "open"} => log_entry[t] + size[t] <= Cap
       /\ pc[t] = "primary" => use.circular
       /\ pc[t] \in {"test", "reset"} => use.resets
  /\ \A l \in Log : "CIRCULAR" \in options[l] => use.circular

(* LogInv: however the threads' fetch-and-adds, wraps and resets fall      *)
(* together, each entry is one thread's own, and one thread wraps a log.   *)
(* The invariant is inductive.                                             *)
LogInv ==
  /\ TypeOK
  /\ EntriesDisjoint
  /\ OnePrimary
  /\ CallsInUse

(* WrapsOnlyWhenFull: a circular log starts over only when no further      *)
(* entry fits, so that no wrap throws away a log just begun.               *)
WrapsOnlyWhenFull ==
  [][\A l \in Log :
       use.circular /\ next_free'[l] < next_free[l]
         => \A n \in use.sizes : ~ Fits(next_free[l], n)]_vars

(* FullLogWraps: when threads wait for a circular log to wrap, it does.    *)
(* That each of them then gets an entry is not so: one that does not look  *)
(* before the log is as full again waits for the next wrap.                *)
FullLogWraps ==
  \A l \in Log :
    (\E t \in Thread : pc[t] = "wait" /\ log[t] = l) ~> next_free[l] <= Cap

Addresses(s) == {s[i] : i \in DOMAIN s}

(* Older first: by pass and address.                                       *)
Older(l, a, b) ==
  \/ mem[l][a].pass < mem[l][b].pass
  \/ mem[l][a].pass = mem[l][b].pass /\ a < b

(* A thread has been given the entry and not completed it.                 *)
BeingFilled(l, a) ==
  \E t \in Thread : pc[t] \in {"header", "open"} /\ log[t] = l /\ log_entry[t] = a

(* The entries of this pass before which none is incomplete.               *)
CompletedInRow(l) ==
  {e.addr : e \in {f \in given[l] :
     \A g \in given[l] : g.addr <= f.addr => ~ BeingFilled(l, g.addr)}}

(* The entries that the buffer holds, of this pass and the one before.     *)
InBuffer(l) == {a \in Unit : mem[l][a].len > 0}

(* In its first pass a log can be read at any time.  Later, what is read   *)
(* while an entry has no header yet may be what the entry had replaced.    *)
Readable(l) ==
  /\ ~ use.raw
  /\ ~ Wrapped(l)
  /\ \/ pass[l] = 0
     \/ Quiet /\ Cardinality(use.sizes) = 1

(* A circular log can be read when no call is under way, no entry was lost *)
(* to a thread that had not completed it, entries fill the buffer, and the *)
(* next is not at the last place or the end, where the code's test for the *)
(* end of a wrapped log is skipped.                                        *)
ReadableRound(l) ==
  /\ Quiet
  /\ Wrapped(l)
  /\ ~ lapped[l]
  /\ \A n \in use.sizes : Cap % n = 0 /\ next_free[l] + n < Cap

(* ReadOutIsLog: the iterator returns the completed entries, each once and *)
(* "oldest to newest" (sphlflogger.h).                                     *)
ReadOutIsLog ==
  \A l \in Log :
    LET out == ReadOut(l) IN
    /\ Readable(l) =>
         /\ Addresses(out) = CompletedInRow(l)
         /\ \A i, j \in DOMAIN out : i < j => out[i] < out[j]
    /\ ReadableRound(l) =>
         /\ Addresses(out) = InBuffer(l)
         /\ \A i, j \in DOMAIN out : i < j => Older(l, out[i], out[j])
=============================================================================

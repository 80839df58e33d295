------------------------------ MODULE LogPortal ------------------------------
(***************************************************************************)
(* The log portal (sphlogportal.cpp): a list of loggers, of which one is   *)
(* current.  An allocate goes to the current logger; when that is full,    *)
(* one thread moves current to the next by compare-and-swap.               *)
(*                                                                         *)
(* The loggers of a portal are not circular and, while attached, are only  *)
(* used through it.  AddLogger runs while no call is under way: it is the  *)
(* program's to see to that (an allocate may find a slot that is counted   *)
(* and not yet filled).  So next_logger does not change during a call.     *)
(* The links between the blocks, which nothing follows, are left out.      *)
(***************************************************************************)
EXTENDS LFLogger, Sequences

CONSTANTS
  ListSize,     (* list_size                                               *)
  PortalUses    (* the Uses in which the threads call the portal           *)

ASSUME PortalAssumption ==
  /\ ListSize \in Nat /\ ListSize >= 1
  /\ PortalUses \subseteq Uses
  /\ \A u \in PortalUses : ~ u.circular /\ ~ u.resets /\ u.logs = {}

VARIABLES
  list,         (* log_buff_list, with the slot after its last             *)
  current_logger,
  next_logger,  (* next_free of the portal                                 *)
  place,        (* where in the allocate of the portal a thread is;        *)
                (* "crashed": it has followed a NULL                       *)
  log_index,
  want          (* the arguments of the call                               *)

portal == <<list, current_logger, next_logger>>
plocal == <<place, log_index, want>>
pvars == <<vars, portal, plocal>>

Slot == 0..ListSize

Want == [size : 0..Cap, raw : BOOLEAN]

Nothing == [size |-> 0, raw |-> FALSE]

PortalTypeOK ==
  /\ list \in [Slot -> Log \cup {NoLog}]
  /\ current_logger \in Slot
  /\ next_logger \in 0..ListSize+1
  /\ place \in [Thread -> {"idle", "alloc", "full", "swap", "retry", "start", "crashed"}]
  /\ log_index \in [Thread -> Slot]
  /\ want \in [Thread -> Want]

PInit ==
  /\ Init
  /\ list = [i \in Slot |-> NoLog]
  /\ current_logger = 0
  /\ next_logger = 0
  /\ place = [t \in Thread |-> "idle"]
  /\ log_index = [t \in Thread |-> 0]
  /\ want = [t \in Thread |-> Nothing]

-----------------------------------------------------------------------------
GotoPlace(t, p) == place' = [place EXCEPT ![t] = p]

PReturn(t) ==
  /\ GotoPlace(t, "idle")
  /\ log_index' = [log_index EXCEPT ![t] = 0]
  /\ want' = [want EXCEPT ![t] = Nothing]

Attached == {list[i] : i \in Slot} \ {NoLog}

(* SPHLogPortalAddLogger, of one that is not in the list yet, or of any    *)
(* when the list is full.  The first call that finds it full leaves        *)
(* next_logger one too high; later ones undo their increment.              *)
AddLogger(l) ==
  /\ use \in PortalUses
  /\ \A t \in Thread : pc[t] = "idle" /\ place[t] = "idle"
  /\ \/ /\ next_logger < ListSize
        /\ l \notin Attached
        /\ list' = [list EXCEPT ![next_logger] = l]
        /\ next_logger' = next_logger + 1
     \/ /\ next_logger = ListSize
        /\ next_logger' = next_logger + 1
        /\ list' = list
  /\ UNCHANGED <<vars, current_logger, plocal>>

(* The test of the empty portal, and the load of current_logger after it:  *)
(* current_logger stays below next_logger once it is.                      *)
Enter(t, w) ==
  \/ /\ next_logger > current_logger
     /\ log_index' = [log_index EXCEPT ![t] = current_logger]
     /\ want' = [want EXCEPT ![t] = w]
     /\ GotoPlace(t, "alloc")
  \/ /\ next_logger <= current_logger
     /\ PReturn(t)

(* SPHLogPortalAllocTimeStamped, ...AllocStrideTimeStamped, ...AllocRaw.   *)
PortalAlloc(t, n, raw) ==
  /\ use \in PortalUses
  /\ Begin(t)
  /\ place[t] = "idle"
  /\ raw => use.raw
  /\ Enter(t, [size |-> n, raw |-> raw])
  /\ UNCHANGED <<header, mem, use, local, ghost, portal>>

(* "recursively rechecking all the boundaries"                             *)
Start(t) ==
  /\ place[t] = "start"
  /\ Enter(t, want[t])
  /\ UNCHANGED <<vars, portal>>

(* The allocate of the logger, at place p; it gives no entry and leaves    *)
(* the thread where the others say.                                        *)
LoggerAlloc(t, l, fails) ==
  /\ IF want[t].raw THEN AllocRaw(t, l, want[t].size)
                    ELSE AllocTimeStamped(t, l, want[t].size)
  /\ calls' = calls
  /\ IF Fits(next_free[l], want[t].size)
       THEN PReturn(t)
       ELSE GotoPlace(t, fails) /\ UNCHANGED <<log_index, want>>

Crash(t) ==
  /\ GotoPlace(t, "crashed")
  /\ UNCHANGED <<vars, log_index, want>>

AllocFrom(t, i, fails) ==
  /\ IF list[i] = NoLog THEN Crash(t) ELSE LoggerAlloc(t, list[i], fails)
  /\ UNCHANGED portal

FirstAlloc(t) ==
  /\ place[t] = "alloc"
  /\ AllocFrom(t, log_index[t], "full")

(* The logger is full (SPHLFLoggerFull) and there is another.              *)
LoggerFull(l) == next_free[l] >= Cap

HasNextLogger_Fault(i) == i + 2 < next_logger
HasNextLoggerLast_Fault(i) == i < next_logger
HasNextLogger(i) == i + 1 < next_logger

CheckFull(t) ==
  /\ place[t] = "full"
  /\ IF LoggerFull(list[log_index[t]]) /\ HasNextLogger(log_index[t])
       THEN GotoPlace(t, "swap") /\ UNCHANGED <<log_index, want>>
       ELSE PReturn(t)
  /\ UNCHANGED <<vars, portal>>

(* "we want exactly one thread to bump the current pointer"                *)
IsCurrent(i) == current_logger = i

SwapCurrent(t) ==
  /\ place[t] = "swap"
  /\ \/ /\ IsCurrent(log_index[t])
        /\ current_logger' = current_logger + 1
        /\ GotoPlace(t, "retry")
     \/ /\ ~ IsCurrent(log_index[t])
        /\ current_logger' = current_logger
        /\ GotoPlace(t, "start")
  /\ UNCHANGED <<vars, list, next_logger, log_index, want>>

SecondAlloc(t) ==
  /\ place[t] = "retry"
  /\ AllocFrom(t, log_index[t] + 1, "start")

PSteps(t) ==
  \/ Start(t)
  \/ FirstAlloc(t)
  \/ CheckFull(t)
  \/ SwapCurrent(t)
  \/ SecondAlloc(t)

LoggerSteps(t) == Steps(t) /\ UNCHANGED <<portal, plocal>>

PNext ==
  \/ Next /\ UNCHANGED <<portal, plocal>>
  \/ \E l \in Log : AddLogger(l)
  \/ \E t \in Thread, n \in use.sizes, raw \in BOOLEAN : PortalAlloc(t, n, raw)
  \/ \E t \in Thread : PSteps(t)

PSpec == PInit /\ [][PNext]_pvars

(* The threads run, and complete the entries they have.                    *)
PFairness == \A t \in Thread : WF_pvars(LoggerSteps(t)) /\ WF_pvars(PSteps(t))

FairPSpec == PSpec /\ PFairness

-----------------------------------------------------------------------------
(* The iterator of the portal: SPHLFPortalCreateIterator takes the logger  *)
(* in slot 0.  SPHLFPortalIteratorNext goes to the next logger, if there   *)
(* is one, when the iterator of the logger ends; it ends with a logger     *)
(* that has nothing to read.                                               *)
GoesTo_Fault(i) == i < next_logger - 1 /\ i < ListSize /\ list[i] # NoLog
GoesTo(i) == i <= next_logger /\ i < ListSize /\ list[i] # NoLog

Reads(i) ==
  /\ \A j \in 0..i : GoesTo(j)
  /\ \A j \in 1..i : ReadOut(list[j]) # <<>>

(* The entries it returns, in their order, each with its logger's index.   *)
PortalReadOut ==
  LET upto[i \in 0..ListSize] ==
        (IF i = 0 THEN <<>> ELSE upto[i-1])
          \o IF Reads(i) THEN LET out == ReadOut(list[i])
                              IN  [k \in DOMAIN out |-> <<i, out[k]>>]
                         ELSE <<>>
  IN  upto[ListSize]

-----------------------------------------------------------------------------
(* Properties.                                                             *)

(* The list is filled from its start.                                      *)
ListFilled ==
  /\ current_logger <= next_logger
  /\ use \in PortalUses \/ next_logger = 0
  /\ \A i \in Slot : i < next_logger /\ i < ListSize <=> list[i] # NoLog
  /\ \A i, j \in Slot : list[i] = list[j] /\ list[i] # NoLog => i = j

(* What a thread has found out stays so until it acts on it.               *)
CallsFollow ==
  \A t \in Thread :
    /\ place[t] \in {"alloc", "full", "swap"} =>
         log_index[t] <= current_logger /\ log_index[t] < next_logger
    /\ place[t] \in {"full", "swap"} =>
         list[log_index[t]] # NoLog /\ LoggerFull(list[log_index[t]])
    /\ place[t] = "swap" => log_index[t] + 1 < next_logger
    /\ place[t] = "retry" => log_index[t] + 1 <= current_logger

(* A thread in the portal is in no logger.                                 *)
PortalInUse ==
  \A t \in Thread :
    /\ use \in PortalUses => pc[t] \in {"idle", "header", "open"}
    /\ place[t] # "idle" =>
         /\ pc[t] = "idle"
         /\ use \in PortalUses
         /\ t \in use.users
         /\ want[t].size \in use.sizes

(* PortalInv: the loggers before the current one are full for good, and a  *)
(* thread is at the current one or behind it.  With LogInv it is           *)
(* inductive.                                                              *)
PortalInv ==
  /\ PortalTypeOK
  /\ ListFilled
  /\ \A i \in 0..current_logger-1 : list[i] # NoLog /\ LoggerFull(list[i])
  /\ CallsFollow
  /\ PortalInUse

(* OneLogAtATime: an entry is only ever given out from the current logger, *)
(* although threads come to the others late: so a log is continued where   *)
(* it was left, and the order of the loggers is the order of the entries.  *)
OneLogAtATime ==
  [][\A l \in Log :
       use \in PortalUses /\ given'[l] # given[l] => l = list[current_logger]]_pvars

(* FailsOnlyWhenAllFull: a call of the portal returns NULL only when each  *)
(* logger in the list is full.                                             *)
Fails(t) ==
  /\ place[t] # "idle"
  /\ place'[t] = "idle"
  /\ given' = given

FailsOnlyWhenAllFull ==
  [][\A t \in Thread : Fails(t) => \A l \in Attached : LoggerFull(l)]_pvars

(* PortalCallReturns: the retries of a call come to an end, in a portal    *)
(* that has never refused a logger.                                        *)
PortalCallReturns ==
  \A t \in Thread : place[t] # "idle" ~> place[t] = "idle" \/ next_logger > ListSize

Before(p, q) ==
  \/ p[1] < q[1]
  \/ p[1] = q[1] /\ p[2] < q[2]

(* With no call under way the iterator of a portal returns all its entries *)
(* by logger and within a logger by address, the order they were allocated.*)
PortalReadOutIsLog ==
  Quiet /\ use \in PortalUses /\ ~ use.raw =>
    /\ Addresses(PortalReadOut) =
         UNION {{<<i, e.addr>> : e \in given[list[i]]} : i \in {j \in Slot : list[j] # NoLog}}
    /\ \A i, j \in DOMAIN PortalReadOut :
         i < j => Before(PortalReadOut[i], PortalReadOut[j])

(* ReadOutsAreLogs: the iterators of a logger and of a portal return what  *)
(* was logged, each entry once and in its order (SPHLFLoggerIteratorNext,  *)
(* SPHLFPortalIteratorNext).                                               *)
ReadOutsAreLogs == ReadOutIsLog /\ PortalReadOutIsLog
=============================================================================

----------------------------- MODULE SASRegion -----------------------------
(***************************************************************************)
(* The block allocator of sassim.cpp: processes join a region, allocate    *)
(* and free blocks of a power of two pages in it, and leave it; the region *)
(* stays behind in its files.  The anchor segment (segment 0) holds five   *)
(* trees and a semaphore; further segments are files made when the blocks  *)
(* run out, which the other processes attach when they first touch them.   *)
(*                                                                         *)
(* The unit of addresses is a page (the smallest block); a size is its     *)
(* logarithm, the index into logTable.                                     *)
(***************************************************************************)
EXTENDS ULTree, Integers, Sequences, FiniteSets, FiniteSetsExt

CONSTANTS
  Procs,
  MemLow,            \* address of the region
  AnchorLog,         \* block__Size1M, SegmentSize and RegionSize
  SegmentLog,
  RegionLog,
  Sizes,             \* sizes of the blocks that are asked for
  UintSpan,          \* an unsigned int holds offsets below this
  Clearing,          \* processes that set sasClearOnDealloc
  SharedReset,       \* may a region that was reset be shared again?
  MaxCalls, MaxJoins, MaxFails, MaxCrashes, MaxResets   \* bounds

ASSUME RegionAssumption ==
  /\ MemLow \in Nat \ {0}
  /\ AnchorLog \in Nat /\ SegmentLog \in Nat /\ RegionLog \in Nat
  /\ 0 < AnchorLog /\ AnchorLog < SegmentLog /\ SegmentLog < RegionLog
  /\ Sizes \subseteq 0 .. SegmentLog
  /\ UintSpan \in Nat \ {0}
  /\ Clearing \subseteq Procs

VARIABLES
  anchor,      \* the anchor block: five trees, the flag, the semaphore
  store,       \* segments that have a file
  attached,    \* segments that each process has mapped
  pc,          \* where each process is
  asleep,      \* processes that sem_wait has put to sleep
  me,          \* its locals: size, address, segment
  owned,       \* ghost: blocks the programs hold, as <<address, size>>
  lost,        \* ghost: blocks that a failure or a crash took out of use
  wasReset,    \* ghost: SASReset was called
  left         \* calls, joins, failures, crashes and resets still to come

vars == <<anchor, store, attached, pc, asleep, me, owned, lost, wasReset, left>>

NULL == 0
Pages(size) == 2 ^ size
RegionPages == Pages(RegionLog)
Segments == 0 .. Pages(RegionLog - SegmentLog) - 1
SegOf(addr) == (addr - MemLow) \div Pages(SegmentLog)
MaxLog2 == RegionLog + 1

-----------------------------------------------------------------------------
(* Keys order the nodes by size, then by offset.                           *)
Width == 2 * RegionPages
nodeToLong(offset, size) == size * Width + offset
longToOffset(k) == k % Width
longToSize(k) == k \div Width

p2AddUsed(t, size, loc) == insertNode(t, nodeToLong(loc - MemLow, size), loc)

\* The upper half of what is left goes back to the tree, until size is left.
\* ui is an unsigned int.
RECURSIVE KeepLowest(_, _, _, _, _)
KeepLowest(t, ui, l, j, uj) ==
  IF j >= uj THEN t
  ELSE KeepLowest(insertNode(t, nodeToLong(ui + Pages(uj - 1), uj - 1), l + Pages(uj - 1)),
                  ui, l, j, uj - 1)

\* As if a block were split once at most.
p2Alloc_Fault(t, size) ==
  LET nn == searchEqualOrNextNode(t, nodeToLong(0, size))
  IN IF nn = NoNode \/ longToSize(nn[1].key) \notin {size, size + 1, RegionLog}
     THEN [tree |-> t, addr |-> NULL]
     ELSE [tree |-> KeepLowest(removeNode(t, nn[1].key), longToOffset(nn[1].key) % UintSpan,
                               nn[1].info, size, longToSize(nn[1].key)),
           addr |-> nn[1].info]

p2Alloc(t, size) ==
  LET nn == searchEqualOrNextNode(t, nodeToLong(0, size))
  IN IF nn = NoNode THEN [tree |-> t, addr |-> NULL]
     ELSE LET k == nn[1].key
              l == nn[1].info
          IN [tree |-> KeepLowest(removeNode(t, k), longToOffset(k) % UintSpan, l,
                                  size, longToSize(k)),
              addr |-> l]

Buddy(ui, uj) == IF (ui \div Pages(uj)) % 2 = 0 THEN ui + Pages(uj) ELSE ui - Pages(uj)

\* A block joins its buddy as long as the buddy is in the tree.
RECURSIVE JoinBuddies(_, _, _, _)
JoinBuddies(t, ui, uj, val) ==
  LET k == nodeToLong(Buddy(ui, uj), uj)
      nn == searchEqualOrNextNode(t, k)
  IN IF nn = NoNode \/ uj >= MaxLog2 \/ nn[1].key # k
     THEN insertNode(t, nodeToLong(ui, uj), val)
     ELSE IF Buddy(ui, uj) < ui
     THEN JoinBuddies(removeNode(t, k), ui - Pages(uj), uj + 1, val - Pages(uj))
     ELSE JoinBuddies(removeNode(t, k), ui, uj + 1, val)

p2Dealloc(t, size, loc) == JoinBuddies(t, loc - MemLow, size, loc)

p2AddUsedCompact(t, size, loc) == p2Dealloc(t, size, loc)

\* The node of the smallest larger block that contains the block.
RECURSIVE p2FindCont(_, _, _)
p2FindCont(t, lsize, offset) ==
  LET tsize == lsize + 1
      keys == nodeToLong(offset - (offset % Pages(tsize)), tsize)
      nn == searchEqualOrNextNode(t, keys)
  IN IF nn = NoNode \/ nn[1].key = keys THEN nn ELSE p2FindCont(t, tsize, offset)

\* Halve the containing block and put back the half without the block.
RECURSIVE p2split(_, _, _, _, _, _)
p2split(t, asize, aoff, toff, tloc, tsize) ==
  IF tsize <= asize THEN t
  ELSE LET moff == toff + Pages(tsize - 1)
           mloc == tloc + Pages(tsize - 1)
       IN IF aoff >= moff
          THEN p2split(insertNode(t, nodeToLong(toff, tsize - 1), tloc),
                       asize, aoff, moff, mloc, tsize - 1)
          ELSE p2split(insertNode(t, nodeToLong(moff, tsize - 1), mloc),
                       asize, aoff, toff, tloc, tsize - 1)

\* A block that is not found is reported and stays where it was.
p2RemUsed(t, size, loc) ==
  LET keys == nodeToLong(loc - MemLow, size)
      nn == searchEqualOrNextNode(t, keys)
      c == p2FindCont(t, size, loc - MemLow)
  IN CASE nn # NoNode /\ nn[1].key = keys /\ nn[1].info = loc -> removeNode(t, keys)
       [] c # NoNode -> p2split(removeNode(t, c[1].key), size, loc - MemLow,
                                longToOffset(c[1].key), c[1].info, longToSize(c[1].key))
       [] OTHER -> t

-----------------------------------------------------------------------------
(* The anchor block: as the zeroes of a new file, and as initRegion leaves *)
(* it but for the semaphore, which is last.  The semaphore has its count   *)
(* and the number of processes that it knows to sleep.                     *)
ZeroAnchor == [uncommitted |-> NoNode, free |-> NoNode, used |-> NoNode,
               region |-> NoNode, allocated |-> NoNode,
               compactUseList |-> FALSE, SASSem |-> 0, waiters |-> 0]

initRegion(a) ==
  [a EXCEPT
     !.free = NoNode,
     !.uncommitted = p2Alloc(Node(nodeToLong(0, SegmentLog), MemLow), AnchorLog).tree,
     !.used = p2AddUsed(NoNode, AnchorLog, MemLow),
     !.region = p2Alloc(Node(nodeToLong(0, RegionLog), MemLow), SegmentLog).tree,
     !.allocated = p2AddUsed(NoNode, SegmentLog, MemLow)]

\* The loops over the allocated tree pass over the first node, the anchor's.
AllocatedSegs(a) ==
  LET nodes == NodesOf(a.allocated)
  IN {SegOf(n.info) : n \in {x \in nodes : \E y \in nodes : y.key < x.key}}

\* A segment whose file can be opened is mapped.
AttachSegs(p, segs) == attached' = [attached EXCEPT ![p] = @ \union (segs \intersect store)]
DetachSegs(p, segs) == attached' = [attached EXCEPT ![p] = @ \ segs]

\* The handler of SIGSEGV looks the segment up, without the semaphore.
SASAttachAllocatedAddr(s) ==
  {s} \intersect {SegOf(n.info) : n \in NodesOf(anchor.allocated)}

-----------------------------------------------------------------------------
Idle == [size |-> 0, addr |-> NULL, segAddr |-> NULL]

Goto(p, place) == pc' = [pc EXCEPT ![p] = place]
SpendOne(what) == left[what] > 0 /\ left' = [left EXCEPT ![what] = @ - 1]

Joined(p) == pc[p] \notin {"out", "create", "dead"}
Alone(p) == \A q \in Procs \ {p} : ~Joined(q)

Init ==
  /\ anchor = ZeroAnchor
  /\ store = {}
  /\ attached = [p \in Procs |-> {}]
  /\ pc = [p \in Procs |-> "out"] /\ asleep = {}
  /\ me = [p \in Procs |-> Idle]
  /\ owned = {} /\ lost = {} /\ wasReset = FALSE
  /\ left = [calls |-> MaxCalls, joins |-> MaxJoins, fails |-> MaxFails,
             crashes |-> MaxCrashes, resets |-> MaxResets]

(* SASJoinRegionByName: attach the anchor segment if its file is there,    *)
(* else create it; another process may create it in between.               *)
JoinAttach(p) ==
  /\ pc[p] = "out" /\ 0 \in store
  /\ wasReset => SharedReset
  /\ SpendOne("joins")
  /\ AttachSegs(p, {0})
  /\ Goto(p, "attachSegs")
  /\ UNCHANGED <<asleep, anchor, store, me, owned, lost, wasReset>>

JoinNoAnchor(p) ==
  /\ pc[p] = "out" /\ 0 \notin store
  /\ SpendOne("joins")
  /\ Goto(p, "create")
  /\ UNCHANGED <<asleep, anchor, store, attached, me, owned, lost, wasReset>>

CreateAnchorSeg(p) ==
  /\ pc[p] = "create"
  /\ IF 0 \in store
     THEN Goto(p, "out") /\ UNCHANGED <<anchor, store, attached>>
     ELSE /\ store' = store \union {0}
          /\ anchor' = ZeroAnchor
          /\ attached' = [attached EXCEPT ![p] = {0}]
          /\ Goto(p, "init")
  /\ UNCHANGED <<asleep, me, owned, lost, wasReset, left>>

InitTrees(p) ==
  /\ pc[p] = "init"
  /\ anchor' = initRegion(anchor)
  /\ Goto(p, "initSem")
  /\ UNCHANGED <<asleep, store, attached, me, owned, lost, wasReset, left>>

\* sem_init forgets who sleeps: they sleep on.
InitSASSem(p) ==
  /\ pc[p] = "initSem"
  /\ anchor' = [anchor EXCEPT !.SASSem = 1, !.waiters = 0]
  /\ Goto(p, "compact")
  /\ UNCHANGED <<asleep, store, attached, me, owned, lost, wasReset, left>>

SetCompactUseList(p) ==
  /\ pc[p] = "compact"
  /\ anchor' = [anchor EXCEPT !.compactUseList = TRUE]
  /\ Goto(p, "idle")
  /\ UNCHANGED <<asleep, store, attached, me, owned, lost, wasReset, left>>

AttachAllocatedSegs(p) ==
  /\ pc[p] = "attachSegs"
  /\ AttachSegs(p, AllocatedSegs(anchor))
  /\ Goto(p, "idle")
  /\ UNCHANGED <<asleep, anchor, store, me, owned, lost, wasReset, left>>

(* SASCleanUp *)
SASCleanUp(p) ==
  /\ pc[p] = "idle"
  /\ DetachSegs(p, {0} \union AllocatedSegs(anchor))
  /\ Goto(p, "out")
  /\ UNCHANGED <<asleep, anchor, store, me, owned, lost, wasReset, left>>

-----------------------------------------------------------------------------
(* The semaphore: where a process goes when it gets it, and when it has    *)
(* given it back.                                                          *)
AfterSeize == [waitAlloc |-> "alloc", waitRem |-> "remUsed", waitAdd |-> "addFree",
               waitReset |-> "reset"]
AfterRelease == [releaseAlloc |-> "idle", releaseClear |-> "clear",
                 releaseFree |-> "idle", releaseReset |-> "idle"]

\* Of those who sleep a post wakes one, if the semaphore knows of any.
SASSeize(p) ==
  /\ pc[p] \in DOMAIN AfterSeize
  /\ anchor.SASSem > 0
  /\ p \in asleep => anchor.waiters > 0
  /\ anchor' = [anchor EXCEPT !.SASSem = @ - 1,
                              !.waiters = IF p \in asleep THEN @ - 1 ELSE @]
  /\ asleep' = asleep \ {p}
  /\ Goto(p, AfterSeize[pc[p]])
  /\ UNCHANGED <<store, attached, me, owned, lost, wasReset, left>>

FallsAsleep(p) ==
  /\ pc[p] \in DOMAIN AfterSeize
  /\ anchor.SASSem = 0
  /\ p \notin asleep
  /\ anchor' = [anchor EXCEPT !.waiters = @ + 1]
  /\ asleep' = asleep \union {p}
  /\ UNCHANGED <<store, attached, pc, me, owned, lost, wasReset, left>>

\* As if an allocate without a block returned at once.
SASRelease_Fault(p) ==
  /\ pc[p] \in DOMAIN AfterRelease
  /\ anchor' = IF pc[p] = "releaseAlloc" /\ me[p].addr = NULL THEN anchor
               ELSE [anchor EXCEPT !.SASSem = @ + 1]
  /\ Goto(p, AfterRelease[pc[p]])
  /\ owned' = IF pc[p] = "releaseAlloc" /\ me[p].addr # NULL
              THEN owned \union {<<me[p].addr, me[p].size>>} ELSE owned
  /\ me' = IF AfterRelease[pc[p]] = "idle" THEN [me EXCEPT ![p] = Idle] ELSE me
  /\ UNCHANGED <<asleep, store, attached, lost, wasReset, left>>

\* A call returns once it has released; an allocate hands out its block.
SASRelease(p) ==
  /\ pc[p] \in DOMAIN AfterRelease
  /\ anchor' = [anchor EXCEPT !.SASSem = @ + 1]
  /\ Goto(p, AfterRelease[pc[p]])
  /\ owned' = IF pc[p] = "releaseAlloc" /\ me[p].addr # NULL
              THEN owned \union {<<me[p].addr, me[p].size>>} ELSE owned
  /\ me' = IF AfterRelease[pc[p]] = "idle" THEN [me EXCEPT ![p] = Idle] ELSE me
  /\ UNCHANGED <<asleep, store, attached, lost, wasReset, left>>

(* SASBlockAlloc *)
BlockAlloc(p, size) ==
  /\ pc[p] = "idle"
  /\ SpendOne("calls")
  /\ me' = [me EXCEPT ![p].size = size]
  /\ Goto(p, "waitAlloc")
  /\ UNCHANGED <<asleep, anchor, store, attached, owned, lost, wasReset>>

FromFree(p) == p2Alloc(anchor.free, me[p].size)
FromUncommitted(p) == p2Alloc(anchor.uncommitted, me[p].size)
FromRegion == p2Alloc(anchor.region, SegmentLog)

TakeFree(p) ==
  /\ pc[p] = "alloc" /\ FromFree(p).addr # NULL
  /\ anchor' = [anchor EXCEPT !.free = FromFree(p).tree]
  /\ me' = [me EXCEPT ![p].addr = FromFree(p).addr]
  /\ Goto(p, "addUsed")
  /\ UNCHANGED <<asleep, store, attached, owned, lost, wasReset, left>>

TakeUncommitted(p) ==
  /\ pc[p] = "alloc" /\ FromFree(p).addr = NULL /\ FromUncommitted(p).addr # NULL
  /\ anchor' = [anchor EXCEPT !.uncommitted = FromUncommitted(p).tree]
  /\ me' = [me EXCEPT ![p].addr = FromUncommitted(p).addr]
  /\ Goto(p, "addUsed")
  /\ UNCHANGED <<asleep, store, attached, owned, lost, wasReset, left>>

TakeSegment(p) ==
  /\ pc[p] = "alloc" /\ FromFree(p).addr = NULL /\ FromUncommitted(p).addr = NULL
  /\ FromRegion.addr # NULL
  /\ anchor' = [anchor EXCEPT !.region = FromRegion.tree]
  /\ me' = [me EXCEPT ![p].segAddr = FromRegion.addr]
  /\ Goto(p, "createSeg")
  /\ UNCHANGED <<asleep, store, attached, owned, lost, wasReset, left>>

NoRegion(p) ==
  /\ pc[p] = "alloc" /\ FromFree(p).addr = NULL /\ FromUncommitted(p).addr = NULL
  /\ FromRegion.addr = NULL
  /\ Goto(p, "releaseAlloc")
  /\ UNCHANGED <<asleep, anchor, store, attached, me, owned, lost, wasReset, left>>

\* The file must not exist.
CreateSeg(p) ==
  LET s == SegOf(me[p].segAddr) IN
  /\ pc[p] = "createSeg" /\ s \notin store
  /\ store' = store \union {s}
  /\ attached' = [attached EXCEPT ![p] = @ \union {s}]
  /\ Goto(p, "addSegment")
  /\ UNCHANGED <<asleep, anchor, me, owned, lost, wasReset, left>>

\* The allocate returns NULL, and the segment is in no tree any more.
CreateSegFails(p) ==
  LET s == SegOf(me[p].segAddr) IN
  /\ pc[p] = "createSeg"
  /\ IF s \in store THEN UNCHANGED left ELSE SpendOne("fails")
  /\ lost' = lost \union {<<me[p].segAddr, SegmentLog>>}
  /\ Goto(p, "releaseAlloc")
  /\ UNCHANGED <<asleep, anchor, store, attached, me, owned, wasReset>>

AddSegment_Fault(p) ==
  /\ pc[p] = "addSegment"
  /\ Goto(p, "commit")
  /\ UNCHANGED <<asleep, anchor, store, attached, me, owned, lost, wasReset, left>>

AddSegment(p) ==
  /\ pc[p] = "addSegment"
  /\ anchor' = [anchor EXCEPT !.allocated = p2AddUsed(@, SegmentLog, me[p].segAddr)]
  /\ Goto(p, "commit")
  /\ UNCHANGED <<asleep, store, attached, me, owned, lost, wasReset, left>>

\* The segment is free space now; the allocate starts over.
CommitSegment(p) ==
  /\ pc[p] = "commit"
  /\ anchor' = [anchor EXCEPT !.uncommitted = p2Dealloc(@, SegmentLog, me[p].segAddr)]
  /\ Goto(p, "alloc")
  /\ UNCHANGED <<asleep, store, attached, me, owned, lost, wasReset, left>>

AddUsed(p) ==
  /\ pc[p] = "addUsed"
  /\ anchor' = [anchor EXCEPT !.used =
       IF anchor.compactUseList THEN p2AddUsedCompact(@, me[p].size, me[p].addr)
       ELSE p2AddUsed(@, me[p].size, me[p].addr)]
  /\ Goto(p, "releaseAlloc")
  /\ UNCHANGED <<asleep, store, attached, me, owned, lost, wasReset, left>>

(* SASBlockDealloc, of any block that some process was given.  With        *)
(* sasClearOnDealloc it gives the semaphore away while it clears.          *)
BlockDealloc(p, b) ==
  /\ pc[p] = "idle"
  /\ SpendOne("calls")
  /\ owned' = owned \ {b}
  /\ me' = [me EXCEPT ![p] = [size |-> b[2], addr |-> b[1], segAddr |-> NULL]]
  /\ Goto(p, "waitRem")
  /\ UNCHANGED <<asleep, anchor, store, attached, lost, wasReset>>

\* The start of the block is cleared here, so its segment gets attached.
RemUsed(p) ==
  /\ pc[p] = "remUsed"
  /\ anchor' = [anchor EXCEPT !.used = p2RemUsed(@, me[p].size, me[p].addr)]
  /\ AttachSegs(p, SASAttachAllocatedAddr(SegOf(me[p].addr)))
  /\ Goto(p, IF p \in Clearing THEN "releaseClear" ELSE "addFree")
  /\ UNCHANGED <<asleep, store, me, owned, lost, wasReset, left>>

Clear_Fault(p) ==
  /\ pc[p] = "clear"
  /\ Goto(p, "addFree")
  /\ UNCHANGED <<asleep, anchor, store, attached, me, owned, lost, wasReset, left>>

Clear(p) ==
  /\ pc[p] = "clear"
  /\ Goto(p, "waitAdd")
  /\ UNCHANGED <<asleep, anchor, store, attached, me, owned, lost, wasReset, left>>

AddFree(p) ==
  /\ pc[p] = "addFree"
  /\ anchor' = [anchor EXCEPT !.free = p2Dealloc(@, me[p].size, me[p].addr)]
  /\ Goto(p, "releaseFree")
  /\ UNCHANGED <<asleep, store, attached, me, owned, lost, wasReset, left>>

(* A process reads a block it has not mapped: SASSigSegvHandler.  The      *)
(* handler returns to the load, which faults again if nothing was mapped.  *)
Touch(p, b) ==
  /\ pc[p] = "idle"
  /\ SegOf(b[1]) \notin attached[p]
  /\ SASAttachAllocatedAddr(SegOf(b[1])) \intersect store # {}
  /\ AttachSegs(p, SASAttachAllocatedAddr(SegOf(b[1])))
  /\ UNCHANGED <<asleep, anchor, store, pc, me, owned, lost, wasReset, left>>

-----------------------------------------------------------------------------
(* SASReset: the semaphore that the call holds is made anew, with the      *)
(* value 1, and then released.                                             *)
SASReset(p) ==
  /\ pc[p] = "idle"
  /\ SharedReset \/ Alone(p)
  /\ SpendOne("resets")
  /\ wasReset' = TRUE
  /\ Goto(p, "waitReset")
  /\ UNCHANGED <<asleep, anchor, store, attached, me, owned, lost>>

ResetRegion(p) ==
  /\ pc[p] = "reset"
  /\ store' = store \ AllocatedSegs(anchor)
  /\ DetachSegs(p, AllocatedSegs(anchor))
  /\ anchor' = [initRegion(anchor) EXCEPT !.SASSem = 1, !.waiters = 0]
  /\ owned' = {} /\ lost' = {}
  /\ Goto(p, "releaseReset")
  /\ UNCHANGED <<asleep, me, wasReset, left>>

(* SASRemove by the last process: the files are gone.                      *)
SASRemove(p) ==
  /\ pc[p] = "idle" /\ Alone(p)
  /\ store' = store \ ({0} \union AllocatedSegs(anchor))
  /\ attached' = [attached EXCEPT ![p] = {}]
  /\ owned' = {} /\ lost' = {} /\ wasReset' = FALSE
  /\ Goto(p, "out")
  /\ UNCHANGED <<asleep, anchor, me, left>>

(* A process dies inside a call, between two operations on trees, and what *)
(* it had taken from the trees is lost.  When nobody else is inside,       *)
(* SASResetSem recovers.                                                   *)
Holding == {"alloc", "addUsed", "createSeg", "addSegment", "commit", "releaseAlloc",
            "remUsed", "releaseClear", "addFree", "releaseFree", "reset", "releaseReset"}
InHand == {"addUsed", "releaseAlloc", "waitRem", "remUsed", "releaseClear", "clear",
           "waitAdd", "addFree"}
SegInHand == {"createSeg", "addSegment", "commit"}

BlockOf(p) ==
  IF pc[p] \in InHand /\ me[p].addr # NULL THEN {<<me[p].addr, me[p].size>>}
  ELSE IF pc[p] \in SegInHand THEN {<<me[p].segAddr, SegmentLog>>} ELSE {}

Crash(p) ==
  /\ pc[p] \notin {"out", "idle", "dead"}
  /\ SpendOne("crashes")
  /\ lost' = lost \union BlockOf(p)
  /\ attached' = [attached EXCEPT ![p] = {}]
  /\ asleep' = asleep \ {p}
  /\ me' = [me EXCEPT ![p] = Idle]
  /\ Goto(p, "dead")
  /\ UNCHANGED <<anchor, store, owned, wasReset>>

SASResetSem(p) ==
  /\ pc[p] = "idle"
  /\ \E q \in Procs : pc[q] = "dead"
  /\ \A q \in Procs : pc[q] \in {"idle", "out", "dead"}
  /\ anchor.SASSem = 0
  /\ anchor' = [anchor EXCEPT !.SASSem = 1, !.waiters = 0]
  /\ UNCHANGED <<asleep, store, attached, pc, me, owned, lost, wasReset, left>>

-----------------------------------------------------------------------------
Begin(p) ==
  \/ JoinAttach(p)
  \/ JoinNoAnchor(p)
  \/ SASCleanUp(p)
  \/ \E size \in Sizes : BlockAlloc(p, size)
  \/ \E b \in owned : BlockDealloc(p, b)
  \/ \E b \in owned : Touch(p, b)
  \/ SASReset(p)
  \/ SASRemove(p)
  \/ SASResetSem(p)

Step(p) ==
  \/ CreateAnchorSeg(p)
  \/ InitTrees(p)
  \/ InitSASSem(p)
  \/ SetCompactUseList(p)
  \/ AttachAllocatedSegs(p)
  \/ SASSeize(p)
  \/ FallsAsleep(p)
  \/ SASRelease(p)
  \/ TakeFree(p)
  \/ TakeUncommitted(p)
  \/ TakeSegment(p)
  \/ NoRegion(p)
  \/ CreateSeg(p)
  \/ CreateSegFails(p)
  \/ AddSegment(p)
  \/ CommitSegment(p)
  \/ AddUsed(p)
  \/ RemUsed(p)
  \/ Clear(p)
  \/ AddFree(p)
  \/ ResetRegion(p)

Next == \E p \in Procs : Begin(p) \/ Step(p) \/ Crash(p)

Spec == Init /\ [][Next]_vars /\ \A p \in Procs : WF_vars(Step(p))

-----------------------------------------------------------------------------
PagesOf(b) == b[1] .. b[1] + Pages(b[2]) - 1
BlocksIn(t) == {<<n.info, longToSize(n.key)>> : n \in NodesOf(t)}
AllPages(blocks) == UNION {PagesOf(b) : b \in blocks}

Initialised == anchor.allocated # NoNode /\ 0 \in store

Taken == UNION {BlockOf(p) : p \in Procs}

\* The parts the region is divided into.
Parts == <<BlocksIn(anchor.free), BlocksIn(anchor.uncommitted), BlocksIn(anchor.region),
           {<<MemLow, AnchorLog>>}, owned, lost, Taken>>

\* The parts are all of the region, and their sizes add up to its size: no
\* block overlaps another, of the same part or of a different one.
Volume(blocks) == MapThenSumSet(LAMBDA b : Pages(b[2]), blocks)
PartsArePartition ==
  /\ UNION {AllPages(Parts[i]) : i \in DOMAIN Parts} = MemLow .. MemLow + RegionPages - 1
  /\ MapThenSumSet(LAMBDA i : Volume(Parts[i]), DOMAIN Parts) = RegionPages

Trees == {anchor.free, anchor.uncommitted, anchor.region, anchor.used, anchor.allocated}
TreesAreWhole ==
  \A t \in Trees :
    LET nodes == NodesOf(t)
        listed == NodesAfter(t, -1)
    IN /\ IsSearchTree(t)
       /\ \A n \in nodes : /\ longToOffset(n.key) = n.info - MemLow
                           /\ longToOffset(n.key) % Pages(longToSize(n.key)) = 0
       /\ nodes = {listed[i] : i \in DOMAIN listed}

\* What is in use is what programs hold, and the anchor.
UsedIsHeld ==
  /\ Volume(BlocksIn(anchor.used)) = Cardinality(AllPages(BlocksIn(anchor.used)))
  /\ PagesOf(<<MemLow, AnchorLog>>) \union AllPages(owned) \subseteq AllPages(BlocksIn(anchor.used))
  /\ AllPages(BlocksIn(anchor.used)) \subseteq
       PagesOf(<<MemLow, AnchorLog>>) \union AllPages(owned \union lost \union Taken)

\* No two buddies are free: whatever can be joined is.
FreeIsJoined ==
  LET keys == {n.key : n \in NodesOf(anchor.free)}
  IN \A k \in keys : nodeToLong(Buddy(longToOffset(k), longToSize(k)), longToSize(k)) \notin keys

\* The handler finds the segment of every block a program may touch.
OwnedIsReachable == \A b \in owned : SASAttachAllocatedAddr(SegOf(b[1])) \intersect store # {}

OneInside == Cardinality({p \in Procs : pc[p] \in Holding}) <= 1

-----------------------------------------------------------------------------
(* The trees are search trees of aligned blocks, each listed once; their   *)
(* blocks, those held, in transit and lost, and the anchor partition the   *)
(* region; the used tree has what is held; free buddies are joined; every  *)
(* block held can be mapped by every process; one process at a time is     *)
(* inside.  Through any sequence of splits and joins, through crashes,     *)
(* failures, restarts and a free that gives the semaphore away half way.   *)
RegionInv ==
  /\ anchor.SASSem \in Nat
  /\ OneInside
  /\ Initialised => /\ TreesAreWhole
                    /\ PartsArePartition
                    /\ UsedIsHeld
                    /\ FreeIsJoined
                    /\ OwnedIsReachable

(* An allocate finds no room only if no aligned run of its size is free in *)
(* one of the trees, and the region has no segment left.                   *)
Runs(t, size) ==
  {o \in 0 .. RegionPages - 1 : /\ o % Pages(size) = 0
                                /\ PagesOf(<<MemLow + o, size>>) \subseteq AllPages(BlocksIn(t))}

NullMeansNoRoom ==
  [][\A p \in Procs :
       pc[p] = "alloc" /\ pc'[p] = "releaseAlloc" =>
         /\ Runs(anchor.free, me[p].size) = {}
         /\ Runs(anchor.uncommitted, me[p].size) = {}
         /\ Runs(anchor.region, SegmentLog) = {}]_vars

(* A process sleeps and the semaphore does not know of it: it slept before *)
(* the semaphore was made, or made anew.                                   *)
Forgotten == anchor.waiters < Cardinality(asleep)

(* A call that began returns, unless a process died or the making of the   *)
(* semaphore forgot one that slept on the zeroes before it.                *)
CallsReturn ==
  \A p \in Procs :
    pc[p] \notin {"idle", "out", "dead"} ~>
      \/ pc[p] \in {"idle", "out"}
      \/ Forgotten
      \/ \E q \in Procs : pc[q] = "dead"
=============================================================================

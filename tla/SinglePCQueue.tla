--------------------------- MODULE SinglePCQueue ---------------------------
(***************************************************************************)
(* The single producer, single consumer queue (sphsinglepcqueue.cpp,       *)
(* sphlfentry.h, sphdirectpcqueue.h): a ring of entries of one stride and  *)
(* two offsets, qhead stored by the producer only and qtail stored by the  *)
(* consumer only.  There is no lock: an action has at most one load or     *)
(* store of what the other thread stores, and two stores that the code     *)
(* does not order are done in either order.                                *)
(***************************************************************************)
EXTENDS Integers, Sequences

CONSTANTS
  N,            (* entries of the ring: (endq - startq) / stride           *)
  Val,          (* what the producer can write into an entry               *)
  NoVal         (* an entry that is not complete, for the queue promised   *)

ASSUME RingAssumption == N \in Nat /\ N >= 2 /\ NoVal \notin Val

VARIABLES
  qhead, qtail,
  entryID,      (* the flags of each entry's header                        *)
  data,         (* what is stored behind the header                        *)
  ppc,          (* the producer's place in the code                        *)
  pkind,        (* which allocate it called                                *)
  pstores,      (* stores it has still to do, in their order               *)
  popen,        (* the entries allocated and not complete: its handles     *)
  cpc, ckind, cstores,
  cid,          (* entrytemp: the flags a get has loaded; zero outside it  *)
  cval,         (* what it has read from the entry                         *)
  last          (* what was in the entry it freed last                     *)

producer == <<ppc, pkind, pstores, popen>>
consumer == <<cpc, ckind, cstores, cid, cval, last>>
vars == <<qhead, qtail, entryID, data, producer, consumer>>

Slot == 0..N-1
Flags == {"zero", "allocated", "complete"}   (* complete: allocated, valid *)

(* The offset after s: "if (head >= endq) head = startq". *)
NextOf(s) == IF s + 1 >= N THEN 0 ELSE s + 1

(* How far s is behind the offset t: the entries from t up to s. *)
Dist(t, s) == IF s >= t THEN s - t ELSE s - t + N

ProducerPc == {"idle", "full", "flags", "stores"}
ConsumerPc == {"idle", "head", "spinHead", "spinID", "poll", "use", "free", "stores"}
ProducerStores == {<<>>, <<"qhead">>, <<"entryID">>, <<"entryID", "qhead">>, <<"qhead", "entryID">>}
ConsumerStores == {<<>>, <<"qtail">>, <<"entryID">>, <<"entryID", "qtail">>, <<"qtail", "entryID">>}

TypeOK ==
  /\ qhead \in Slot
  /\ qtail \in Slot
  /\ entryID \in [Slot -> Flags]
  /\ data \in [Slot -> Val]
  /\ ppc \in ProducerPc
  /\ pkind \in {"try", "spin", "raw"}
  /\ pstores \in ProducerStores
  /\ popen \in SUBSET Slot
  /\ cpc \in ConsumerPc
  /\ ckind \in {"complete", "spin", "entry"}
  /\ cstores \in ConsumerStores
  /\ cid \in Flags
  /\ cval \in Val
  /\ last \in Val

Init ==
  /\ qhead = 0
  /\ qtail = 0
  /\ entryID = [s \in Slot |-> "zero"]
  /\ data \in [Slot -> Val]
  /\ ppc = "idle"
  /\ pkind = "try"
  /\ pstores = <<>>
  /\ popen = {}
  /\ cpc = "idle"
  /\ ckind = "complete"
  /\ cstores = <<>>
  /\ cid = "zero"
  /\ cval \in Val
  /\ last \in Val

NotFull_Fault == TRUE
NotFull == NextOf(qhead) # qtail

-----------------------------------------------------------------------------
(* The producer. *)

(* AllocStrideDirect, AllocStrideEntry and AllocStrideTimeStamped return   *)
(* NULL when they cannot allocate ("try"); AllocStrideDirectSpin and       *)
(* ...SpinPause wait ("spin"); AllocRaw does not look at the flags.  A     *)
(* producer completes its entries before it waits for room, as in the      *)
(* documented use: the consumer makes room only behind completed entries.  *)
Alloc(kind) ==
  /\ ppc = "idle"
  /\ kind = "spin" => popen = {}
  /\ ppc' = "full"
  /\ pkind' = kind
  /\ UNCHANGED <<qhead, qtail, entryID, data, pstores, popen, consumer>>

TestFull ==
  /\ ppc = "full"
  /\ NotFull
  /\ IF pkind = "raw"
       THEN ppc' = "stores" /\ pstores' = <<"qhead">>
       ELSE ppc' = "flags" /\ UNCHANGED pstores
  /\ UNCHANGED <<qhead, qtail, entryID, data, pkind, popen, consumer>>

(* No barrier orders the store of the header and the store of qhead. *)
TestFlags ==
  /\ ppc = "flags"
  /\ entryID[qhead] = "zero"
  /\ ppc' = "stores"
  /\ pstores' \in {<<"entryID", "qhead">>, <<"qhead", "entryID">>}
  /\ UNCHANGED <<qhead, qtail, entryID, data, pkind, popen, consumer>>

AllocFails ==
  /\ \/ ppc = "full" /\ pkind # "spin" /\ ~ NotFull
     \/ ppc = "flags" /\ pkind = "try" /\ entryID[qhead] # "zero"
  /\ ppc' = "idle"
  /\ UNCHANGED <<qhead, qtail, entryID, data, pkind, pstores, popen, consumer>>

(* The entry allocated, before and after qhead has moved past it. *)
Before(s) == IF s = 0 THEN N - 1 ELSE s - 1
AllocatedSlot == IF \E i \in 1..Len(pstores) : pstores[i] = "qhead" THEN qhead ELSE Before(qhead)

(* The call returns the entry when the last store is done. *)
ProducerStored ==
  /\ pstores' = Tail(pstores)
  /\ IF Len(pstores) = 1
       THEN ppc' = "idle" /\ popen' = popen \cup {AllocatedSlot}
       ELSE UNCHANGED <<ppc, popen>>
  /\ UNCHANGED <<qtail, data, pkind, consumer>>

StoreHead ==
  /\ ppc = "stores"
  /\ Head(pstores) = "qhead"
  /\ qhead' = NextOf(qhead)
  /\ ProducerStored
  /\ UNCHANGED entryID

StoreAllocated ==
  /\ ppc = "stores"
  /\ Head(pstores) = "entryID"
  /\ entryID' = [entryID EXCEPT ![AllocatedSlot] = "allocated"]
  /\ ProducerStored
  /\ UNCHANGED qhead

(* The program writes into an entry it has a handle of. *)
Fill(s, v) ==
  /\ ppc = "idle"
  /\ s \in popen
  /\ data' = [data EXCEPT ![s] = v]
  /\ UNCHANGED <<qhead, qtail, entryID, producer, consumer>>

(* EntryComplete, or SPHLFEntryDirectComplete for an entry from AllocRaw.  *)
(* A barrier comes first.  The handle is not used again ("should not touch *)
(* or modify a queue entry after calling EntryComplete").                  *)
Complete(s) ==
  /\ ppc = "idle"
  /\ s \in popen
  /\ entryID' = [entryID EXCEPT ![s] = "complete"]
  /\ popen' = popen \ {s}
  /\ UNCHANGED <<qhead, qtail, data, ppc, pkind, pstores, consumer>>

-----------------------------------------------------------------------------
(* The consumer. *)

(* GetNextComplete and GetNextCompleteDirect return NULL when the entry at *)
(* qtail is not complete ("complete"); GetNextCompleteDirectSpin and       *)
(* ...SpinPause wait ("spin"); GetNextEntryDirect also returns an entry    *)
(* that is only allocated, and the program polls it ("entry").  The flags  *)
(* are loaded before qhead.                                                *)
GetNext(kind) ==
  /\ cpc = "idle"
  /\ cpc' = "head"
  /\ ckind' = kind
  /\ cid' = entryID[qtail]
  /\ UNCHANGED <<qhead, qtail, entryID, data, producer, cstores, cval, last>>

Usable_Fault == cid # "zero"
Usable == IF ckind = "entry" THEN cid # "zero" ELSE cid = "complete"

NotEmpty == qhead # qtail

GetReturns(l) ==
  /\ cpc' = l
  /\ cid' = "zero"
  /\ UNCHANGED <<qhead, qtail, entryID, data, producer, ckind, cstores, cval, last>>

GetSucceeds == cpc = "head" /\ NotEmpty /\ Usable /\ GetReturns(IF ckind = "entry" THEN "poll" ELSE "use")
GetFails == cpc = "head" /\ ckind # "spin" /\ ~ (NotEmpty /\ Usable) /\ GetReturns("idle")
GetSpins == cpc = "head" /\ ckind = "spin" /\ ~ (NotEmpty /\ Usable) /\ GetReturns("spinHead")

(* The two loops of the spinning get, and EntryIsCompleteDirect.           *)
SpinHead == cpc = "spinHead" /\ NotEmpty /\ GetReturns("spinID")
SpinID == cpc = "spinID" /\ entryID[qtail] = "complete" /\ GetReturns("use")
PollComplete == cpc = "poll" /\ entryID[qtail] = "complete" /\ GetReturns("use")

(* The program reads what is in the entry. *)
Use ==
  /\ cpc = "use"
  /\ cval' = data[qtail]
  /\ cpc' = "free"
  /\ UNCHANGED <<qhead, qtail, entryID, data, producer, ckind, cstores, cid, last>>

FreeOrders_Fault == {<<"qtail">>}
FreeKeepsTail_Fault == {<<"entryID">>}
FreeOrders == {<<"entryID", "qtail">>, <<"qtail", "entryID">>}

(* FreeNextEntry and FreeNextEntryDirect check the entry again, clear its  *)
(* header and move qtail.  The first does that in this order; in the other *)
(* the barrier is commented out.                                           *)
FreeNext ==
  /\ cpc = "free"
  /\ NotEmpty
  /\ entryID[qtail] = "complete"
  /\ cpc' = "stores"
  /\ cstores' \in FreeOrders
  /\ UNCHANGED <<qhead, qtail, entryID, data, producer, ckind, cid, cval, last>>

FreedSlot == IF \E i \in 1..Len(cstores) : cstores[i] = "qtail" THEN qtail ELSE Before(qtail)

ConsumerStored ==
  /\ cstores' = Tail(cstores)
  /\ cpc' = IF Len(cstores) = 1 THEN "idle" ELSE "stores"
  /\ UNCHANGED <<qhead, data, producer, ckind, cid, cval>>

StoreTail ==
  /\ cpc = "stores"
  /\ Head(cstores) = "qtail"
  /\ qtail' = NextOf(qtail)
  /\ last' = cval
  /\ ConsumerStored
  /\ UNCHANGED entryID

StoreZero ==
  /\ cpc = "stores"
  /\ Head(cstores) = "entryID"
  /\ entryID' = [entryID EXCEPT ![FreedSlot] = "zero"]
  /\ ConsumerStored
  /\ UNCHANGED <<qtail, last>>

-----------------------------------------------------------------------------
(* ResetAsync, "internal use for testing": the tests call it between two   *)
(* uses of a queue that has been drained, with neither thread in a call.   *)
ResetAsync ==
  /\ ppc = "idle"
  /\ cpc = "idle"
  /\ popen = {}
  /\ qhead = qtail
  /\ qhead' = 0
  /\ qtail' = 0
  /\ UNCHANGED <<entryID, data, producer, consumer>>

Producing ==
  \/ TestFull \/ TestFlags \/ AllocFails \/ StoreHead \/ StoreAllocated

Consuming ==
  \/ GetSucceeds \/ GetFails \/ GetSpins \/ SpinHead \/ SpinID \/ PollComplete
  \/ Use \/ FreeNext \/ StoreTail \/ StoreZero

Next ==
  \/ \E kind \in {"try", "spin", "raw"} : Alloc(kind)
  \/ Producing
  \/ \E s \in Slot : Complete(s) \/ \E v \in Val : Fill(s, v)
  \/ \E kind \in {"complete", "spin", "entry"} : GetNext(kind)
  \/ Consuming
  \/ ResetAsync

Spec == Init /\ [][Next]_vars

(* Both threads keep running, the producer completes what it allocates and *)
(* the consumer keeps asking for entries, all of which the documented use  *)
(* of the queue does ("while (SPHSinglePCQueueEmpty(pcqueue)) ...").  The  *)
(* producer need not allocate.  Fairness to Complete is strong: a producer *)
(* that keeps trying to allocate does not forget the entries it has.       *)
FairSpec ==
  /\ Spec
  /\ WF_vars(Producing)
  /\ SF_vars(\E s \in Slot : Complete(s))
  /\ WF_vars(Consuming \/ \E kind \in {"complete", "spin", "entry"} : GetNext(kind))

-----------------------------------------------------------------------------
(* HeadIsClean: while the ring is not full, the entry that the next        *)
(* allocate takes has a clear header, although the consumer's two stores   *)
(* may come in either order: an entry is only reached one free after its   *)
(* own.  So an allocate that found room does not fail on the flags, and    *)
(* AllocRaw may leave them out.                                            *)
HeadMarked == pstores = <<"qhead">> /\ pkind # "raw"
HeadIsClean == NextOf(qhead) # qtail /\ ~ HeadMarked => entryID[qhead] = "zero"

(* PayloadStable: what the consumer has a handle of does not change under  *)
(* it until it frees the entry.                                            *)
Holding == cpc \in {"use", "free"}
PayloadStable ==
  [][Holding /\ Holding' => data'[qtail] = data[qtail]]_vars

(* EntriesDelivered: each completed entry is freed by the consumer in the  *)
(* end, entries completed in any order.                                    *)
EntriesDelivered == \A s \in Slot : entryID[s] = "complete" ~> entryID[s] = "zero"

(* AllocReturns: an allocate returns, the spinning one because the         *)
(* consumer makes room.                                                    *)
AllocReturns == ppc # "idle" ~> ppc = "idle"

-----------------------------------------------------------------------------
(* The entries from qtail up to qhead are in use. *)
InUse(s) == Dist(qtail, s) < Dist(qtail, qhead)

(* qhead has moved past an entry whose header is not stored yet; qtail has *)
(* not moved past an entry whose header is cleared, or the other way.      *)
Unmarked(s) == pstores = <<"entryID">> /\ s = Before(qhead)
Leaving == cstores = <<"qtail">>
Stale(s) == cstores = <<"entryID">> /\ s = Before(qtail)

ProducerInv ==
  /\ ppc = "stores" <=> pstores # <<>>
  /\ pkind = "raw" => pstores \in {<<>>, <<"qhead">>} /\ ppc # "flags"
  /\ ppc = "flags" \/ (ppc = "stores" /\ pstores # <<"entryID">>) => NextOf(qhead) # qtail
  /\ pstores = <<"entryID">> =>
       /\ qhead # qtail
       /\ entryID[Before(qhead)] = "zero" /\ Before(qhead) \notin popen
       /\ ~ (Leaving /\ Before(qhead) = qtail)
  /\ \A s \in popen : InUse(s) /\ entryID[s] # "complete" /\ ~ (Leaving /\ s = qtail)

EntryInv ==
  \A s \in Slot :
    IF InUse(s)
      THEN \/ entryID[s] = "complete" \/ s \in popen \/ Unmarked(s)
           \/ Leaving /\ s = qtail
      ELSE \/ entryID[s] = "zero"
           \/ HeadMarked /\ s = qhead /\ entryID[s] = "allocated"
           \/ Stale(s)

Held == cpc \in {"use", "free"} \/ Len(cstores) = 2

ConsumerInv ==
  /\ cpc = "stores" <=> cstores # <<>>
  /\ Held \/ Leaving \/ cpc \in {"poll", "spinID"} => qhead # qtail
  /\ Held => entryID[qtail] = "complete"
  /\ cpc = "head" /\ cid = "complete" => entryID[qtail] = "complete"
  /\ Leaving => entryID[qtail] = "zero"
  /\ cpc = "free" \/ Len(cstores) = 2 \/ Leaving => cval = data[qtail]

(* QueueInv: why the two threads need no lock.  An entry in use is         *)
(* complete, or the producer has its handle, or one of the two threads is  *)
(* between its two stores; an entry not in use is clear, but for such a    *)
(* thread; and what the consumer holds is the completed entry at qtail.    *)
QueueInv == TypeOK /\ ProducerInv /\ EntryInv /\ ConsumerInv

-----------------------------------------------------------------------------
(* The queue implements BoundedFifo, one entry always being left empty.    *)
Used == Dist(qtail, qhead)
SlotAt(i) == IF qtail + i - 1 >= N THEN qtail + i - 1 - N ELSE qtail + i - 1

(* The oldest entry counts as complete until qtail has moved past it.      *)
Content(i) ==
  IF entryID[SlotAt(i)] = "complete" \/ (i = 1 /\ Leaving)
    THEN data[SlotAt(i)]
    ELSE NoVal

Fifo == INSTANCE BoundedFifo WITH
  Unpublished <- NoVal, Capacity <- N - 1,
  q <- [i \in 1..Used |-> Content(i)]

ImplementsBoundedFifo == Fifo!Spec
=============================================================================

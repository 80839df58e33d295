------------------------ MODULE SinglePCQueueProofs ------------------------
(***************************************************************************)
(* Proofs about the single producer, single consumer queue, for every ring *)
(* size and every set of values.                                           *)
(***************************************************************************)
EXTENDS SinglePCQueue, SequenceTheorems, TLAPS

-----------------------------------------------------------------------------
(* A queue as a function of its places, and as a sequence.                  *)

(* A function that has one element more than another, and agrees with it   *)
(* below, is what Append makes of it.                                      *)
LEMMA AppendGives ==
  ASSUME NEW S, NEW n \in Nat, NEW f \in [1..n -> S], NEW v \in S,
         NEW g \in [1..n+1 -> S], \A i \in 1..n : g[i] = f[i], g[n+1] = v
  PROVE  g = Append(f, v) /\ Len(f) = n
<1>1. f \in Seq(S) /\ Len(f) = n /\ g \in Seq(S) /\ Len(g) = n + 1
  OBVIOUS
<1> QED BY <1>1, AppendProperties, SeqEqual

(* The same for Tail: one element less, each moved up. *)
LEMMA TailGives ==
  ASSUME NEW S, NEW n \in Nat, n > 0, NEW f \in [1..n -> S],
         NEW g \in [1..n-1 -> S], \A i \in 1..n-1 : g[i] = f[i+1]
  PROVE  f # <<>> /\ Head(f) = f[1] /\ g = Tail(f)
<1>1. f \in Seq(S) /\ Len(f) = n /\ g \in Seq(S) /\ Len(g) = n - 1
  OBVIOUS
<1>2. f # <<>> /\ Head(f) = f[1]
  BY <1>1
<1> QED BY <1>1, <1>2, HeadTailProperties, SeqEqual

(* The ring: offsets stay inside it, stepping on and back are inverse. *)
LEMMA Ring ==
  ASSUME NEW s \in Slot
  PROVE  /\ NextOf(s) \in Slot /\ Before(s) \in Slot
         /\ Before(NextOf(s)) = s /\ NextOf(Before(s)) = s
         /\ NextOf(s) # s
BY RingAssumption DEF Slot, NextOf, Before

(* Distances: what is between, when either end moves on. *)
LEMMA Distance ==
  ASSUME NEW t \in Slot, NEW s \in Slot
  PROVE  /\ Dist(t, s) \in 0..N-1
         /\ Dist(t, s) = 0 <=> t = s
         /\ Dist(t, s) = N - 1 <=> NextOf(s) = t
         /\ NextOf(s) # t => Dist(t, NextOf(s)) = Dist(t, s) + 1
         /\ s # t => Dist(NextOf(t), s) = Dist(t, s) - 1
         /\ Dist(NextOf(t), t) = N - 1
         /\ \A u \in Slot : Dist(t, s) = Dist(t, u) => s = u
BY RingAssumption DEF Slot, NextOf, Dist

(* No two of the sequences of stores are equal. *)
LEMMA StoresDiffer ==
  ASSUME NEW a, NEW b, a # b
  PROVE  /\ <<>> # <<a>> /\ <<>> # <<a, b>> /\ <<a>> # <<b>> /\ <<a>> # <<a, b>>
         /\ <<a>> # <<b, a>> /\ <<a, b>> # <<b, a>>
         /\ Len(<<a>>) = 1 /\ Len(<<a, b>>) = 2 /\ Len(<<>>) = 0
OBVIOUS

(* What each of the producer's stores leaves it to do. *)
LEMMA ProducerOrder ==
  ASSUME pstores \in ProducerStores, ppc = "stores" => pstores # <<>>
  PROVE  /\ StoreHead =>
              \/ /\ pstores = <<"qhead">> /\ pstores' = <<>>
                 /\ ppc' = "idle" /\ popen' = popen \cup {qhead}
              \/ /\ pstores = <<"qhead", "entryID">> /\ pstores' = <<"entryID">>
                 /\ UNCHANGED <<ppc, popen>>
         /\ StoreAllocated =>
              \/ /\ pstores = <<"entryID">> /\ pstores' = <<>>
                 /\ ppc' = "idle" /\ popen' = popen \cup {Before(qhead)}
                 /\ entryID' = [entryID EXCEPT ![Before(qhead)] = "allocated"]
              \/ /\ pstores = <<"entryID", "qhead">> /\ pstores' = <<"qhead">>
                 /\ UNCHANGED <<ppc, popen>>
                 /\ entryID' = [entryID EXCEPT ![qhead] = "allocated"]
<1> USE DEF ProducerStored, AllocatedSlot
<1>1. CASE pstores = <<>>
  BY <1>1 DEF StoreHead, StoreAllocated
<1>2. CASE pstores = <<"qhead">>
  BY <1>2 DEF StoreHead, StoreAllocated
<1>3. CASE pstores = <<"entryID">>
  BY <1>3 DEF StoreHead, StoreAllocated
<1>4. CASE pstores = <<"entryID", "qhead">>
  BY <1>4 DEF StoreHead, StoreAllocated
<1>5. CASE pstores = <<"qhead", "entryID">>
  BY <1>5 DEF StoreHead, StoreAllocated
<1> QED BY <1>1, <1>2, <1>3, <1>4, <1>5 DEF ProducerStores

(* What each of the consumer's stores leaves it to do. *)
LEMMA ConsumerOrder ==
  ASSUME cstores \in ConsumerStores, cpc = "stores" => cstores # <<>>
  PROVE  /\ StoreTail =>
              \/ cstores = <<"qtail">> /\ cstores' = <<>> /\ cpc' = "idle"
              \/ cstores = <<"qtail", "entryID">> /\ cstores' = <<"entryID">> /\ cpc' = "stores"
         /\ StoreZero =>
              \/ /\ cstores = <<"entryID">> /\ cstores' = <<>> /\ cpc' = "idle"
                 /\ entryID' = [entryID EXCEPT ![Before(qtail)] = "zero"]
              \/ /\ cstores = <<"entryID", "qtail">> /\ cstores' = <<"qtail">> /\ cpc' = "stores"
                 /\ entryID' = [entryID EXCEPT ![qtail] = "zero"]
<1> USE DEF ConsumerStored, FreedSlot
<1>1. CASE cstores = <<>>
  BY <1>1 DEF StoreTail, StoreZero
<1>2. CASE cstores = <<"qtail">>
  BY <1>2 DEF StoreTail, StoreZero
<1>3. CASE cstores = <<"entryID">>
  BY <1>3 DEF StoreTail, StoreZero
<1>4. CASE cstores = <<"entryID", "qtail">>
  BY <1>4 DEF StoreTail, StoreZero
<1>5. CASE cstores = <<"qtail", "entryID">>
  BY <1>5 DEF StoreTail, StoreZero
<1> QED BY <1>1, <1>2, <1>3, <1>4, <1>5 DEF ConsumerStores

(* The queue starts empty and quiet. *)
LEMMA InitHolds == Init => QueueInv
<1> SUFFICES ASSUME Init PROVE QueueInv OBVIOUS
<1>1. TypeOK
  BY RingAssumption DEF Init, TypeOK, Slot, Flags, ProducerPc, ConsumerPc, ProducerStores, ConsumerStores
<1>2. ProducerInv /\ EntryInv /\ ConsumerInv
  BY DEF Init, ProducerInv, EntryInv, ConsumerInv, InUse, Dist, Held, Leaving, Unmarked, Stale, HeadMarked
<1> QED BY <1>1, <1>2 DEF QueueInv

(* Every step keeps the types. *)
LEMMA TypeStep == QueueInv /\ [Next]_vars => TypeOK'
<1> SUFFICES ASSUME QueueInv, [Next]_vars PROVE TypeOK' OBVIOUS
<1> USE DEF QueueInv, TypeOK
<1>1. CASE UNCHANGED vars
  BY <1>1 DEF vars, producer, consumer
<1>2. ASSUME NEW kind \in {"try", "spin", "raw"}, Alloc(kind) PROVE TypeOK'
  BY <1>2 DEF Alloc, consumer, ProducerPc
<1>3. CASE TestFull
  BY <1>3 DEF TestFull, consumer, ProducerPc, ProducerStores
<1>4. CASE TestFlags
  BY <1>4 DEF TestFlags, consumer, ProducerPc, ProducerStores
<1>5. CASE AllocFails
  BY <1>5 DEF AllocFails, consumer, ProducerPc
<1>6. CASE StoreHead
  BY <1>6, ProducerOrder, Ring DEF StoreHead, ProducerStored, consumer, ProducerPc, ProducerStores, ProducerInv
<1>7. CASE StoreAllocated
  <2>1. UNCHANGED <<qhead, qtail, data, pkind, cpc, ckind, cstores, cid, cval, last>>
    BY <1>7 DEF StoreAllocated, ProducerStored, consumer
  <2>2. /\ pstores' \in ProducerStores /\ ppc' \in ProducerPc /\ popen' \in SUBSET Slot
        /\ entryID' \in [Slot -> Flags]
    BY <1>7, ProducerOrder, Ring DEF ProducerPc, ProducerStores, ProducerInv, Flags
  <2> QED BY <2>1, <2>2
<1>8. ASSUME NEW s \in Slot, Complete(s) PROVE TypeOK'
  BY <1>8 DEF Complete, consumer, Flags
<1>9. ASSUME NEW s \in Slot, NEW v \in Val, Fill(s, v) PROVE TypeOK'
  BY <1>9 DEF Fill, producer, consumer
<1>10. ASSUME NEW kind \in {"complete", "spin", "entry"}, GetNext(kind) PROVE TypeOK'
  BY <1>10 DEF GetNext, producer, ConsumerPc
<1>11. CASE GetSucceeds \/ GetFails \/ GetSpins \/ SpinHead \/ SpinID \/ PollComplete
  BY <1>11 DEF GetSucceeds, GetFails, GetSpins, SpinHead, SpinID, PollComplete,
               GetReturns, producer, ConsumerPc, Flags
<1>12. CASE Use
  BY <1>12 DEF Use, producer, ConsumerPc
<1>13. CASE FreeNext
  BY <1>13 DEF FreeNext, FreeOrders, producer, ConsumerPc, ConsumerStores
<1>14. CASE StoreTail
  BY <1>14, ConsumerOrder, Ring DEF StoreTail, ConsumerStored, producer, ConsumerPc, ConsumerStores, ConsumerInv
<1>15. CASE StoreZero
  BY <1>15, ConsumerOrder, Ring DEF StoreZero, ConsumerStored, producer, ConsumerPc, ConsumerStores, ConsumerInv, Flags
<1>16. CASE ResetAsync
  BY <1>16, RingAssumption DEF ResetAsync, producer, consumer, Slot
<1> QED
  BY <1>1, <1>2, <1>3, <1>4, <1>5, <1>6, <1>7, <1>8, <1>9, <1>10, <1>11,
     <1>12, <1>13, <1>14, <1>15, <1>16 DEF Next, Producing, Consuming

(* The entries in use after qhead has moved on. *)
LEMMA HeadMoves ==
  ASSUME qhead \in Slot, qtail \in Slot, NextOf(qhead) # qtail,
         qhead' = NextOf(qhead), qtail' = qtail, NEW s \in Slot
  PROVE  InUse(s)' <=> InUse(s) \/ s = qhead
<1>1. Dist(qtail, NextOf(qhead)) = Dist(qtail, qhead) + 1
  BY Distance
<1>2. Dist(qtail, s) \in Int /\ Dist(qtail, qhead) \in Int
  BY Distance
<1>3. Dist(qtail, s) = Dist(qtail, qhead) <=> s = qhead
  BY Distance
<1> QED BY <1>1, <1>2, <1>3 DEF InUse

(* The entries in use after qtail has moved on. *)
LEMMA TailMoves ==
  ASSUME qhead \in Slot, qtail \in Slot, qhead # qtail,
         qtail' = NextOf(qtail), qhead' = qhead, NEW s \in Slot
  PROVE  InUse(s)' <=> InUse(s) /\ s # qtail
<1>1. Dist(NextOf(qtail), qhead) = Dist(qtail, qhead) - 1
  BY Distance
<1>2. /\ Dist(qtail, s) \in 0..N-1 /\ Dist(qtail, qhead) \in 0..N-1 /\ Dist(qtail, qtail) = 0
      /\ Dist(qtail, qhead) # 0
  BY Distance
<1>3. CASE s = qtail
  BY <1>1, <1>2, <1>3, Distance, RingAssumption DEF InUse
<1>4. CASE s # qtail
  <2>1. Dist(NextOf(qtail), s) = Dist(qtail, s) - 1
    BY <1>4, Distance
  <2> QED BY <1>1, <1>2, <1>4, <2>1, RingAssumption DEF InUse
<1> QED BY <1>3, <1>4

(* The entry at qtail is in use when there is one; the one at qhead, and   *)
(* the one before qtail, never are; the one before qhead is when one is.   *)
LEMMA Ends ==
  ASSUME qhead \in Slot, qtail \in Slot
  PROVE  /\ InUse(qtail) <=> qhead # qtail
         /\ ~ InUse(qhead)
         /\ ~ InUse(Before(qtail))
         /\ InUse(Before(qhead)) <=> qhead # qtail
         /\ qhead = Before(qtail) <=> NextOf(qhead) = qtail
<1>1. InUse(qtail) <=> qhead # qtail
  BY RingAssumption DEF InUse, Dist, Slot
<1>2. ~ InUse(qhead)
  BY RingAssumption DEF InUse, Dist, Slot
<1>3. ~ InUse(Before(qtail))
  BY RingAssumption DEF InUse, Dist, Slot, Before
<1>4. InUse(Before(qhead)) <=> qhead # qtail
  BY RingAssumption DEF InUse, Dist, Slot, Before
<1>5. qhead = Before(qtail) <=> NextOf(qhead) = qtail
  BY Ring
<1> QED BY <1>1, <1>2, <1>3, <1>4, <1>5

(* The three parts of the invariant that are not types. *)
Rest == ProducerInv /\ EntryInv /\ ConsumerInv

(* Steps that store nothing the other thread reads. *)
LEMMA ProducerLocalSteps ==
  ASSUME QueueInv,
         \/ UNCHANGED vars
         \/ \E kind \in {"try", "spin", "raw"} : Alloc(kind)
         \/ TestFull \/ TestFlags \/ AllocFails
  PROVE  Rest'
<1> USE DEF QueueInv, TypeOK
<1>1. UNCHANGED <<qhead, qtail, entryID, data, popen, consumer>>
  BY DEF vars, producer, Alloc, TestFull, TestFlags, AllocFails
<1>2. UNCHANGED <<cpc, ckind, cstores, cid, cval, last>>
  BY <1>1 DEF consumer
<1>3. ConsumerInv'
  BY <1>1, <1>2 DEF ConsumerInv, Held, Leaving
<1>4. ProducerInv'
  <2>1. CASE UNCHANGED vars
    BY <1>1, <1>2, <2>1 DEF ProducerInv, vars, producer, InUse, Leaving
  <2>2. CASE \E kind \in {"try", "spin", "raw"} : Alloc(kind)
    BY <1>1, <1>2, <2>2 DEF ProducerInv, Alloc, InUse, Leaving
  <2>3. CASE TestFull
    BY <1>1, <1>2, <2>3, StoresDiffer, "qhead" # "entryID" DEF ProducerInv, TestFull, NotFull, InUse, Leaving
  <2>4. CASE TestFlags
    BY <1>1, <1>2, <2>4, StoresDiffer, "qhead" # "entryID" DEF ProducerInv, TestFlags, InUse, Leaving
  <2>5. CASE AllocFails
    BY <1>1, <1>2, <2>5 DEF ProducerInv, AllocFails, InUse, Leaving
  <2> QED BY <2>1, <2>2, <2>3, <2>4, <2>5
<1>5. EntryInv'
  <2>1. (pstores' = pstores /\ pkind' = pkind) \/ pstores = <<>>
    BY DEF vars, producer, Alloc, TestFull, TestFlags, AllocFails, ProducerInv
  <2>2. ASSUME NEW s \in Slot
        PROVE  /\ InUse(s)' <=> InUse(s)
               /\ Unmarked(s) => Unmarked(s)'
               /\ HeadMarked => HeadMarked'
               /\ Stale(s)' <=> Stale(s)
               /\ Leaving' <=> Leaving
    BY <1>1, <1>2, <2>1, StoresDiffer, "qhead" # "entryID" DEF InUse, Unmarked, HeadMarked, Stale, Leaving
  <2> QED BY <1>1, <2>2 DEF EntryInv
<1> QED BY <1>3, <1>4, <1>5 DEF Rest

(* qhead moves on: the entry is in use, marked before or not yet.          *)
LEMMA StoreHeadStep ==
  ASSUME QueueInv, StoreHead
  PROVE  Rest'
<1> USE DEF QueueInv, TypeOK
<1>1. /\ UNCHANGED <<qtail, entryID, data, pkind, cpc, ckind, cstores, cid, cval>>
      /\ qhead' = NextOf(qhead)
  BY DEF StoreHead, ProducerStored, consumer
<1>2. \/ pstores = <<"qhead">> /\ pstores' = <<>> /\ ppc' = "idle" /\ popen' = popen \cup {qhead}
      \/ /\ pstores = <<"qhead", "entryID">> /\ pstores' = <<"entryID">>
         /\ ppc' = "stores" /\ popen' = popen
  BY ProducerOrder DEF ProducerInv, StoreHead
<1>3. NextOf(qhead) # qtail
  BY <1>2, StoresDiffer, "qhead" # "entryID" DEF ProducerInv, StoreHead
<1>4. \A s \in Slot : InUse(s)' <=> InUse(s) \/ s = qhead
  BY <1>1, <1>3, HeadMoves
<1>5. qhead' \in Slot /\ Before(qhead') = qhead /\ qhead' # qhead
  BY <1>1, Ring
<1>6. /\ ~ InUse(qhead) /\ (InUse(qtail) <=> qhead # qtail) /\ qhead # Before(qtail)
  BY <1>3, Ends
<1>7. /\ HeadMarked \/ entryID[qhead] = "zero"
      /\ HeadMarked => entryID[qhead] \in {"zero", "allocated"}
  BY <1>6 DEF EntryInv, Stale
<1>8. entryID[qhead] # "complete"
  BY <1>7
<1>9. pstores = <<"qhead", "entryID">> => entryID[qhead] = "zero"
  BY <1>7, StoresDiffer, "qhead" # "entryID" DEF HeadMarked
<1>10. qhead' # qtail
  BY <1>1, <1>3
<1>11. ProducerInv'
  <2>1. CASE pstores = <<"qhead">> /\ pstores' = <<>> /\ ppc' = "idle" /\ popen' = popen \cup {qhead}
    <3>1. ASSUME NEW s \in popen'
          PROVE  InUse(s)' /\ entryID'[s] # "complete" /\ ~ (Leaving' /\ s = qtail')
      BY <1>1, <1>4, <1>6, <1>8, <2>1 DEF ProducerInv, ConsumerInv, Leaving
    <3> QED BY <1>1, <2>1, <3>1, StoresDiffer DEF ProducerInv
  <2>2. CASE /\ pstores = <<"qhead", "entryID">> /\ pstores' = <<"entryID">>
             /\ ppc' = "stores" /\ popen' = popen
    <3>1. ASSUME NEW s \in popen'
          PROVE  InUse(s)' /\ entryID'[s] # "complete" /\ ~ (Leaving' /\ s = qtail')
      BY <1>1, <1>4, <2>2 DEF ProducerInv, Leaving
    <3>2. qhead \notin popen
      BY <1>6 DEF ProducerInv
    <3>3. pkind # "raw"
      BY <2>2, StoresDiffer, "qhead" # "entryID" DEF ProducerInv
    <3>4. ~ (Leaving' /\ Before(qhead') = qtail')
      BY <1>1, <1>5 DEF ConsumerInv, Leaving
    <3> QED BY <1>1, <1>5, <1>9, <1>10, <2>2, <3>1, <3>2, <3>3, <3>4, StoresDiffer DEF ProducerInv
  <2> QED BY <1>2, <2>1, <2>2
<1>12. EntryInv'
  <2> SUFFICES ASSUME NEW s \in Slot
               PROVE  IF InUse(s)'
                        THEN \/ entryID'[s] = "complete" \/ s \in popen' \/ Unmarked(s)'
                             \/ Leaving' /\ s = qtail'
                        ELSE \/ entryID'[s] = "zero"
                             \/ HeadMarked' /\ s = qhead' /\ entryID'[s] = "allocated"
                             \/ Stale(s)'
    BY DEF EntryInv
  <2>1. CASE s = qhead
    BY <1>1, <1>2, <1>4, <1>5, <2>1 DEF Unmarked
  <2>2. CASE s # qhead /\ InUse(s)
    <3>1. ~ Unmarked(s)
      BY <1>2, StoresDiffer, "qhead" # "entryID" DEF Unmarked
    <3> QED BY <1>1, <1>2, <1>4, <2>2, <3>1 DEF EntryInv, Leaving
  <2>3. CASE s # qhead /\ ~ InUse(s)
    BY <1>1, <1>4, <2>3 DEF EntryInv, Stale
  <2> QED BY <2>1, <2>2, <2>3
<1>13. ConsumerInv'
  BY <1>1, <1>10 DEF ConsumerInv, Held, Leaving
<1> QED BY <1>11, <1>12, <1>13 DEF Rest

(* The header of the entry being allocated is marked. *)
LEMMA StoreAllocatedStep ==
  ASSUME QueueInv, StoreAllocated
  PROVE  Rest'
<1> USE DEF QueueInv, TypeOK
<1>1. UNCHANGED <<qhead, qtail, data, pkind, cpc, ckind, cstores, cid, cval>>
  BY DEF StoreAllocated, ProducerStored, consumer
<1>2. \A s \in Slot : InUse(s)' <=> InUse(s)
  BY <1>1 DEF InUse
<1>3. CASE /\ pstores = <<"entryID">> /\ pstores' = <<>>
           /\ ppc' = "idle" /\ popen' = popen \cup {Before(qhead)}
           /\ entryID' = [entryID EXCEPT ![Before(qhead)] = "allocated"]
  <2>1. /\ qhead # qtail /\ InUse(Before(qhead)) /\ Before(qhead) \in Slot
        /\ entryID[Before(qhead)] = "zero"
        /\ ~ (Leaving /\ Before(qhead) = qtail)
    BY <1>3, Ends, Ring DEF ProducerInv
  <2>2. ~ InUse(Before(qtail))
    BY Ends
  <2>3. ProducerInv'
    <3>1. ASSUME NEW s \in popen'
          PROVE  InUse(s)' /\ entryID'[s] # "complete" /\ ~ (Leaving' /\ s = qtail')
      BY <1>1, <1>2, <1>3, <2>1 DEF ProducerInv, Leaving
    <3> QED BY <1>1, <1>3, <3>1, StoresDiffer DEF ProducerInv
  <2>4. EntryInv'
    <3> SUFFICES ASSUME NEW s \in Slot
                 PROVE  IF InUse(s)'
                          THEN \/ entryID'[s] = "complete" \/ s \in popen' \/ Unmarked(s)'
                               \/ Leaving' /\ s = qtail'
                          ELSE \/ entryID'[s] = "zero"
                               \/ HeadMarked' /\ s = qhead' /\ entryID'[s] = "allocated"
                               \/ Stale(s)'
      BY DEF EntryInv
    <3>1. CASE s = Before(qhead)
      BY <1>2, <1>3, <2>1, <3>1
    <3>2. CASE s # Before(qhead)
      <4>1. ~ Unmarked(s) /\ ~ HeadMarked /\ entryID'[s] = entryID[s]
        BY <1>3, <3>2, StoresDiffer, "qhead" # "entryID" DEF Unmarked, HeadMarked
      <4> QED BY <1>1, <1>2, <1>3, <4>1 DEF EntryInv, Leaving, Stale
    <3> QED BY <3>1, <3>2
  <2>5. ConsumerInv'
    BY <1>1, <1>3, <2>1, <2>2 DEF ConsumerInv, Held, Leaving
  <2> QED BY <2>3, <2>4, <2>5 DEF Rest
<1>4. CASE /\ pstores = <<"entryID", "qhead">> /\ pstores' = <<"qhead">>
           /\ UNCHANGED <<ppc, popen>>
           /\ entryID' = [entryID EXCEPT ![qhead] = "allocated"]
  <2>1. /\ NextOf(qhead) # qtail /\ pkind # "raw"
        /\ ppc = "stores"
    BY <1>4, StoresDiffer, "qhead" # "entryID" DEF ProducerInv, StoreAllocated
  <2>2. ~ InUse(qhead) /\ (InUse(qtail) <=> qhead # qtail) /\ qhead # Before(qtail)
    BY <2>1, Ends
  <2>3. ~ HeadMarked /\ HeadMarked' /\ entryID[qhead] = "zero"
    <3>1. ~ HeadMarked /\ HeadMarked'
      BY <1>1, <1>4, <2>1, StoresDiffer, "qhead" # "entryID" DEF HeadMarked
    <3> QED BY <2>2, <3>1 DEF EntryInv, Stale
  <2>4. ProducerInv'
    <3>1. ASSUME NEW s \in popen'
          PROVE  InUse(s)' /\ entryID'[s] # "complete" /\ ~ (Leaving' /\ s = qtail')
      BY <1>1, <1>2, <1>4, <2>2 DEF ProducerInv, Leaving
    <3> QED BY <1>1, <1>4, <2>1, <3>1, StoresDiffer, "qhead" # "entryID" DEF ProducerInv
  <2>5. EntryInv'
    <3>1. ASSUME NEW s \in Slot
          PROVE  ~ Unmarked(s) /\ (Leaving' <=> Leaving) /\ (Stale(s)' <=> Stale(s))
      BY <1>1, <1>4, StoresDiffer, "qhead" # "entryID" DEF Unmarked, Leaving, Stale
    <3> QED BY <1>1, <1>2, <1>4, <2>2, <2>3, <3>1 DEF EntryInv
  <2>6. ConsumerInv'
    <3>1. qhead = qtail => ~ Held /\ ~ Leaving /\ cpc # "poll"
      BY DEF ConsumerInv
    <3>2. cpc = "head" /\ cid = "complete" => qhead # qtail
      BY <2>3 DEF ConsumerInv
    <3> QED BY <1>1, <1>4, <3>1, <3>2 DEF ConsumerInv, Held, Leaving
  <2> QED BY <2>4, <2>5, <2>6 DEF Rest
<1> QED BY <1>3, <1>4, ProducerOrder DEF ProducerInv

(* An entry is completed: the producer gives up its handle. *)
LEMMA CompleteStep ==
  ASSUME QueueInv, NEW c \in Slot, Complete(c)
  PROVE  Rest'
<1> USE DEF QueueInv, TypeOK
<1>1. /\ UNCHANGED <<qhead, qtail, data, ppc, pkind, pstores, cpc, ckind, cstores, cid, cval>>
      /\ ppc = "idle" /\ pstores = <<>>
      /\ entryID' = [entryID EXCEPT ![c] = "complete"]
      /\ popen' = popen \ {c}
  BY DEF Complete, consumer, ProducerInv
<1>2. InUse(c) /\ ~ (Leaving /\ c = qtail)
  BY DEF Complete, ProducerInv
<1>3. \A s \in Slot : InUse(s)' <=> InUse(s)
  BY <1>1 DEF InUse
<1>4. ProducerInv'
  BY <1>1, <1>3, StoresDiffer DEF ProducerInv, Leaving
<1>5. EntryInv'
  BY <1>1, <1>2, <1>3 DEF EntryInv, Unmarked, Leaving, HeadMarked, Stale
<1>6. ConsumerInv'
  BY <1>1, <1>2 DEF ConsumerInv, Held, Leaving
<1> QED BY <1>4, <1>5, <1>6 DEF Rest

(* An entry the producer has a handle of is written. *)
LEMMA FillStep ==
  ASSUME QueueInv, NEW f \in Slot, NEW v \in Val, Fill(f, v)
  PROVE  Rest'
<1> USE DEF QueueInv, TypeOK
<1>1. /\ UNCHANGED <<qhead, qtail, entryID, ppc, pkind, pstores, popen, cpc, ckind, cstores, cid, cval>>
      /\ data' = [data EXCEPT ![f] = v]
  BY DEF Fill, producer, consumer
<1>2. entryID[f] # "complete" /\ ~ (Leaving /\ f = qtail)
  BY DEF Fill, ProducerInv
<1>3. ProducerInv' /\ EntryInv'
  BY <1>1 DEF ProducerInv, EntryInv, InUse, Unmarked, Leaving, HeadMarked, Stale
<1>4. cpc = "free" \/ Len(cstores) = 2 \/ Leaving => f # qtail
  BY <1>2 DEF ConsumerInv, Held
<1>5. ConsumerInv'
  BY <1>1, <1>4 DEF ConsumerInv, Held, Leaving
<1> QED BY <1>3, <1>5 DEF Rest

(* Steps of the consumer that store nothing the producer reads. *)
LEMMA ConsumerLocalSteps ==
  ASSUME QueueInv,
         \/ \E kind \in {"complete", "spin", "entry"} : GetNext(kind)
         \/ GetSucceeds \/ GetFails \/ GetSpins \/ SpinHead \/ SpinID \/ PollComplete
         \/ Use \/ FreeNext
  PROVE  Rest'
<1> USE DEF QueueInv, TypeOK
<1>1. UNCHANGED <<qhead, qtail, entryID, data, ppc, pkind, pstores, popen>>
  BY DEF producer, GetNext, GetSucceeds, GetFails, GetSpins, SpinHead, SpinID, PollComplete,
         GetReturns, Use, FreeNext
<1>2. cstores = <<>> /\ (cstores' = <<>> \/ (cstores' \in FreeOrders /\ FreeNext))
  BY DEF GetNext, GetSucceeds, GetFails, GetSpins, SpinHead, SpinID, PollComplete,
         GetReturns, Use, FreeNext, ConsumerInv
<1>3. /\ ~ Leaving /\ ~ Leaving' /\ cstores # <<"entryID">> /\ cstores' # <<"entryID">>
      /\ Len(cstores) = 0
  BY <1>2, StoresDiffer, "qtail" # "entryID" DEF FreeOrders, Leaving
<1>4. ProducerInv' /\ EntryInv'
  BY <1>1, <1>3 DEF ProducerInv, EntryInv, InUse, Unmarked, HeadMarked, Stale
<1>5. ConsumerInv'
  <2>1. CASE \E kind \in {"complete", "spin", "entry"} : GetNext(kind)
    BY <1>1, <1>2, <1>3, <2>1 DEF GetNext, ConsumerInv, Held, Leaving
  <2>2. CASE GetSucceeds
    <3>1. qhead # qtail /\ (cid = "complete" \/ cpc' = "poll")
      BY <2>2 DEF GetSucceeds, NotEmpty, Usable, GetReturns
    <3> QED BY <1>1, <1>2, <1>3, <2>2, <3>1 DEF GetSucceeds, GetReturns, ConsumerInv, Held
  <2>3. CASE GetFails \/ GetSpins
    BY <1>1, <1>2, <1>3, <2>3 DEF GetFails, GetSpins, GetReturns, ConsumerInv, Held
  <2>4. CASE SpinHead \/ SpinID \/ PollComplete
    BY <1>1, <1>2, <1>3, <2>4 DEF SpinHead, SpinID, PollComplete, GetReturns, NotEmpty, ConsumerInv, Held
  <2>5. CASE Use
    BY <1>1, <1>2, <1>3, <2>5 DEF Use, ConsumerInv, Held
  <2>6. CASE FreeNext
    <3>1. cstores' # <<>> /\ Len(cstores') = 2
      BY <2>6, StoresDiffer, "qtail" # "entryID" DEF FreeNext, FreeOrders
    <3> QED BY <1>1, <1>2, <1>3, <2>6, <3>1 DEF FreeNext, ConsumerInv, Held
  <2> QED BY <2>1, <2>2, <2>3, <2>4, <2>5, <2>6
<1> QED BY <1>4, <1>5 DEF Rest

(* qtail moves on: the entry is no longer in use, cleared before or not yet. *)
LEMMA StoreTailStep ==
  ASSUME QueueInv, StoreTail
  PROVE  Rest'
<1> USE DEF QueueInv, TypeOK
<1>1. /\ UNCHANGED <<qhead, entryID, data, ppc, pkind, pstores, popen, ckind, cid, cval>>
      /\ qtail' = NextOf(qtail)
  BY DEF StoreTail, ConsumerStored, producer
<1>2. \/ Leaving /\ cstores' = <<>> /\ cpc' = "idle"
      \/ cstores = <<"qtail", "entryID">> /\ cstores' = <<"entryID">> /\ cpc' = "stores"
  BY ConsumerOrder DEF ConsumerInv, StoreTail, Leaving
<1>3. /\ cstores # <<"entryID">> /\ ~ Leaving' /\ Len(cstores') # 2
      /\ Leaving \/ Held
      /\ Leaving => cstores # <<>>
  <2>1. CASE Leaving /\ cstores' = <<>>
    BY <2>1, StoresDiffer, "qtail" # "entryID" DEF Leaving
  <2>2. CASE cstores = <<"qtail", "entryID">> /\ cstores' = <<"entryID">>
    <3>1. Len(cstores) = 2 /\ Len(cstores') = 1
      BY <2>2
    <3> QED BY <2>2, <3>1, StoresDiffer, "qtail" # "entryID" DEF Leaving, Held
  <2> QED BY <1>2, <2>1, <2>2
<1>4. qhead # qtail
  BY <1>3 DEF ConsumerInv
<1>5. \A s \in Slot : InUse(s)' <=> InUse(s) /\ s # qtail
  BY <1>1, <1>4, TailMoves
<1>6. qtail' \in Slot /\ Before(qtail') = qtail
  BY <1>1, Ring
<1>7. qtail \notin popen /\ ~ (pstores = <<"entryID">> /\ Before(qhead) = qtail)
  BY <1>3 DEF ProducerInv, ConsumerInv
<1>8. NextOf(qhead) # qtail'
  BY <1>1, <1>4, Ring
<1>9. pstores = <<"entryID">> => qhead # qtail'
  BY <1>1, <1>7, Ring
<1>10. ProducerInv'
  <2>1. ASSUME NEW s \in popen'
        PROVE  InUse(s)' /\ entryID'[s] # "complete" /\ ~ (Leaving' /\ s = qtail')
    BY <1>1, <1>3, <1>5, <1>7 DEF ProducerInv
  <2> QED BY <1>1, <1>3, <1>8, <1>9, <2>1 DEF ProducerInv
<1>11. EntryInv'
  <2> SUFFICES ASSUME NEW s \in Slot
               PROVE  IF InUse(s)'
                        THEN \/ entryID'[s] = "complete" \/ s \in popen' \/ Unmarked(s)'
                             \/ Leaving' /\ s = qtail'
                        ELSE \/ entryID'[s] = "zero"
                             \/ HeadMarked' /\ s = qhead' /\ entryID'[s] = "allocated"
                             \/ Stale(s)'
    BY DEF EntryInv
  <2>1. CASE s = qtail /\ Leaving
    BY <1>1, <1>5, <2>1 DEF ConsumerInv
  <2>2. CASE s = qtail /\ ~ Leaving
    BY <1>2, <1>5, <1>6, <2>2 DEF Stale
  <2>3. CASE s # qtail
    BY <1>1, <1>3, <1>5, <2>3 DEF EntryInv, Unmarked, HeadMarked, Stale
  <2> QED BY <2>1, <2>2, <2>3
<1>12. ConsumerInv'
  BY <1>1, <1>2, <1>3, StoresDiffer DEF ConsumerInv, Held
<1> QED BY <1>10, <1>11, <1>12 DEF Rest

(* The header of the entry being freed is cleared. *)
LEMMA StoreZeroStep ==
  ASSUME QueueInv, StoreZero
  PROVE  Rest'
<1> USE DEF QueueInv, TypeOK
<1>1. UNCHANGED <<qhead, qtail, data, ppc, pkind, pstores, popen, ckind, cid, cval>>
  BY DEF StoreZero, ConsumerStored, producer
<1>2. \A s \in Slot : InUse(s)' <=> InUse(s)
  BY <1>1 DEF InUse
<1>3. CASE /\ cstores = <<"entryID">> /\ cstores' = <<>> /\ cpc' = "idle"
           /\ entryID' = [entryID EXCEPT ![Before(qtail)] = "zero"]
  <2>1. ~ InUse(Before(qtail)) /\ Before(qtail) \in Slot
    BY Ends, Ring
  <2>2. ~ Leaving /\ ~ Leaving' /\ Len(cstores') = 0
    BY <1>3, StoresDiffer, "qtail" # "entryID" DEF Leaving
  <2>3. pstores = <<"entryID">> => InUse(Before(qhead)) /\ Before(qhead) \in Slot
    BY Ends, Ring DEF ProducerInv
  <2>4. ProducerInv'
    BY <1>1, <1>2, <1>3, <2>1, <2>2, <2>3 DEF ProducerInv
  <2>5. EntryInv'
    BY <1>1, <1>2, <1>3, <2>1, <2>2 DEF EntryInv, Unmarked, HeadMarked, Stale
  <2>6. ConsumerInv'
    BY <1>1, <1>3, <2>2 DEF ConsumerInv, Held
  <2> QED BY <2>4, <2>5, <2>6 DEF Rest
<1>4. CASE /\ cstores = <<"entryID", "qtail">> /\ cstores' = <<"qtail">> /\ cpc' = "stores"
           /\ entryID' = [entryID EXCEPT ![qtail] = "zero"]
  <2>1. /\ Held /\ ~ Leaving /\ Leaving' /\ Len(cstores) = 2 /\ Len(cstores') = 1
        /\ cstores # <<"entryID">> /\ cstores' # <<>>
    BY <1>4, StoresDiffer, "qtail" # "entryID" DEF Leaving, Held
  <2>2. qhead # qtail /\ entryID[qtail] = "complete" /\ cval = data[qtail] /\ InUse(qtail)
    BY <2>1, Ends DEF ConsumerInv
  <2>3. ProducerInv'
    BY <1>1, <1>2, <1>4, <2>1, <2>2 DEF ProducerInv
  <2>4. EntryInv'
    BY <1>1, <1>2, <1>4, <2>1, <2>2 DEF EntryInv, Unmarked, HeadMarked, Stale
  <2>5. ConsumerInv'
    BY <1>1, <1>4, <2>1, <2>2 DEF ConsumerInv, Held
  <2> QED BY <2>3, <2>4, <2>5 DEF Rest
<1> QED BY <1>3, <1>4, ConsumerOrder DEF ConsumerInv

(* A drained queue starts again at the first entry. *)
LEMMA ResetStep ==
  ASSUME QueueInv, ResetAsync
  PROVE  Rest'
<1> USE DEF QueueInv, TypeOK
<1>1. /\ UNCHANGED <<entryID, data, ppc, pkind, pstores, popen, cpc, ckind, cstores, cid, cval>>
      /\ qhead = qtail /\ qhead' = 0 /\ qtail' = 0
      /\ pstores = <<>> /\ cstores = <<>> /\ ppc = "idle" /\ cpc = "idle" /\ popen = {}
  BY DEF ResetAsync, producer, consumer, ProducerInv, ConsumerInv
<1>2. /\ \A s \in Slot : ~ InUse(s) /\ ~ InUse(s)'
      /\ <<>> # <<"qhead">> /\ <<>> # <<"entryID">> /\ <<>> # <<"qtail">>
  BY <1>1, StoresDiffer, RingAssumption DEF InUse, Dist, Slot
<1>3. ProducerInv' /\ EntryInv'
  BY <1>1, <1>2 DEF ProducerInv, EntryInv, Unmarked, HeadMarked, Stale, Leaving
<1>4. ConsumerInv'
  BY <1>1, <1>2 DEF ConsumerInv, Held, Leaving
<1> QED BY <1>3, <1>4 DEF Rest

(* QueueInv is inductive. *)
LEMMA NextKeepsQueueInv == QueueInv /\ [Next]_vars => QueueInv'
<1> SUFFICES ASSUME QueueInv, [Next]_vars PROVE QueueInv' OBVIOUS
<1>1. TypeOK'
  BY TypeStep
<1>2. Rest'
  BY ProducerLocalSteps, StoreHeadStep, StoreAllocatedStep, CompleteStep, FillStep,
     ConsumerLocalSteps, StoreTailStep, StoreZeroStep, ResetStep
     DEF Next, Producing, Consuming
<1> QED BY <1>1, <1>2 DEF QueueInv, Rest

-----------------------------------------------------------------------------
(* QueueInvariance: in every reachable state the entries in use are the    *)
(* ones the flags say, and the consumer holds a completed one.             *)
THEOREM QueueInvariance == Spec => []QueueInv
BY InitHolds, NextKeepsQueueInv, PTL DEF Spec

(* QueueTypeCorrect: offsets stay in the ring, headers keep their flags.   *)
THEOREM QueueTypeCorrect == Spec => []TypeOK
<1>1. QueueInv => TypeOK
  BY DEF QueueInv
<1> QED BY <1>1, QueueInvariance, PTL

(* RoomMeansClean: an allocate that finds room finds a clear header, for   *)
(* every ring of two entries or more.                                      *)
THEOREM RoomMeansClean == Spec => []HeadIsClean
<1>1. QueueInv => HeadIsClean
  <2> SUFFICES ASSUME QueueInv, NextOf(qhead) # qtail, ~ HeadMarked PROVE entryID[qhead] = "zero"
    BY DEF HeadIsClean
  <2> USE DEF QueueInv, TypeOK
  <2>1. ~ InUse(qhead) /\ qhead # Before(qtail)
    BY Ends
  <2> QED BY <2>1 DEF EntryInv, Stale
<1> QED BY <1>1, QueueInvariance, PTL

(* ConsumerUndisturbed: what the consumer reads in its entry is not        *)
(* written while it reads.                                                 *)
THEOREM ConsumerUndisturbed == Spec => PayloadStable
<1>1. QueueInv /\ [Next]_vars => [Holding /\ Holding' => data'[qtail] = data[qtail]]_vars
  <2> SUFFICES ASSUME QueueInv, Next, Holding, Holding' PROVE data'[qtail] = data[qtail]
    OBVIOUS
  <2> USE DEF QueueInv, TypeOK
  <2>1. ASSUME NEW s \in Slot, NEW v \in Val, Fill(s, v) PROVE data'[qtail] = data[qtail]
    BY <2>1 DEF Fill, ProducerInv, ConsumerInv, Holding, Held
  <2>2. data' = data \/ \E s \in Slot, v \in Val : Fill(s, v)
    BY DEF Next, Producing, Consuming, Alloc, TestFull, TestFlags, AllocFails, StoreHead,
           StoreAllocated, ProducerStored, Complete, GetNext,
           GetSucceeds, GetFails, GetSpins, SpinHead, SpinID, PollComplete, GetReturns, Use,
           FreeNext, StoreTail, StoreZero, ConsumerStored, ResetAsync
  <2> QED BY <2>1, <2>2
<1> QED BY <1>1, QueueInvariance, PTL DEF Spec, PayloadStable

-----------------------------------------------------------------------------
(* The refinement. *)
Entry == Val \cup {NoVal}
fifo == [i \in 1..Used |-> Content(i)]

(* How long the queue is: the position after its last one is at qhead. *)
LEMMA Length ==
  ASSUME qhead \in Slot, qtail \in Slot
  PROVE  Used \in 0..N-1 /\ SlotAt(Used + 1) = qhead
BY RingAssumption DEF Used, SlotAt, Dist, Slot

(* A position of the queue is an entry in use, the first the one at qtail. *)
LEMMA Position ==
  ASSUME qhead \in Slot, qtail \in Slot, NEW i \in 1..Used
  PROVE  /\ SlotAt(i) \in Slot /\ InUse(SlotAt(i))
         /\ SlotAt(i) = qtail <=> i = 1
         /\ SlotAt(i) # Before(qtail)
BY RingAssumption DEF Used, SlotAt, InUse, Dist, Slot, Before

(* No two positions are the same entry. *)
LEMMA PositionUnique ==
  ASSUME qhead \in Slot, qtail \in Slot, NEW i \in 1..Used, NEW j \in 1..Used, i # j
  PROVE  SlotAt(i) # SlotAt(j)
BY RingAssumption DEF Used, SlotAt, Dist, Slot

(* Every entry in use has a position. *)
LEMMA PositionOf ==
  ASSUME qhead \in Slot, qtail \in Slot, NEW s \in Slot, InUse(s)
  PROVE  \E i \in 1..Used : SlotAt(i) = s
<1>1. Dist(qtail, s) + 1 \in 1..Used /\ SlotAt(Dist(qtail, s) + 1) = s
  BY RingAssumption DEF Used, SlotAt, InUse, Dist, Slot
<1> QED BY <1>1

(* The queue is a sequence of values and of unpublished entries. *)
LEMMA FifoType == QueueInv => fifo \in [1..Used -> Entry]
<1> SUFFICES ASSUME QueueInv, NEW i \in 1..Used PROVE Content(i) \in Entry
  BY DEF fifo
<1>1. qhead \in Slot /\ qtail \in Slot /\ data \in [Slot -> Val]
  BY DEF QueueInv, TypeOK
<1>2. SlotAt(i) \in Slot
  BY <1>1, Position
<1> QED BY <1>1, <1>2 DEF Content, Entry

(* A step that moves neither end and changes no content is a stutter. *)
LEMMA Stutters ==
  ASSUME qhead' = qhead, qtail' = qtail, last' = last,
         \A i \in 1..Used : Content(i)' = Content(i)
  PROVE  fifo' = fifo /\ last' = last
<1>1. Used' = Used
  BY DEF Used
<1> QED BY <1>1 DEF fifo

FifoStep == [Fifo!Next]_<<fifo, last>>

(* The store of qhead reserves an entry. *)
LEMMA ReserveStep ==
  ASSUME QueueInv, TypeOK', StoreHead
  PROVE  FifoStep
<1> USE DEF QueueInv, TypeOK
<1>1. /\ UNCHANGED <<qtail, entryID, data, cstores, last>>
      /\ qhead' = NextOf(qhead)
  BY DEF StoreHead, ProducerStored, consumer
<1>2. NextOf(qhead) # qtail
  <2>1. pstores # <<"entryID">> /\ ppc = "stores"
    BY DEF StoreHead
  <2> QED BY <2>1 DEF ProducerInv
<1>3. Used' = Used + 1 /\ Used \in Nat /\ Used + 1 <= N - 1
  <2>1. Dist(qtail, NextOf(qhead)) = Dist(qtail, qhead) + 1
    BY <1>2, Distance
  <2>2. Used' = Used + 1
    BY <1>1, <2>1 DEF Used
  <2>3. Used \in 0..N-1 /\ Used' \in 0..N-1
    BY Distance DEF Used
  <2> QED BY <2>2, <2>3, RingAssumption
<1>4. \A i \in 1..Used : Content(i)' = Content(i)
  BY <1>1 DEF Content, SlotAt, Leaving
<1>5. Content(Used)' = NoVal
  <2>1. SlotAt(Used)' = qhead
    <3>1. SlotAt(Used + 1) = qhead
      BY Length
    <3> QED BY <1>1, <1>3, <3>1 DEF SlotAt
  <2>2. entryID[qhead] # "complete"
    BY <1>2, Ends DEF EntryInv, Stale
  <2>3. ~ (Used' = 1 /\ Leaving')
    <3>1. Leaving' => qhead # qtail
      BY <1>1 DEF ConsumerInv, Leaving
    <3> QED BY <1>3, <3>1, Distance DEF Used
  <2> QED BY <1>1, <2>1, <2>2, <2>3 DEF Content, Leaving
<1>6. \A i \in 1..Used : Content(i) \in Entry /\ fifo[i] = Content(i)
  BY FifoType DEF fifo
<1>7. /\ \A i \in 1..Used : fifo'[i] = fifo[i]
      /\ fifo'[Used + 1] = NoVal
      /\ fifo' \in [1..Used+1 -> Entry]
  <2>1. fifo' = [i \in 1..Used+1 |-> Content(i)']
    BY <1>3 DEF fifo
  <2>2. ASSUME NEW i \in 1..Used+1 PROVE Content(i)' \in Entry
    <3>1. CASE i \in 1..Used
      BY <1>4, <1>6, <3>1
    <3>2. CASE i = Used'
      BY <1>5, <3>2 DEF Entry
    <3> QED BY <1>3, <3>1, <3>2
  <2>3. Content(Used)' = fifo'[Used']
    BY <1>3, <2>1
  <2>4. 1..Used \subseteq 1..Used+1 /\ Used + 1 \in 1..Used+1
    BY <1>3
  <2> QED BY <1>3, <1>4, <1>5, <1>6, <2>1, <2>2, <2>3, <2>4
<1>8. fifo' = Append(fifo, NoVal) /\ Len(fifo) = Used
  BY <1>3, <1>7, FifoType, AppendGives DEF Entry
<1>9. Fifo!Reserve
  <2>1. Len(fifo) < N - 1 /\ last' = last
    BY <1>1, <1>3, <1>8, RingAssumption
  <2> QED BY <1>8, <2>1 DEF Fifo!Reserve, fifo
<1> QED BY <1>9 DEF FifoStep, Fifo!Next

(* The store of the valid flag publishes it. *)
LEMMA PublishStep ==
  ASSUME QueueInv, NEW c \in Slot, Complete(c)
  PROVE  FifoStep
<1> USE DEF QueueInv, TypeOK
<1>1. /\ UNCHANGED <<qhead, qtail, data, cstores, last>>
      /\ entryID' = [entryID EXCEPT ![c] = "complete"]
  BY DEF Complete, consumer
<1>2. InUse(c) /\ entryID[c] # "complete" /\ ~ (Leaving /\ c = qtail)
  BY DEF Complete, ProducerInv
<1>3. PICK k \in 1..Used : SlotAt(k) = c
  BY <1>2, PositionOf
<1>4. Used' = Used /\ Used \in Nat /\ \A i \in 1..Used : SlotAt(i)' = SlotAt(i)
  BY <1>1, Length DEF Used, SlotAt
<1>5. Content(k) = NoVal /\ Content(k)' = data[c]
  <2>1. ~ (k = 1 /\ Leaving)
    BY <1>2, <1>3, Position
  <2>2. SlotAt(k)' = c
    BY <1>3, <1>4
  <2> QED BY <1>1, <1>2, <1>3, <2>1, <2>2 DEF Content
<1>6. ASSUME NEW i \in 1..Used, i # k PROVE Content(i)' = Content(i)
  <2>1. SlotAt(i) # c /\ SlotAt(i) \in Slot /\ SlotAt(i)' = SlotAt(i)
    BY <1>3, <1>4, <1>6, PositionUnique, Position
  <2> QED BY <1>1, <2>1 DEF Content, Leaving
<1>7. fifo' = [fifo EXCEPT ![k] = data[c]] /\ fifo[k] = NoVal
  BY <1>4, <1>5, <1>6 DEF fifo
<1>8. Len(fifo) = Used /\ data[c] \in Val
  BY <1>4 DEF fifo
<1>9. Fifo!Publish(k, data[c])
  BY <1>1, <1>7 DEF Fifo!Publish, fifo
<1>10. k \in 1..Len(fifo)
  BY <1>8
<1> QED BY <1>8, <1>9, <1>10 DEF FifoStep, Fifo!Next, fifo

(* The store of qtail takes the oldest entry. *)
LEMMA TakeStep ==
  ASSUME QueueInv, StoreTail
  PROVE  FifoStep
<1> USE DEF QueueInv, TypeOK
<1>1. /\ UNCHANGED <<qhead, entryID, data>>
      /\ qtail' = NextOf(qtail) /\ last' = cval
  BY DEF StoreTail, ConsumerStored, producer
<1>2. (Leaving \/ Held) /\ ~ Leaving'
  <2>1. \/ Leaving /\ cstores' = <<>>
        \/ cstores = <<"qtail", "entryID">> /\ cstores' = <<"entryID">>
    BY ConsumerOrder DEF ConsumerInv, Leaving
  <2>2. CASE cstores = <<"qtail", "entryID">> /\ cstores' = <<"entryID">>
    BY <2>2, StoresDiffer, "qtail" # "entryID" DEF Leaving, Held
  <2>3. CASE Leaving /\ cstores' = <<>>
    BY <2>3, StoresDiffer DEF Leaving
  <2> QED BY <2>1, <2>2, <2>3
<1>3. /\ qhead # qtail /\ cval = data[qtail]
      /\ Leaving \/ entryID[qtail] = "complete"
  <2>1. Leaving \/ Len(cstores) = 2
    BY <1>2, ConsumerOrder DEF ConsumerInv, Leaving
  <2> QED BY <2>1 DEF ConsumerInv, Held
<1>4. Used' = Used - 1 /\ Used \in Nat /\ Used > 0
  <2>1. Dist(NextOf(qtail), qhead) = Dist(qtail, qhead) - 1
    BY <1>3, Distance
  <2> QED BY <1>1, <1>3, <2>1, Distance, RingAssumption DEF Used
<1>5. \A i \in 1..Used-1 : SlotAt(i)' = SlotAt(i+1)
  <2> SUFFICES ASSUME NEW i \in 1..Used-1 PROVE SlotAt(i)' = SlotAt(i+1)
    OBVIOUS
  <2>1. Used <= N - 1
    BY Length, RingAssumption
  <2> QED BY <1>1, <1>4, <2>1, RingAssumption DEF SlotAt, NextOf, Slot
<1>6. \A i \in 1..Used-1 : Content(i)' = Content(i+1)
  BY <1>1, <1>2, <1>4, <1>5 DEF Content
<1>7. Content(1) = cval
  <2>1. SlotAt(1) = qtail
    BY RingAssumption DEF SlotAt, Slot
  <2> QED BY <1>3, <2>1 DEF Content
<1>8. fifo \in [1..Used -> Entry] /\ \A i \in 1..Used : fifo[i] = Content(i)
  BY FifoType DEF fifo
<1>9. /\ \A i \in 1..Used-1 : fifo'[i] = fifo[i+1]
      /\ fifo[1] = cval
      /\ fifo' \in [1..Used-1 -> Entry]
  <2>1. fifo' = [i \in 1..Used-1 |-> Content(i)']
    BY <1>4 DEF fifo
  <2>2. \A i \in 1..Used-1 : i + 1 \in 1..Used
    BY <1>4
  <2>3. \A i \in 1..Used-1 : Content(i)' = fifo[i+1] /\ fifo[i+1] \in Entry
    BY <1>6, <1>8, <2>2
  <2>4. fifo[1] = cval
    BY <1>4, <1>7, <1>8
  <2> QED BY <2>1, <2>3, <2>4
<1>10. fifo # <<>> /\ Head(fifo) = cval /\ fifo' = Tail(fifo)
  BY <1>4, <1>8, <1>9, TailGives
<1> QED BY <1>1, <1>10 DEF FifoStep, Fifo!Next, Fifo!Take, fifo

(* Clearing a header changes nothing of the queue. *)
LEMMA ClearStep ==
  ASSUME QueueInv, StoreZero
  PROVE  FifoStep
<1> USE DEF QueueInv, TypeOK
<1>1. UNCHANGED <<qhead, qtail, data, last>>
  BY DEF StoreZero, ConsumerStored, producer
<1>2. \A i \in 1..Used : SlotAt(i)' = SlotAt(i)
  BY <1>1 DEF SlotAt
<1>3. CASE /\ cstores = <<"entryID">> /\ cstores' = <<>>
           /\ entryID' = [entryID EXCEPT ![Before(qtail)] = "zero"]
  <2>1. ~ Leaving /\ ~ Leaving'
    BY <1>3 DEF Leaving
  <2>2. \A i \in 1..Used : SlotAt(i) \in Slot /\ SlotAt(i) # Before(qtail)
    BY Position
  <2>3. \A i \in 1..Used : Content(i)' = Content(i)
    BY <1>1, <1>2, <1>3, <2>1, <2>2 DEF Content
  <2> QED BY <1>1, <2>3, Stutters DEF FifoStep
<1>4. CASE /\ cstores = <<"entryID", "qtail">> /\ cstores' = <<"qtail">>
           /\ entryID' = [entryID EXCEPT ![qtail] = "zero"]
  <2>1. ~ Leaving /\ Leaving' /\ Held
    BY <1>4 DEF Leaving, Held
  <2>2. entryID[qtail] = "complete"
    BY <2>1 DEF ConsumerInv
  <2>3. \A i \in 1..Used : SlotAt(i) \in Slot /\ (SlotAt(i) = qtail <=> i = 1)
    BY Position
  <2>4. \A i \in 1..Used : Content(i)' = Content(i)
    BY <1>1, <1>2, <1>4, <2>1, <2>2, <2>3 DEF Content
  <2> QED BY <1>1, <2>4, Stutters DEF FifoStep
<1> QED BY <1>3, <1>4, ConsumerOrder DEF ConsumerInv

(* Marking a header allocated changes nothing of the queue. *)
LEMMA MarkStep ==
  ASSUME QueueInv, StoreAllocated
  PROVE  FifoStep
<1> USE DEF QueueInv, TypeOK
<1>1. UNCHANGED <<qhead, qtail, data, cstores, last>>
  BY DEF StoreAllocated, ProducerStored, consumer
<1>2. PICK c \in Slot : /\ entryID' = [entryID EXCEPT ![c] = "allocated"]
                        /\ entryID[c] # "complete" /\ ~ (Leaving /\ c = qtail)
  <2>1. CASE pstores = <<"entryID">> /\ entryID' = [entryID EXCEPT ![Before(qhead)] = "allocated"]
    BY <2>1, Ring DEF ProducerInv
  <2>2. CASE pstores = <<"entryID", "qhead">> /\ entryID' = [entryID EXCEPT ![qhead] = "allocated"]
    <3>1. NextOf(qhead) # qtail
      BY <2>2, StoresDiffer, "qhead" # "entryID" DEF ProducerInv, StoreAllocated
    <3>2. entryID[qhead] # "complete"
      BY <3>1, Ends DEF EntryInv, Stale
    <3>3. ~ (Leaving /\ qhead = qtail)
      BY DEF ConsumerInv
    <3> QED BY <2>2, <3>2, <3>3
  <2> QED BY <2>1, <2>2, ProducerOrder DEF ProducerInv
<1>3. ASSUME NEW i \in 1..Used PROVE Content(i)' = Content(i)
  <2>1. SlotAt(i)' = SlotAt(i) /\ SlotAt(i) \in Slot /\ (SlotAt(i) = qtail <=> i = 1)
    BY <1>1, Position DEF SlotAt
  <2> QED BY <1>1, <1>2, <2>1 DEF Content, Leaving
<1> QED BY <1>1, <1>3, Stutters DEF FifoStep

(* Writing into an entry that is not complete changes nothing of the queue. *)
LEMMA WriteStep ==
  ASSUME QueueInv, NEW f \in Slot, NEW v \in Val, Fill(f, v)
  PROVE  FifoStep
<1> USE DEF QueueInv, TypeOK
<1>1. /\ UNCHANGED <<qhead, qtail, entryID, cstores, last>>
      /\ data' = [data EXCEPT ![f] = v]
  BY DEF Fill, producer, consumer
<1>2. entryID[f] # "complete" /\ ~ (Leaving /\ f = qtail)
  BY DEF Fill, ProducerInv
<1>3. ASSUME NEW i \in 1..Used PROVE Content(i)' = Content(i)
  <2>1. SlotAt(i)' = SlotAt(i) /\ SlotAt(i) \in Slot /\ (SlotAt(i) = qtail <=> i = 1)
    BY <1>1, Position DEF SlotAt
  <2> QED BY <1>1, <1>2, <2>1 DEF Content, Leaving
<1> QED BY <1>1, <1>3, Stutters DEF FifoStep

(* Resetting a drained queue leaves it empty. *)
LEMMA ResetStutters ==
  ASSUME QueueInv, ResetAsync
  PROVE  FifoStep
<1>1. /\ qhead = qtail /\ qhead' = qtail' /\ last' = last
      /\ qhead \in Slot /\ qhead' \in Slot
  BY RingAssumption DEF QueueInv, TypeOK, ResetAsync, consumer, Slot
<1>2. Used = 0 /\ Used' = 0
  BY <1>1, Distance DEF Used
<1>3. fifo' = fifo
  BY <1>2 DEF fifo
<1> QED BY <1>1, <1>3 DEF FifoStep

(* All the other steps change nothing of the queue. *)
LEMMA OtherSteps ==
  ASSUME QueueInv,
         \/ UNCHANGED vars
         \/ \E kind \in {"try", "spin", "raw"} : Alloc(kind)
         \/ TestFull \/ TestFlags \/ AllocFails
         \/ \E kind \in {"complete", "spin", "entry"} : GetNext(kind)
         \/ GetSucceeds \/ GetFails \/ GetSpins \/ SpinHead \/ SpinID \/ PollComplete
         \/ Use \/ FreeNext
  PROVE  FifoStep
<1>1. UNCHANGED <<qhead, qtail, entryID, data, last>>
  BY DEF vars, producer, consumer, Alloc, TestFull, TestFlags, AllocFails, GetNext, GetSucceeds, GetFails, GetSpins, SpinHead, SpinID,
         PollComplete, GetReturns, Use, FreeNext
<1>2. Leaving' <=> Leaving
  <2>1. CASE FreeNext
    BY <2>1, StoresDiffer, "qtail" # "entryID" DEF FreeNext, FreeOrders, Leaving, QueueInv, ConsumerInv
  <2>2. CASE ~ FreeNext
    BY <2>2 DEF Leaving, vars, producer, consumer, Alloc, TestFull, TestFlags, AllocFails,
           GetNext, GetSucceeds, GetFails, GetSpins, SpinHead,
           SpinID, PollComplete, GetReturns, Use
  <2> QED BY <2>1, <2>2
<1>3. \A i \in 1..Used : Content(i)' = Content(i)
  BY <1>1, <1>2 DEF Content, SlotAt
<1> QED BY <1>1, <1>3, Stutters DEF FifoStep

(* Every step of the ring is a step of the queue, or changes nothing of it. *)
LEMMA EveryStep == QueueInv /\ TypeOK' /\ [Next]_vars => FifoStep
<1> SUFFICES ASSUME QueueInv, [Next]_vars, TypeOK' PROVE FifoStep OBVIOUS
<1> QED
  BY ReserveStep, PublishStep, TakeStep, ClearStep, MarkStep, WriteStep, ResetStutters, OtherSteps
     DEF Next, Producing, Consuming

(* The ring starts as the empty queue. *)
LEMMA FifoInit == Init => Fifo!Init
<1> SUFFICES ASSUME Init PROVE Fifo!Init OBVIOUS
<1>1. Used = 0
  BY DEF Init, Used, Dist
<1>2. fifo = <<>>
  BY <1>1 DEF fifo
<1> QED BY <1>2 DEF Fifo!Init, fifo, Init

(* QueueImplementsFifo: what the two threads do to the ring is what they   *)
(* would do to a first-in first-out queue of N - 1 entries.                *)
THEOREM QueueImplementsFifo == Spec => ImplementsBoundedFifo
<1>1. QueueInv /\ QueueInv' /\ [Next]_vars => FifoStep
  BY EveryStep DEF QueueInv
<1>2. FifoStep => [Fifo!Next]_<<[i \in 1..Used |-> Content(i)], last>>
  BY DEF FifoStep, fifo
<1> QED BY <1>1, <1>2, FifoInit, QueueInvariance, PTL DEF Spec, ImplementsBoundedFifo, Fifo!Spec
=============================================================================

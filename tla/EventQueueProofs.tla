-------------------------- MODULE EventQueueProofs --------------------------
(* Proofs about EventQueue for every POOL_SIZE of at least two and any     *)
(* number of events, as long as the pushes of the two threads do not       *)
(* overlap.                                                                *)
EXTENDS EventQueue, SequenceTheorems, TLAPS

-----------------------------------------------------------------------------
(* Index arithmetic.                                                       *)

LEMMA SuccWraps ==
  ASSUME NEW s \in Slots
  PROVE  /\ Succ(s) \in Slots
         /\ Succ(s) = IF s = PoolSize - 1 THEN 0 ELSE s + 1
<1>1. CASE s = PoolSize - 1
  BY <1>1, EventQueueAssumption DEF Slots, Succ
<1>2. CASE s # PoolSize - 1
  BY <1>2, EventQueueAssumption DEF Slots, Succ
<1> QED
  BY <1>1, <1>2

LEMMA DistanceType ==
  ASSUME readIndex \in Slots, NEW s \in Slots
  PROVE  Distance(s) \in 0..(PoolSize - 1)
BY EventQueueAssumption DEF Distance, Slots

LEMMA SlotType ==
  ASSUME readIndex \in Slots, NEW i \in 0..(PoolSize - 1)
  PROVE  Slot(i) \in Slots /\ Distance(Slot(i)) = i
BY EventQueueAssumption DEF Distance, Slot, Slots

-----------------------------------------------------------------------------
(* The invariant.                                                          *)

LEMMA QueueInvInit == Init => QueueInv
<1> SUFFICES ASSUME Init PROVE QueueInv
  OBVIOUS
<1>1. 0 \in Slots /\ 0 \in Event
  BY EventQueueAssumption DEF Slots, Event
<1>2. held \in Seq([slot : Slots, event : Event])
  BY EmptySeq DEF Init
<1>3. TypeOK
  BY <1>1, <1>2 DEF Init, TypeOK
<1>4. \A p \in Producers : pushAt[p] = "idle"
  BY DEF Init
<1>5. pullAt = "pull"
  BY DEF Init
<1> QED
  BY <1>3, <1>4, <1>5 DEF QueueInv, Producers

(* The writer is at an event of BoardEvents while it pushes. *)
LEMMA HeldHead ==
  ASSUME QueueInv, held # <<>>
  PROVE  /\ Head(held).slot \in Slots
         /\ Tail(held) \in Seq([slot : Slots, event : Event])
<1>1. held \in Seq([slot : Slots, event : Event])
  BY DEF QueueInv, TypeOK
<1>2. /\ Head(held) \in [slot : Slots, event : Event]
      /\ Tail(held) \in Seq([slot : Slots, event : Event])
  BY <1>1, HeadTailProperties
<1> QED
  BY <1>2

LEMMA QueueTypeStep == QueueInv /\ [Next]_vars => TypeOK'
<1> SUFFICES ASSUME QueueInv, [Next]_vars
             PROVE  TypeOK'
  OBVIOUS
<1> USE DEF QueueInv, TypeOK
<1>1. CASE ReaderPush
  BY <1>1, EventQueueAssumption DEF ReaderPush, PushLoad, PushStep, Event, Producers
<1>2. ASSUME NEW p \in Producers, Push(p)
      PROVE  TypeOK'
  <2>1. pushAt[p] # "idle"
    BY <1>2 DEF Push, PushRefused, PushAccepted, SetEvent, PushStore, PushStep
  <2>2. p = "writer" => held # <<>>
    BY <2>1
  <2>3. (IF p = "writer" THEN Tail(held) ELSE held) \in Seq([slot : Slots, event : Event])
    BY <2>2, HeldHead
  <2>4. CASE PushRefused(p)
    BY <2>3, <2>4 DEF PushRefused, PushStep, PushReturns
  <2>5. CASE PushAccepted(p)
    BY <2>5 DEF PushAccepted, PushStep
  <2>6. CASE SetEvent(p)
    <3>1. (IF p = "reader" THEN triggered ELSE data[Head(held).slot]) \in Event
      BY <2>2, HeldHead DEF Producers
    <3> QED
      BY <2>6, <3>1 DEF SetEvent, PushStep
  <2>7. CASE PushStore(p)
    <3>1. writeIndex' \in Slots
      BY <2>7, SuccWraps DEF PushStore
    <3> QED
      BY <2>3, <2>7, <3>1 DEF PushStore, PushStep, PushReturns
  <2> QED
    BY <1>2, <2>4, <2>5, <2>6, <2>7 DEF Push
<1>3. CASE PullEvent
  <2>1. held' \in Seq([slot : Slots, event : Event])
    BY <1>3, AppendProperties DEF PullEvent
  <2> QED
    BY <1>3, <2>1 DEF PullEvent, PullStep
<1>4. CASE PullStore
  BY <1>4, SuccWraps DEF PullStore, PullStep
<1>5. CASE PullNothing
  BY <1>5 DEF PullNothing, PullStep
<1>6. CASE UseEvent
  BY <1>6, HeldHead DEF UseEvent, PullStep
<1>7. CASE FlushDone
  BY <1>7 DEF FlushDone, PullStep
<1>8. CASE WriterPutsBack
  <2>1. putBacks' \in 0..MaxPutBacks
    BY <1>8, EventQueueAssumption DEF WriterPutsBack
  <2> QED
    BY <1>8, <2>1 DEF WriterPutsBack, PushLoad, PushStep, Producers
<1>9. CASE DestroyLoad \/ DestroyStore
  BY <1>9 DEF DestroyLoad, DestroyStore, PullStep
<1>10. CASE UNCHANGED vars
  BY <1>10 DEF vars
<1> QED
  BY <1>1, <1>2, <1>3, <1>4, <1>5, <1>6, <1>7, <1>8, <1>9, <1>10
  DEF Next, Reader, Writer, Pulling, Producers

(* The part of QueueInv about the pushes: one thread pushes at a time. *)
LEMMA QueueInvStep ==
  ASSUME OneProducer
  PROVE  QueueInv /\ [Next]_vars => QueueInv'
<1> SUFFICES ASSUME QueueInv, [Next]_vars
             PROVE  QueueInv'
  OBVIOUS
<1>1. TypeOK'
  BY QueueTypeStep
<1>2. readIndex \in Slots /\ writeIndex \in Slots /\ destroyTo \in Slots
  BY DEF QueueInv, TypeOK
<1>3. pushAt \in [Producers -> {"idle", "loaded", "writing", "written"}]
      /\ currentWrite \in [Producers -> Slots]
  BY DEF QueueInv, TypeOK
<1>4. ASSUME NEW p \in Producers, PushLoad(p),
             p = "writer" => pullAt = "match" /\ held # <<>> /\ putBacks' > 0 /\ MaxPutBacks # 0,
             p = "reader" => putBacks' = putBacks,
             UNCHANGED <<readIndex, writeIndex, pullAt, destroyTo, held>>
      PROVE  QueueInv'
  <2>1. \A q \in Producers : pushAt[q] = "idle"
    <3>1. CASE ~Overlap
      BY <1>4, <3>1 DEF PushLoad
    <3>2. CASE MaxPutBacks = 0
      <4>1. p = "reader" /\ pushAt[p] = "idle"
        BY <1>4, <3>2 DEF PushLoad, PushStep, Producers
      <4>2. pushAt["writer"] = "idle"
        BY <3>2 DEF QueueInv, TypeOK
      <4> QED
        BY <4>1, <4>2 DEF Producers
    <3> QED
      BY <3>1, <3>2 DEF OneProducer
  <2> QED
    BY <1>1, <1>3, <1>4, <2>1
    DEF QueueInv, PushLoad, PushStep, Producers, GuessSize, Distance
<1>5. CASE ReaderPush
  BY <1>4, <1>5 DEF ReaderPush, Producers
<1>6. CASE WriterPutsBack
  <2>1. putBacks' > 0 /\ MaxPutBacks # 0
    BY <1>6, EventQueueAssumption DEF WriterPutsBack, QueueInv, TypeOK
  <2> QED
    BY <1>4, <1>6, <2>1 DEF WriterPutsBack, Producers
<1>7. ASSUME NEW p \in Producers, Push(p)
      PROVE  QueueInv'
  <2>1. pushAt[p] # "idle"
    BY <1>7 DEF Push, PushRefused, PushAccepted, SetEvent, PushStore, PushStep
  <2>2. \A q \in Producers : q # p => pushAt[q] = "idle"
    BY <2>1 DEF QueueInv
  <2>3. currentWrite[p] = writeIndex
    BY <2>1 DEF QueueInv
  <2>4. CASE PushRefused(p)
    BY <1>1, <1>3, <2>2, <2>4
    DEF QueueInv, PushRefused, PushStep, PushReturns, Producers, GuessSize, Distance
  <2>5. CASE PushAccepted(p)
    BY <1>1, <1>3, <2>2, <2>3, <2>5
    DEF QueueInv, PushAccepted, PushStep, Producers, GuessSize, Distance
  <2>6. CASE SetEvent(p)
    BY <1>1, <1>3, <2>2, <2>6
    DEF QueueInv, SetEvent, PushStep, Producers, GuessSize, Distance
  <2>7. CASE PushStore(p)
    <3>1. Succ(writeIndex) # readIndex /\ writeIndex' = Succ(writeIndex)
      BY <2>3, <2>7 DEF QueueInv, PushStore, PushStep
    <3>2. GuessSize' = GuessSize + 1
      BY <1>2, <2>7, <3>1, SuccWraps, EventQueueAssumption
      DEF PushStore, GuessSize, Distance, Slots
    <3>3. Distance(destroyTo)' = Distance(destroyTo)
      BY <2>7 DEF PushStore, Distance
    <3>4. GuessSize \in Nat /\ Distance(destroyTo) \in Nat
      BY <1>2, DistanceType DEF GuessSize
    <3>5. pullAt' = pullAt /\ (pullAt' = "destroy" => Distance(destroyTo)' <= GuessSize')
      BY <2>7, <3>2, <3>3, <3>4 DEF QueueInv, PushStore
    <3>6. pullAt' = "advance" => readIndex' # writeIndex'
      BY <2>7, <3>1 DEF PushStore
    <3>7. \A q \in Producers : pushAt'[q] = "idle"
      BY <1>3, <2>2, <2>7 DEF PushStore, PushStep
    <3> QED
      BY <1>1, <3>5, <3>6, <3>7 DEF QueueInv, Producers
  <2> QED
    BY <1>7, <2>4, <2>5, <2>6, <2>7 DEF Push
<1>8. CASE PullEvent
  BY <1>1, <1>8
  DEF QueueInv, PullEvent, PullStep, Producers, GuessSize, Distance
<1>9. CASE PullStore
  <2>1. readIndex # writeIndex /\ readIndex' = Succ(readIndex)
    BY <1>9 DEF QueueInv, PullStore, PullStep
  <2>2. Succ(writeIndex) # Succ(readIndex)
    BY <1>2, <2>1, SuccWraps, EventQueueAssumption DEF Slots
  <2> QED
    BY <1>1, <1>9, <2>1, <2>2 DEF QueueInv, PullStore, PullStep, Producers, Succ
<1>10. CASE PullNothing
  BY <1>1, <1>10 DEF QueueInv, PullNothing, PullStep, Producers, GuessSize, Distance
<1>11. CASE UseEvent
  BY <1>1, <1>11 DEF QueueInv, UseEvent, PullStep, Producers, GuessSize, Distance
<1>12. CASE FlushDone
  BY <1>1, <1>12 DEF QueueInv, FlushDone, PullStep, Producers, GuessSize, Distance
<1>13. CASE DestroyLoad
  <2>1. GuessSize \in Nat
    BY <1>2, DistanceType DEF GuessSize
  <2>2. Distance(destroyTo)' <= GuessSize'
    BY <1>13, <2>1 DEF DestroyLoad, PullStep, GuessSize, Distance
  <2> QED
    BY <1>1, <1>13, <2>2 DEF QueueInv, DestroyLoad, PullStep, Producers
<1>14. CASE DestroyStore
  <2>1. Distance(destroyTo) <= GuessSize /\ readIndex' = destroyTo
    BY <1>14 DEF QueueInv, DestroyStore, PullStep
  <2>2. Succ(writeIndex) # readIndex => Succ(writeIndex) # destroyTo
    BY <1>2, <2>1, SuccWraps, EventQueueAssumption DEF GuessSize, Distance, Slots
  <2> QED
    BY <1>1, <1>14, <2>1, <2>2 DEF QueueInv, DestroyStore, PullStep, Producers, Succ
<1>15. CASE UNCHANGED vars
  BY <1>1, <1>15 DEF QueueInv, vars, GuessSize, Distance
<1> QED
  BY <1>5, <1>6, <1>7, <1>8, <1>9, <1>10, <1>11, <1>12, <1>13, <1>14, <1>15
  DEF Next, Reader, Writer, Pulling, Producers

(* Whatever POOL_SIZE is, as long as the writer puts nothing back while the *)
(* reader pushes (the code does not ensure it), push() writes into a free   *)
(* slot, and no index is stale when it is stored.                           *)
THEOREM QueueInvariant ==
  ASSUME OneProducer
  PROVE  Spec => []QueueInv
BY QueueInvInit, QueueInvStep, PTL DEF Spec

-----------------------------------------------------------------------------
(* The events between the indices.                                         *)

(* With one producer at a time push() copies into the slot behind the last *)
(* event, never into one that pull() may return.                           *)
THEOREM SlotsComplete ==
  ASSUME OneProducer
  PROVE  Spec => []PublishedSlotsComplete
<1>1. QueueInv => PublishedSlotsComplete
  <2> SUFFICES ASSUME QueueInv, NEW p \in Producers, pushAt[p] = "writing",
                      NEW i \in 0..(GuessSize - 1)
               PROVE  currentWrite[p] # Slot(i)
    BY DEF PublishedSlotsComplete
  <2>1. readIndex \in Slots /\ writeIndex \in Slots
    BY DEF QueueInv, TypeOK
  <2>2. GuessSize \in 0..(PoolSize - 1)
    BY <2>1, DistanceType DEF GuessSize
  <2>3. i \in 0..(PoolSize - 1) /\ i # GuessSize
    BY <2>2, EventQueueAssumption
  <2>4. Distance(Slot(i)) = i
    BY <2>1, <2>3, SlotType
  <2>5. currentWrite[p] = writeIndex
    BY DEF QueueInv
  <2> QED
    BY <2>3, <2>4, <2>5 DEF GuessSize
<1> QED
  BY <1>1, QueueInvariant, PTL

LEMMA FunctionIsSeq ==
  ASSUME NEW S, NEW n \in Nat, NEW s \in [1..n -> S]
  PROVE  s \in Seq(S) /\ Len(s) = n
<1>1. s \in Seq(S)
  BY SeqDef
<1>2. DOMAIN s = 1..n /\ DOMAIN s = 1..Len(s) /\ Len(s) \in Nat
  BY <1>1, LenProperties
<1> QED
  BY <1>1, <1>2

ContentsOK ==
  GuessSize \in 0..(PoolSize - 1) /\ Contents \in Seq(Event) /\ Len(Contents) = GuessSize

LEMMA ContentsType == TypeOK => ContentsOK
<1> SUFFICES ASSUME TypeOK PROVE ContentsOK
  OBVIOUS
<1>1. data \in [Slots -> Event] /\ readIndex \in Slots /\ writeIndex \in Slots
  BY DEF TypeOK
<1>2. GuessSize \in 0..(PoolSize - 1)
  BY <1>1, DistanceType DEF GuessSize
<1>3. \A i \in 1..GuessSize : Slot(i - 1) \in Slots
  BY <1>1, <1>2, EventQueueAssumption DEF Slot, Slots
<1>4. Contents \in [1..GuessSize -> Event]
  BY <1>1, <1>3 DEF Contents
<1>5. GuessSize \in Nat
  BY <1>2, EventQueueAssumption
<1> QED
  BY <1>2, <1>4, <1>5, FunctionIsSeq DEF ContentsOK

LEMMA ContentsTypeNext == TypeOK' => ContentsOK'
BY ContentsType, PTL

-----------------------------------------------------------------------------
(* Each step of the circular buffer is a step of the queue, or none.       *)

LEMMA SetEventKeepsContents ==
  ASSUME QueueInv, NEW p \in Producers, SetEvent(p)
  PROVE  Contents' = Contents
<1>1. data \in [Slots -> Event] /\ readIndex \in Slots /\ writeIndex \in Slots
  BY DEF QueueInv, TypeOK
<1>2. currentWrite[p] = writeIndex
  BY DEF QueueInv, SetEvent, PushStep
<1>3. GuessSize \in 0..(PoolSize - 1) /\ GuessSize' = GuessSize
  BY <1>1, DistanceType DEF SetEvent, GuessSize, Distance
<1>4. ASSUME NEW i \in 1..GuessSize
      PROVE  data'[Slot(i - 1)'] = data[Slot(i - 1)]
  <2>1. i - 1 \in 0..(PoolSize - 1) /\ i - 1 # GuessSize
    BY <1>3, EventQueueAssumption
  <2>2. Slot(i - 1) \in Slots /\ Distance(Slot(i - 1)) = i - 1
    BY <1>1, <2>1, SlotType
  <2>3. Slot(i - 1) # writeIndex
    BY <2>1, <2>2 DEF GuessSize
  <2>4. Slot(i - 1)' = Slot(i - 1)
    BY DEF SetEvent, Slot
  <2> QED
    BY <1>1, <1>2, <2>2, <2>3, <2>4 DEF SetEvent
<1> QED
  BY <1>3, <1>4 DEF Contents

LEMMA PushStoreAppends ==
  ASSUME QueueInv, QueueInv', NEW p \in Producers, PushStore(p)
  PROVE  \E e \in Event : FIFO!Push(e)
<1>1. data \in [Slots -> Event] /\ readIndex \in Slots /\ writeIndex \in Slots
  BY DEF QueueInv, TypeOK
<1>2. /\ currentWrite[p] = writeIndex /\ writeIndex' = Succ(writeIndex)
      /\ Succ(writeIndex) # readIndex
      /\ UNCHANGED <<data, readIndex>>
  BY DEF QueueInv, PushStore, PushStep
<1>3. ContentsOK /\ ContentsOK'
  BY ContentsType, ContentsTypeNext DEF QueueInv
<1>4. GuessSize' = GuessSize + 1 /\ GuessSize + 1 < PoolSize
  <2>1. Succ(writeIndex) = IF writeIndex = PoolSize - 1 THEN 0 ELSE writeIndex + 1
    BY <1>1, SuccWraps
  <2> QED
    BY <1>1, <1>2, <2>1, EventQueueAssumption DEF GuessSize, Distance, Slots
<1>5. Slot(GuessSize) = writeIndex
  BY <1>1, EventQueueAssumption DEF GuessSize, Distance, Slot, Slots
<1> DEFINE e == data[writeIndex]
<1>6. e \in Event
  BY <1>1
<1>7. ASSUME NEW i \in 1..Len(Contents')
      PROVE  Contents'[i] = Append(Contents, e)[i]
  <2>1. i \in 1..GuessSize' /\ i \in 1..(GuessSize + 1) /\ GuessSize \in Nat
    BY <1>3, <1>4 DEF ContentsOK
  <2>2. Contents'[i] = data[Slot(i - 1)]
    BY <1>2, <2>1 DEF Contents, Slot
  <2>3. CASE i = GuessSize + 1
    BY <1>3, <1>5, <2>1, <2>2, <2>3, AppendProperties DEF ContentsOK
  <2>4. CASE i # GuessSize + 1
    <3>1. i \in 1..GuessSize
      BY <2>1, <2>4
    <3>2. Contents[i] = data[Slot(i - 1)]
      BY <3>1 DEF Contents
    <3>3. Append(Contents, e)[i] = Contents[i]
      BY <1>3, <1>6, <3>1, AppendProperties DEF ContentsOK
    <3> QED
      BY <2>2, <3>2, <3>3
  <2> QED
    BY <2>3, <2>4
<1>8. Append(Contents, e) \in Seq(Event) /\ Len(Append(Contents, e)) = GuessSize + 1
  BY <1>3, <1>6, AppendProperties DEF ContentsOK
<1>9. Contents' = Append(Contents, e)
  BY <1>3, <1>4, <1>7, <1>8, SeqEqual DEF ContentsOK
<1>10. Len(Contents) < PoolSize - 1
  BY <1>3, <1>4, EventQueueAssumption DEF ContentsOK
<1> QED
  BY <1>6, <1>9, <1>10 DEF FIFO!Push

(* pull() takes the first event, Destroy() the first n: both move only the *)
(* read index, onto a slot between the two indices.                        *)
LEMMA AdvanceDrops ==
  ASSUME QueueInv, QueueInv', NEW to \in Slots, Distance(to) <= GuessSize,
         readIndex' = to, UNCHANGED <<data, writeIndex>>
  PROVE  /\ Distance(to) \in 0..Len(Contents)
         /\ Contents' = SubSeq(Contents, Distance(to) + 1, Len(Contents))
<1>1. data \in [Slots -> Event] /\ readIndex \in Slots /\ writeIndex \in Slots
  BY DEF QueueInv, TypeOK
<1>2. ContentsOK /\ ContentsOK'
  BY ContentsType, ContentsTypeNext DEF QueueInv
<1> DEFINE n == Distance(to)
<1>3. n \in 0..(PoolSize - 1) /\ n \in Nat
  BY <1>1, DistanceType, EventQueueAssumption
<1>4. GuessSize' = GuessSize - n
  BY <1>1, EventQueueAssumption DEF GuessSize, Distance, Slots
<1>5. GuessSize \in Nat /\ n <= GuessSize
  BY <1>2, EventQueueAssumption DEF ContentsOK
<1>6. \A i \in (n + 1)..Len(Contents) : Contents[i] \in Event
  BY <1>2, <1>3, <1>5, ElementOfSeq DEF ContentsOK
<1> DEFINE rest == SubSeq(Contents, n + 1, Len(Contents))
<1>7. /\ rest \in Seq(Event)
      /\ Len(rest) = IF n + 1 <= Len(Contents) THEN Len(Contents) - (n + 1) + 1 ELSE 0
      /\ \A i \in 1..(Len(Contents) - (n + 1) + 1) : rest[i] = Contents[(n + 1) + i - 1]
  <2>1. n + 1 \in Int /\ Len(Contents) \in Int
    BY <1>2, <1>3, <1>5 DEF ContentsOK
  <2> HIDE DEF n
  <2> QED
    BY <1>6, <2>1, SubSeqProperties
<1>8. Len(rest) = GuessSize - n
  BY <1>2, <1>3, <1>5, <1>7 DEF ContentsOK
<1>9. ASSUME NEW i \in 1..Len(Contents')
      PROVE  Contents'[i] = rest[i]
  <2>1. i \in 1..GuessSize' /\ i \in 1..(GuessSize - n) /\ n + i \in 1..GuessSize
    BY <1>2, <1>3, <1>4, <1>5 DEF ContentsOK
  <2>2. Contents'[i] = data[Slot(i - 1)']
    BY <2>1 DEF Contents
  <2>3. Slot(i - 1)' = Slot(n + i - 1)
    <3>1. i - 1 \in Nat /\ (n + i) - 1 = n + (i - 1) /\ n + (i - 1) < GuessSize
      BY <1>3, <1>5, <2>1
    <3>2. GuessSize < PoolSize
      BY <1>2, EventQueueAssumption DEF ContentsOK
    <3>3. n = IF to >= readIndex THEN to - readIndex ELSE to - readIndex + PoolSize
      BY DEF Distance
    <3>4. Slot(i - 1)' = IF to + (i - 1) < PoolSize THEN to + (i - 1) ELSE to + (i - 1) - PoolSize
      BY DEF Slot
    <3>5. Slot(n + i - 1) = IF readIndex + (n + (i - 1)) < PoolSize
                              THEN readIndex + (n + (i - 1))
                              ELSE readIndex + (n + (i - 1)) - PoolSize
      BY <3>1 DEF Slot
    <3> HIDE DEF n
    <3> QED
      BY <1>1, <1>3, <1>5, <3>1, <3>2, <3>3, <3>4, <3>5, EventQueueAssumption DEF Slots
  <2>4. rest[i] = Contents[n + i]
    <3>1. i \in 1..(Len(Contents) - (n + 1) + 1) /\ (n + 1) + i - 1 = n + i
      BY <1>2, <1>3, <1>5, <2>1 DEF ContentsOK
    <3> QED
      BY <1>7, <3>1
  <2>5. Contents[n + i] = data[Slot(n + i - 1)]
    <3>1. \A k \in 1..GuessSize : Contents[k] = data[Slot(k - 1)]
      BY DEF Contents
    <3> HIDE DEF n
    <3> QED
      BY <1>3, <2>1, <3>1
  <2> QED
    BY <2>2, <2>3, <2>4, <2>5
<1>10. Contents' = rest
  BY <1>2, <1>4, <1>7, <1>8, <1>9, SeqEqual DEF ContentsOK
<1> QED
  BY <1>2, <1>3, <1>5, <1>10 DEF ContentsOK

LEMMA FIFOStep ==
  QueueInv /\ QueueInv' /\ [Next]_vars => [FIFO!Next]_Contents
<1> SUFFICES ASSUME QueueInv, QueueInv', [Next]_vars
             PROVE  FIFO!Next \/ Contents' = Contents
  OBVIOUS
<1>1. ASSUME UNCHANGED <<data, readIndex, writeIndex>>
      PROVE  Contents' = Contents
  BY <1>1 DEF Contents, GuessSize, Distance, Slot
<1>2. ASSUME NEW p \in Producers, Push(p)
      PROVE  FIFO!Next \/ Contents' = Contents
  <2>1. CASE PushRefused(p) \/ PushAccepted(p)
    BY <1>1, <2>1 DEF PushRefused, PushAccepted
  <2>2. CASE SetEvent(p)
    BY <2>2, SetEventKeepsContents
  <2>3. CASE PushStore(p)
    BY <2>3, PushStoreAppends DEF FIFO!Next
  <2> QED
    BY <1>2, <2>1, <2>2, <2>3 DEF Push
<1>3. CASE PullStore
  <2>1. /\ readIndex \in Slots /\ writeIndex \in Slots /\ readIndex # writeIndex
        /\ readIndex' = Succ(readIndex) /\ UNCHANGED <<data, writeIndex>>
    BY <1>3 DEF QueueInv, TypeOK, PullStore, PullStep
  <2>2. /\ Succ(readIndex) \in Slots
        /\ Succ(readIndex) = IF readIndex = PoolSize - 1 THEN 0 ELSE readIndex + 1
    BY <2>1, SuccWraps
  <2>3. Distance(Succ(readIndex)) = 1 /\ 1 <= GuessSize
    BY <2>1, <2>2, EventQueueAssumption DEF Distance, GuessSize, Slots
  <2>4. Contents' = SubSeq(Contents, 2, Len(Contents)) /\ 1 <= Len(Contents)
    BY <2>1, <2>2, <2>3, AdvanceDrops
  <2>5. Contents \in Seq(Event) /\ Contents # <<>>
    BY <2>4, ContentsType, EmptySeq DEF QueueInv, ContentsOK
  <2>6. Tail(Contents) = SubSeq(Contents, 2, Len(Contents))
    BY <2>5, TailIsSubSeq
  <2> QED
    BY <2>4, <2>5, <2>6 DEF FIFO!Next, FIFO!Pull
<1>4. CASE DestroyStore
  <2>1. /\ destroyTo \in Slots /\ Distance(destroyTo) <= GuessSize
        /\ readIndex' = destroyTo /\ UNCHANGED <<data, writeIndex>>
    BY <1>4 DEF QueueInv, TypeOK, DestroyStore, PullStep
  <2>2. /\ Distance(destroyTo) \in 0..Len(Contents)
        /\ Contents' = SubSeq(Contents, Distance(destroyTo) + 1, Len(Contents))
    BY <2>1, AdvanceDrops
  <2> QED
    BY <2>2 DEF FIFO!Next, FIFO!Discard
<1>5. CASE ReaderPush \/ WriterPutsBack
  BY <1>1, <1>5 DEF ReaderPush, WriterPutsBack
<1>6. CASE PullEvent \/ PullNothing \/ UseEvent \/ FlushDone \/ DestroyLoad
  BY <1>1, <1>6
  DEF PullEvent, PullNothing, UseEvent, FlushDone, DestroyLoad, PullStep
<1>7. CASE UNCHANGED vars
  BY <1>1, <1>7 DEF vars
<1> QED
  BY <1>2, <1>3, <1>4, <1>5, <1>6, <1>7
  DEF Next, Reader, Writer, Pulling, Producers

(* With one producer at a time mdaq::Queue is a bounded first-in first-out *)
(* queue of POOL_SIZE - 1 events: push() appends, pull() removes the first, *)
(* and nothing else happens to what is between the indices.                *)
THEOREM QueueImplementsFIFO ==
  ASSUME OneProducer
  PROVE  Spec => ImplementsFIFO
<1>1. Init => FIFO!Init
  <2> SUFFICES ASSUME Init PROVE Contents = <<>>
    BY DEF FIFO!Init
  <2>1. GuessSize = 0
    BY DEF Init, GuessSize, Distance
  <2>2. Contents \in Seq(Event) /\ Len(Contents) = 0
    BY <2>1, QueueInvInit, ContentsType DEF QueueInv, ContentsOK
  <2> QED
    BY <2>2, EmptySeq
<1>2. QueueInv /\ QueueInv' /\ [Next]_vars => [FIFO!Next]_Contents
  BY FIFOStep
<1> QED
  BY <1>1, <1>2, QueueInvariant, PTL DEF Spec, ImplementsFIFO, FIFO!Spec
=============================================================================

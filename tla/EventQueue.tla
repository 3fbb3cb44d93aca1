----------------------------- MODULE EventQueue -----------------------------
(* mdaq::Queue (interface/Queue.h), the circular buffer that carries one   *)
(* board's events from the reader thread (DAQ::Read) to the writer thread  *)
(* (EventFactory::FlushQueuesToDisk).                                      *)
(*                                                                         *)
(* One action is one access of shared memory.  Each index is stored with   *)
(* release and loaded with acquire by the other side, and no thread reads  *)
(* an index it may not rely on, so the accesses interleave.  SetEvent()    *)
(* copies an event for a while: the slot is being written as long as the   *)
(* producer is at "writing".                                               *)
(*                                                                         *)
(* An event is the number of its trigger; 0 is the event a slot is         *)
(* constructed with.                                                       *)
EXTENDS Integers, Sequences

CONSTANTS
  PoolSize,      (* POOL_SIZE                                                  *)
  MaxEvents,     (* bound: events the board triggers                           *)
  MaxPutBacks,   (* bound: unmatched events put back by the writer             *)
  Overlap        (* the writer may put an event back while the reader pushes   *)

ASSUME EventQueueAssumption ==
  /\ PoolSize \in Nat /\ PoolSize >= 2
  /\ MaxEvents \in Nat /\ MaxPutBacks \in Nat
  /\ Overlap \in BOOLEAN

VARIABLES
  data, readIndex, writeIndex,
  pushAt,          (* where each thread is in push()                           *)
  currentWrite,    (* each thread's local variable of push()                   *)
  triggered,       (* the last event of the board, which the reader pushes     *)
  pullAt,          (* where the writer is: pull(), Destroy() or matching       *)
  destroyTo,       (* the local variable of Destroy()                          *)
  held,            (* BoardEvents: the pointers pulled and not yet dealt with; *)
                   (* .event is what each pointed to when it was pulled        *)
  putBacks, pushed, pulled     (* how often push() and pull() returned true    *)

vars == <<data, readIndex, writeIndex, pushAt, currentWrite, triggered, pullAt,
          destroyTo, held, putBacks, pushed, pulled>>

Slots == 0..(PoolSize - 1)
Producers == {"reader", "writer"}
Event == 0..MaxEvents

Succ(i) == (i + 1) % PoolSize

Init ==
  /\ data = [s \in Slots |-> 0]
  /\ readIndex = 0 /\ writeIndex = 0
  /\ pushAt = [p \in Producers |-> "idle"]
  /\ currentWrite = [p \in Producers |-> 0]
  /\ triggered = 0
  /\ pullAt = "pull" /\ destroyTo = 0 /\ held = <<>>
  /\ putBacks = 0 /\ pushed = 0 /\ pulled = 0

-----------------------------------------------------------------------------
(* push()                                                                  *)

PushStep(p, from, to) ==
  /\ pushAt[p] = from
  /\ pushAt' = [pushAt EXCEPT ![p] = to]

(* MilliDAQ does nothing to keep the two threads from overlapping here.    *)
PushLoad(p) ==
  /\ PushStep(p, "idle", "loaded")
  /\ ~Overlap => \A q \in Producers : pushAt[q] = "idle"
  /\ currentWrite' = [currentWrite EXCEPT ![p] = writeIndex]

(* DAQ::Read() pushes the event it decoded. *)
ReaderPush ==
  /\ triggered < MaxEvents
  /\ triggered' = triggered + 1
  /\ PushLoad("reader")
  /\ UNCHANGED <<data, readIndex, writeIndex, pullAt, destroyTo, held, putBacks,
                 pushed, pulled>>

(* FlushQueuesToDisk() puts an event back that has no match yet. *)
WriterPutsBack ==
  /\ pullAt = "match" /\ held # <<>>
  /\ putBacks < MaxPutBacks
  /\ putBacks' = putBacks + 1
  /\ PushLoad("writer")
  /\ UNCHANGED <<data, readIndex, writeIndex, triggered, pullAt, destroyTo, held,
                 pushed, pulled>>

(* push() returns: the writer erases the event it put back, whatever the   *)
(* result.                                                                 *)
PushReturns(p) == held' = IF p = "writer" THEN Tail(held) ELSE held

PushRefused(p) ==
  /\ PushStep(p, "loaded", "idle")
  /\ Succ(currentWrite[p]) = readIndex
  /\ PushReturns(p)
  /\ UNCHANGED <<data, readIndex, writeIndex, currentWrite, triggered, pullAt,
                 destroyTo, putBacks, pushed, pulled>>

(* Mutant: a full queue is not refused. *)
PushAcceptedWhenFull(p) ==
  /\ PushStep(p, "loaded", "writing")
  /\ UNCHANGED <<data, readIndex, writeIndex, currentWrite, triggered, pullAt,
                 destroyTo, held, putBacks, pushed, pulled>>

PushAccepted(p) ==
  /\ PushStep(p, "loaded", "writing")
  /\ Succ(currentWrite[p]) # readIndex
  /\ UNCHANGED <<data, readIndex, writeIndex, currentWrite, triggered, pullAt,
                 destroyTo, held, putBacks, pushed, pulled>>

(* SetEvent() is done. *)
SetEvent(p) ==
  /\ PushStep(p, "writing", "written")
  /\ data' = [data EXCEPT ![currentWrite[p]] =
                IF p = "reader" THEN triggered ELSE data[Head(held).slot]]
  /\ UNCHANGED <<readIndex, writeIndex, currentWrite, triggered, pullAt,
                 destroyTo, held, putBacks, pushed, pulled>>

PushStore(p) ==
  /\ PushStep(p, "written", "idle")
  /\ writeIndex' = Succ(currentWrite[p])
  /\ pushed' = pushed + 1
  /\ PushReturns(p)
  /\ UNCHANGED <<data, readIndex, currentWrite, triggered, pullAt, destroyTo,
                 putBacks, pulled>>

Push(p) == PushRefused(p) \/ PushAccepted(p) \/ SetEvent(p) \/ PushStore(p)

-----------------------------------------------------------------------------
(* pull() and Destroy(): only the writer calls them.                       *)

PullStep(from, to) ==
  /\ pullAt = from /\ pullAt' = to
  /\ UNCHANGED <<data, writeIndex, pushAt, currentWrite, triggered, putBacks,
                 pushed>>

PullEvent ==
  /\ PullStep("pull", "advance")
  /\ readIndex # writeIndex
  /\ held' = Append(held, [slot |-> readIndex, event |-> data[readIndex]])
  /\ UNCHANGED <<readIndex, destroyTo, pulled>>

PullStore ==
  /\ PullStep("advance", "pull")
  /\ readIndex' = Succ(readIndex)
  /\ pulled' = pulled + 1
  /\ UNCHANGED <<destroyTo, held>>

(* Mutant: pull() may see an old writeIndex and take the queue for empty. *)
PullStaleIndex ==
  /\ PullStep("pull", "match")
  /\ UNCHANGED <<readIndex, destroyTo, held, pulled>>

(* The queue is empty: FlushQueuesToDisk() goes on to the matching. *)
PullNothing ==
  /\ PullStep("pull", "match")
  /\ readIndex = writeIndex
  /\ UNCHANGED <<readIndex, destroyTo, held, pulled>>

(* The event is written to the file, or discarded by a filter. *)
UseEvent ==
  /\ PullStep("match", "match")
  /\ held # <<>> /\ pushAt["writer"] = "idle"
  /\ held' = Tail(held)
  /\ UNCHANGED <<readIndex, destroyTo, pulled>>

FlushDone ==
  /\ PullStep("match", "pull")
  /\ held = <<>>
  /\ UNCHANGED <<readIndex, destroyTo, held, pulled>>

DestroyLoad ==
  /\ PullStep("pull", "destroy")
  /\ held = <<>>
  /\ destroyTo' = writeIndex
  /\ UNCHANGED <<readIndex, held, pulled>>

DestroyStore ==
  /\ PullStep("destroy", "pull")
  /\ readIndex' = destroyTo
  /\ UNCHANGED <<destroyTo, held, pulled>>

-----------------------------------------------------------------------------
Reader == ReaderPush \/ Push("reader")

Pulling == PullEvent \/ PullStore \/ PullNothing \/ UseEvent \/ FlushDone

Writer ==
  Pulling \/ WriterPutsBack \/ Push("writer") \/ DestroyLoad \/ DestroyStore

Next == Reader \/ Writer

Spec == Init /\ [][Next]_vars

(* The writer thread flushes every 50 ms; the reader finishes a push. *)
Fairness ==
  /\ WF_vars(Push("reader"))
  /\ WF_vars(Pulling \/ Push("writer") \/ DestroyStore)

FairSpec == Spec /\ Fairness

-----------------------------------------------------------------------------
(* Properties.                                                             *)

(* Every variable stays in its type. *)
TypeOK ==
  /\ data \in [Slots -> Event]
  /\ readIndex \in Slots /\ writeIndex \in Slots /\ destroyTo \in Slots
  /\ pushAt \in [Producers -> {"idle", "loaded", "writing", "written"}]
  /\ currentWrite \in [Producers -> Slots]
  /\ triggered \in Event
  /\ pullAt \in {"pull", "advance", "match", "destroy"}
  /\ held \in Seq([slot : Slots, event : Event])
  /\ putBacks \in 0..MaxPutBacks /\ pushed \in Nat /\ pulled \in Nat

(* How far a slot is from the read index; GuessSize() is the distance of   *)
(* the write index.                                                        *)
Distance(s) == IF s >= readIndex THEN s - readIndex ELSE s - readIndex + PoolSize

GuessSize == Distance(writeIndex)

Slot(i) == IF readIndex + i < PoolSize THEN readIndex + i ELSE readIndex + i - PoolSize

Contents == [i \in 1..GuessSize |-> data[Slot(i - 1)]]

(* The circular buffer implements the queue it stands for: no event is     *)
(* lost, duplicated, reordered or overwritten between a push() that        *)
(* returned true and the pull() that returns it.                           *)
FIFO == INSTANCE BoundedFIFO
          WITH queue <- Contents, Capacity <- PoolSize - 1

ImplementsFIFO == FIFO!Spec

(* One thread pushes at a time: nothing is ever put back, or the writer    *)
(* never does it while the reader pushes.  The code ensures neither.       *)
OneProducer == MaxPutBacks = 0 \/ ~Overlap

(* No producer is copying an event into a slot the writer may pull: what   *)
(* is between the indices is complete.                                     *)
PublishedSlotsComplete ==
  \A p \in Producers : pushAt[p] = "writing" =>
    \A i \in 0..(GuessSize - 1) : currentWrite[p] # Slot(i)

(* The inductive invariant: the one thread that pushes owns the slot at    *)
(* writeIndex, which is never the last free one; the indices a pull() or a *)
(* Destroy() relies on still hold when it stores.                          *)
QueueInv ==
  /\ TypeOK
  /\ \A p \in Producers :
       /\ pushAt[p] # "idle" => currentWrite[p] = writeIndex
       /\ pushAt[p] \in {"writing", "written"} => Succ(writeIndex) # readIndex
  /\ \A p, q \in Producers : p = q \/ pushAt[p] = "idle" \/ pushAt[q] = "idle"
  /\ pushAt["writer"] # "idle" => pullAt = "match" /\ held # <<>> /\ putBacks > 0
  /\ pullAt = "advance" => readIndex # writeIndex
  /\ pullAt = "destroy" => Distance(destroyTo) <= GuessSize

(* "can allow readIndex to get past writeIndex, and was once to 'pull'     *)
(* 5000-1 events from 1 single event" (Queue.h:120): it cannot.            *)
PullsOnlyWhatWasPushed == pulled <= pushed

(* Every event that was pushed is pulled (or destroyed): none stays on the *)
(* queue for ever, in a slot that nobody reads.                            *)
OnQueue(e) == \E i \in 1..GuessSize : Contents[i] = e

EventsLeaveQueue == \A e \in 1..MaxEvents : OnQueue(e) ~> ~OnQueue(e)
=============================================================================

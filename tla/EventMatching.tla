---------------------------- MODULE EventMatching ----------------------------
(* mdaq::EventFactory::FlushQueuesToDisk() (src/EventFactory.cc): the      *)
(* writer pulls the events of both boards off their queues, pairs them by  *)
(* trigger time, puts a young event without a partner back on its queue,   *)
(* records an old one alone, and drops what the filters reject.            *)
(*                                                                         *)
(* An event is named by its board and the number of its trigger.  The      *)
(* queues are bounded FIFOs, as EventQueue shows for put-backs that do not *)
(* overlap a push.  The two time scales are kept apart: trigger times are  *)
(* in ticks of the boards' trigger clock (10 ns), of the time an event     *)
(* waits (seconds) only whether it has reached maxQueueTime is kept.       *)
EXTENDS Integers, FiniteSets, SequencesExt

CONSTANTS
  Configurations,            (* the filters' switches in the configurations    *)
  MaxTriggers,               (* bound: triggers in all runs                    *)
  MaxRuns,                   (* bound                                          *)
  Rollover,                  (* the trigger time tag counts 31 bits            *)
  Skew,                      (* how far the second board's clock is ahead      *)
  Gaps,                      (* the times from one trigger to the next         *)
  LeftOver,                  (* the events of the temporary file at start      *)
  MatchingTTTRequirement,
  MaxNumberEventsPerFile,
  BoardMemory,               (* events a board keeps until it is read          *)
  QueueCapacity              (* POOL_SIZE - 1                                  *)

ASSUME EventMatchingAssumption ==
  /\ Configurations \subseteq [HLTEnabled : BOOLEAN, CosmicPrescaleEnabled : BOOLEAN]
  /\ MaxTriggers \in Nat /\ MaxRuns \in Nat \ {0}
  /\ Rollover \in Nat \ {0} /\ Skew \in Nat
  /\ MatchingTTTRequirement \in Nat /\ Skew < MatchingTTTRequirement
  /\ Gaps \subseteq Nat /\ LeftOver \subseteq Nat
  /\ MaxNumberEventsPerFile \in Nat \ {0, 1}
  /\ BoardMemory \in Nat \ {0}
  /\ QueueCapacity \in Nat \ {0}

(* nDigitizers is 2. *)
Boards == 0..1
Other(b) == 1 - b
Triggers == 1..MaxTriggers

VARIABLES
  run, cfg,
  triggers,      (* the run and the time of each trigger                       *)
  board,         (* events in each board's memory, by trigger                  *)
  queue,         (* masterQueues                                               *)
  old,           (* the waiting events that were stamped maxQueueTime ago      *)
  BoardEvents,   (* the writer's local copies of the queues                    *)
  at, i,         (* where FlushQueuesToDisk() is, iDigitizer                   *)
  CurrentEvent,  (* the trigger of each board's part, 0 without DataPresent    *)
  entries,       (* data->GetEntries()                                         *)
  begunWith,     (* what StartFile() found of them in the temporary file       *)
  handled,       (* the events recorded or filtered                            *)
  lost           (* the events of the boards that never got there              *)

acquisition == <<run, cfg, triggers, board>>
file == <<entries, begunWith>>
writer == <<BoardEvents, at, i, CurrentEvent, file>>
outcome == <<handled, lost>>
vars == <<acquisition, queue, old, writer, outcome>>

(* CurrentEvent->Reset() *)
NoEvent == [b \in Boards |-> 0]

Empty == [b \in Boards |-> <<>>]

(* The temporary file is new, or it is the one that a crash has left. *)
Init ==
  /\ run = 1 /\ cfg \in Configurations
  /\ triggers = <<>> /\ board = Empty
  /\ queue = Empty /\ old = {}
  /\ BoardEvents = Empty /\ at = "idle" /\ i = 0
  /\ CurrentEvent = NoEvent
  /\ entries \in LeftOver /\ begunWith = entries
  /\ handled = {} /\ lost = {}

Lose(events) == lost' = lost \cup events

(* FinishFile() and StartFile() of a file with this many events.  The      *)
(* temporary file is opened to update it: when rename() has failed the     *)
(* events are still there.                                                 *)
FinishAndStartFile(filled) == entries' \in {0, filled} /\ begunWith' = entries'

Of(b, seq) == {<<b, k>> : k \in ToSet(seq)}

-----------------------------------------------------------------------------
(* Trigger times.                                                          *)

(* GetTTTNanoseconds(): the low 31 bits of the tag and the number of       *)
(* rollovers.  SetEvent() counts a rollover when the tag is less than      *)
(* previousTTT, which is 0 and is stored only then: the number stays what  *)
(* the pages of a new Queue hold, 0.                                       *)
TTT(b, k) == (triggers[k].time + b * Skew) % Rollover

Distance(x, y) == IF x < y THEN y - x ELSE x - y

(* Mutant: the window includes its end. *)
MatchesAtEnd(b, k, j) == Distance(TTT(b, k), TTT(Other(b), j)) <= MatchingTTTRequirement

Matches(b, k, j) == Distance(TTT(b, k), TTT(Other(b), j)) < MatchingTTTRequirement

-----------------------------------------------------------------------------
(* The boards and the reader.                                              *)

LastTime ==
  IF triggers # <<>> /\ Last(triggers).run = run THEN Last(triggers).time ELSE 0

(* A trigger is seen by the boards that are not busy. *)
Trigger ==
  /\ Len(triggers) < MaxTriggers
  /\ \E gap \in Gaps :
       triggers' = Append(triggers, [run |-> run, time |-> LastTime + gap])
  /\ \E seen \in SUBSET {b \in Boards : Len(board[b]) < BoardMemory} :
       /\ seen # {}
       /\ board' = [b \in Boards |-> IF b \in seen THEN Append(board[b], Len(triggers'))
                                     ELSE board[b]]
  /\ UNCHANGED <<run, cfg, queue, old, writer, outcome>>

Waiting(b, k) == k \in ToSet(queue[b] \o BoardEvents[b])

(* The events that wait now have reached maxQueueTime. *)
Tick ==
  /\ old' = {e \in Boards \X Triggers : Waiting(e[1], e[2])}
  /\ UNCHANGED <<acquisition, queue, writer, outcome>>

(* DAQ::Read() pushes an event, which SetEvent() stamps with the time. *)
ReaderPush(b) ==
  /\ board[b] # <<>> /\ Len(queue[b]) < QueueCapacity
  /\ queue' = [queue EXCEPT ![b] = Append(@, Head(board[b]))]
  /\ board' = [board EXCEPT ![b] = Tail(@)]
  /\ UNCHANGED <<run, cfg, triggers, old, writer, outcome>>

(* The queue is full: the rest of the buffer that was read is dropped. *)
ReaderDrops(b) ==
  /\ Len(queue[b]) >= QueueCapacity
  /\ \E n \in 1..Len(board[b]) :
       /\ Lose(Of(b, SubSeq(board[b], 1, n)))
       /\ board' = [board EXCEPT ![b] = SubSeq(@, n + 1, Len(@))]
  /\ UNCHANGED <<run, cfg, triggers, queue, old, writer, handled>>

(* After a run's last flush a new run starts: the boards and their clocks  *)
(* are reset, the queues are not.                                          *)
NewRun ==
  /\ at = "idle" /\ run < MaxRuns
  /\ run' = run + 1 /\ cfg' \in Configurations
  /\ board' = Empty
  /\ Lose(UNION {Of(b, board[b]) : b \in Boards})
  /\ BoardEvents' = Empty /\ FinishAndStartFile(entries)
  /\ UNCHANGED <<triggers, queue, old, at, i, CurrentEvent, handled>>

-----------------------------------------------------------------------------
(* FlushQueuesToDisk(): pulling.                                           *)

(* Work goes on with the next board, or after the last one with what then  *)
(* follows.                                                                *)
NextBoard(here, then) ==
  IF i = 1 THEN i' = 0 /\ at' = then ELSE i' = i + 1 /\ at' = here

StartFlush ==
  /\ at = "idle" /\ at' = "pull"
  /\ BoardEvents' = Empty
  /\ UNCHANGED <<acquisition, queue, old, i, CurrentEvent, file, outcome>>

(* The reader may push between two pulls. *)
Pull ==
  /\ at = "pull" /\ queue[i] # <<>>
  /\ BoardEvents' = [BoardEvents EXCEPT ![i] = Append(@, Head(queue[i]))]
  /\ queue' = [queue EXCEPT ![i] = Tail(@)]
  /\ UNCHANGED <<acquisition, old, at, i, CurrentEvent, file, outcome>>

PullDone ==
  /\ at = "pull" /\ queue[i] = <<>>
  /\ NextBoard("pull", "match")
  /\ UNCHANGED <<acquisition, queue, old, BoardEvents, CurrentEvent, file, outcome>>

-----------------------------------------------------------------------------
(* FlushQueuesToDisk(): matching.                                          *)

FrontEvent == Head(BoardEvents[i])

(* Mutant: the search starts at the other board's second event. *)
FirstMatchButOne ==
  LET found == {n \in 2..Len(BoardEvents[Other(i)]) :
                  Matches(i, FrontEvent, BoardEvents[Other(i)][n])}
  IN  IF found = {} THEN 0 ELSE Min(found)

(* The place of the first of the other board's events that matches the     *)
(* front event of this one, 0 when there is none.                          *)
FirstMatch ==
  LET found == {n \in 1..Len(BoardEvents[Other(i)]) :
                  Matches(i, FrontEvent, BoardEvents[Other(i)][n])}
  IN  IF found = {} THEN 0 ELSE Min(found)

Matching == at = "match" /\ BoardEvents[i] # <<>>

(* Mutant: the event of the other board stays in BoardEvents. *)
MatchWithoutErase ==
  /\ Matching /\ FirstMatch # 0
  /\ CurrentEvent' = [b \in Boards |->
       IF b = i THEN FrontEvent ELSE BoardEvents[b][FirstMatch]]
  /\ BoardEvents' = [BoardEvents EXCEPT ![i] = Tail(@)]
  /\ at' = "filter"
  /\ UNCHANGED <<acquisition, queue, old, i, file, outcome>>

Match ==
  /\ Matching /\ FirstMatch # 0
  /\ CurrentEvent' = [b \in Boards |->
       IF b = i THEN FrontEvent ELSE BoardEvents[b][FirstMatch]]
  /\ BoardEvents' = [b \in Boards |->
       RemoveAt(BoardEvents[b], IF b = i THEN 1 ELSE FirstMatch)]
  /\ at' = "filter"
  /\ UNCHANGED <<acquisition, queue, old, i, file, outcome>>

(* Mutant: an event is put back whatever its age. *)
PutBackAlways ==
  /\ Matching /\ FirstMatch = 0
  /\ IF Len(queue[i]) < QueueCapacity
       THEN queue' = [queue EXCEPT ![i] = Append(@, FrontEvent)] /\ UNCHANGED lost
       ELSE Lose({<<i, FrontEvent>>}) /\ UNCHANGED queue
  /\ BoardEvents' = [BoardEvents EXCEPT ![i] = Tail(@)]
  /\ CurrentEvent' = NoEvent
  /\ UNCHANGED <<acquisition, old, at, i, file, handled>>

(* A young event waits for its partner on the queue.  The result of push() *)
(* is not looked at.                                                       *)
PutBack ==
  /\ Matching /\ FirstMatch = 0 /\ <<i, FrontEvent>> \notin old
  /\ IF Len(queue[i]) < QueueCapacity
       THEN queue' = [queue EXCEPT ![i] = Append(@, FrontEvent)] /\ UNCHANGED lost
       ELSE Lose({<<i, FrontEvent>>}) /\ UNCHANGED queue
  /\ BoardEvents' = [BoardEvents EXCEPT ![i] = Tail(@)]
  /\ CurrentEvent' = NoEvent
  /\ UNCHANGED <<acquisition, old, at, i, file, handled>>

(* An old event is recorded without its partner. *)
TakeIncomplete ==
  /\ Matching /\ FirstMatch = 0 /\ <<i, FrontEvent>> \in old
  /\ CurrentEvent' = [NoEvent EXCEPT ![i] = FrontEvent]
  /\ BoardEvents' = [BoardEvents EXCEPT ![i] = Tail(@)]
  /\ at' = "filter"
  /\ UNCHANGED <<acquisition, queue, old, i, file, outcome>>

BoardDone ==
  /\ at = "match" /\ BoardEvents[i] = <<>>
  /\ NextBoard("match", "idle")
  /\ UNCHANGED <<acquisition, queue, old, BoardEvents, CurrentEvent, file, outcome>>

-----------------------------------------------------------------------------
(* FlushQueuesToDisk(): filtering and recording.                           *)

(* What the event's pulses make of each filter is open. *)
PassHLT == IF cfg.HLTEnabled THEN BOOLEAN ELSE {TRUE}
PassCosmicPrescale == IF cfg.CosmicPrescaleEnabled THEN BOOLEAN ELSE {TRUE}

Reject ==
  /\ at = "filter" /\ at' = "match"
  /\ \E firesHLT \in PassHLT, firesCosmic \in PassCosmicPrescale :
       ~firesHLT /\ ~firesCosmic
  /\ handled' = handled \cup {CurrentEvent}
  /\ CurrentEvent' = NoEvent
  /\ UNCHANGED <<acquisition, queue, old, BoardEvents, i, file, lost>>

(* RotateFile(): StartFile() clears BoardEvents, and the search goes on    *)
(* with the next board.                                                    *)
Rotate ==
  /\ FinishAndStartFile(entries + 1)
  /\ Lose(UNION {Of(b, BoardEvents[b]) : b \in Boards})
  /\ BoardEvents' = Empty
  /\ NextBoard("match", "idle")

(* Mutant: a full file is not rotated. *)
RecordWithoutRotation ==
  /\ at = "filter" /\ at' = "match"
  /\ handled' = handled \cup {CurrentEvent}
  /\ CurrentEvent' = NoEvent
  /\ entries' = entries + 1
  /\ UNCHANGED <<acquisition, queue, old, BoardEvents, i, begunWith, lost>>

Record ==
  /\ at = "filter"
  /\ \E firesHLT \in PassHLT, firesCosmic \in PassCosmicPrescale :
       firesHLT \/ firesCosmic
  /\ handled' = handled \cup {CurrentEvent}
  /\ CurrentEvent' = NoEvent
  /\ IF entries + 1 >= MaxNumberEventsPerFile
       THEN Rotate
       ELSE /\ entries' = entries + 1 /\ at' = "match"
            /\ UNCHANGED <<BoardEvents, i, begunWith, lost>>
  /\ UNCHANGED <<acquisition, queue, old>>

-----------------------------------------------------------------------------
Flush ==
  \/ StartFlush \/ Pull \/ PullDone
  \/ Match \/ PutBack \/ TakeIncomplete \/ BoardDone
  \/ Reject \/ Record

Next ==
  \/ Trigger \/ Tick \/ NewRun
  \/ \E b \in Boards : ReaderPush(b) \/ ReaderDrops(b)
  \/ Flush

Spec == Init /\ [][Next]_vars

(* The writer calls FlushQueuesToDisk() for ever, and time passes. *)
FairSpec == Spec /\ WF_vars(Flush) /\ WF_vars(Tick)

-----------------------------------------------------------------------------
(* Properties.                                                             *)

GlobalEvents == [Boards -> 0..MaxTriggers]

(* Every variable keeps its type, and no board's queue holds more than its *)
(* pool.  A file that has reached its number of events has just been begun *)
(* with what a failed rename() or a crash left: RotateFile() is tried with *)
(* every event from then on.                                               *)
TypeOK ==
  /\ run \in 1..MaxRuns /\ cfg \in Configurations
  /\ triggers \in Seq([run : 1..MaxRuns, time : Nat])
  /\ Len(triggers) <= MaxTriggers
  /\ board \in [Boards -> Seq(Triggers)]
  /\ queue \in [Boards -> Seq(Triggers)]
  /\ \A b \in Boards : Len(queue[b]) <= QueueCapacity
  /\ old \subseteq Boards \X Triggers
  /\ BoardEvents \in [Boards -> Seq(Triggers)]
  /\ at \in {"idle", "pull", "match", "filter"} /\ i \in Boards
  /\ CurrentEvent \in GlobalEvents
  /\ entries \in Nat /\ begunWith \in Nat
  /\ entries >= MaxNumberEventsPerFile => entries = begunWith
  /\ handled \subseteq GlobalEvents /\ lost \subseteq Boards \X Triggers

(* An event that a board saw is in exactly one place: the board's memory,  *)
(* its queue, BoardEvents, the event in hand, one recorded or filtered     *)
(* event, or among the events lost to a full queue, a rotation or the end  *)
(* of a run.  Matching erases each part from where it took it.             *)
EventsAccounted ==
  /\ \A b \in Boards :
       LET held == board[b] \o queue[b] \o BoardEvents[b] IN
       /\ \A m, n \in 1..Len(held) : held[m] = held[n] => m = n
       /\ \A k \in ToSet(held) :
            /\ CurrentEvent[b] # k /\ <<b, k>> \notin lost
            /\ \A g \in handled : g[b] # k
       /\ CurrentEvent[b] # 0 =>
            /\ <<b, CurrentEvent[b]>> \notin lost
            /\ \A g \in handled : g[b] # CurrentEvent[b]
       /\ \A g, h \in handled : g[b] = h[b] /\ g[b] # 0 => g = h
  /\ \A k \in 1..Len(triggers) : \E b \in Boards :
       \/ k \in ToSet(board[b] \o queue[b] \o BoardEvents[b]) \cup {CurrentEvent[b]}
       \/ \E g \in handled : g[b] = k
       \/ <<b, k>> \in lost

(* Two events that are recorded together come from triggers of one run no  *)
(* further apart than the matching's window and the skew of the clocks:    *)
(* from the same one when triggers are rarer.  The exceptions are triggers *)
(* a rollover apart (the number of rollovers is not counted) and triggers  *)
(* of different runs (the queues keep the last run's events).              *)
Window == MatchingTTTRequirement + Skew

OneTrigger(g) ==
  LET s == triggers[g[0]]
      t == triggers[g[1]]
  IN  \/ s.run # t.run
      \/ Distance(s.time, t.time) < Window
      \/ Distance(s.time, t.time) > Rollover - Window

PairsAreOneTrigger ==
  \A g \in handled \cup {CurrentEvent} :
    g[0] # 0 /\ g[1] # 0 => OneTrigger(g)

(* An event is only recorded without its partner when the partner was not  *)
(* pulled in the same flush, or the trigger came while one of the two      *)
(* clocks had rolled over and the other had not.                           *)
NoPartnerMissed ==
  at = "filter" /\ CurrentEvent[Other(i)] = 0 =>
    LET k == CurrentEvent[i] IN
    \/ k \notin ToSet(BoardEvents[Other(i)])
    \/ TTT(0, k) > TTT(1, k)

(* No event stays on the queues: one that finds no partner is recorded     *)
(* when it is old, however often it was put back.                          *)
EventsLeaveQueues ==
  \A b \in Boards, k \in Triggers : Waiting(b, k) ~> ~Waiting(b, k)

=============================================================================

------------------------------- MODULE Readout -------------------------------
(* mdaq::DAQ (src/DAQ.cc) as the reader thread uses it: the digitizers are *)
(* opened, initialized from a configuration, started together, read in a   *)
(* loop, stopped, and initialized again or closed.                         *)
(*                                                                         *)
(* Every call of the CAENDigitizer library goes through Try(), which logs  *)
(* a failure and goes on.  An action is one board's share of a method of   *)
(* DAQ: nothing else uses the library in between, but the boards may be    *)
(* triggered between two actions.                                          *)
EXTENDS Integers, Sequences, FiniteSets

CONSTANTS
  nDigitizers,
  Configs,
  TriggerType,     (* TriggerType[c][b]: the TriggerType of board b            *)
  MaxNumEventsBLT,
  MaxTriggers, MaxRuns, MaxFailures            (* bounds                       *)

Boards == 0..(nDigitizers - 1)
Master == 0

(* What InitializeBoard() programs: the channels and groups, the trigger,  *)
(* the readout and its interrupt.                                          *)
Settings == {"channels", "trigger", "readout"}

TriggerTypeNames ==
  {"soft", "normal", "auto", "extern", "externAndNormal", "externOrNormal", "none"}

ASSUME ReadoutAssumption ==
  /\ nDigitizers \in Nat \ {0}
  /\ TriggerType \in [Configs -> [Boards -> TriggerTypeNames]]
  /\ MaxNumEventsBLT \in Nat \ {0}
  /\ MaxTriggers \in Nat /\ MaxRuns \in Nat /\ MaxFailures \in Nat
  /\ Configs \cap {"reset", "partly"} = {}

VARIABLES
  at, board,       (* the loop the reader is in, and its board                 *)
  quitting,        (* the reader is on its way out                             *)
  iEvt, dataRead,  (* locals of Read()                                         *)
  cfg,             (* the configuration that was read last                     *)
  TriggerTypes, triggerAnyBoardSW,
  open,            (* boards with a handle                                     *)
  applied,         (* the configuration each setting of a board is from        *)
  startMode,       (* whether a board starts by itself or with the master      *)
  armed,           (* boards that were told to start                           *)
  memory,          (* the events in each board                                 *)
  triggers, began, (* the number of the last trigger, and of the last before   *)
                   (* StartRun()                                               *)
  ReadoutBuffers,  (* boards that have a buffer                                *)
  buffer,          (* the events that are found in the buffer                  *)
  CurrentEvents,   (* boards that have an event to decode into                 *)
  pushed,          (* the events each board's queue was given                  *)
  givenUp,         (* events that were read or triggered, and dropped          *)
  faults,          (* the calls that failed in this run, and on which board    *)
  failures, runs

method == <<at, board, quitting, iEvt, dataRead>>
software == <<cfg, TriggerTypes, triggerAnyBoardSW>>
control == <<open, applied, startMode, armed>>
data == <<memory, triggers, began>>
buffers == <<ReadoutBuffers, buffer, CurrentEvents>>
outcome == <<pushed, givenUp>>
vars == <<method, software, control, data, buffers, outcome, faults, failures, runs>>

Fresh == [s \in Settings |-> "reset"]

Init ==
  /\ at = "connect" /\ board = 0 /\ quitting = FALSE /\ iEvt = 1 /\ dataRead = FALSE
  /\ cfg \in Configs
  /\ TriggerTypes = [b \in Boards |-> "none"] /\ triggerAnyBoardSW = FALSE
  /\ open = {}
  /\ applied = [b \in Boards |-> Fresh]
  /\ startMode = [b \in Boards |-> "software"]
  /\ armed = {} /\ memory = [b \in Boards |-> <<>>] /\ triggers = 0
  /\ began = 0
  /\ ReadoutBuffers = {} /\ buffer = [b \in Boards |-> <<>>] /\ CurrentEvents = {}
  /\ pushed = [b \in Boards |-> <<>>] /\ givenUp = [b \in Boards |-> {}]
  /\ faults = {} /\ failures = 0 /\ runs = 0

-----------------------------------------------------------------------------
(* Library calls.                                                          *)

(* The outcome ok of a call on board b: it may fail, and fails for certain *)
(* without what it needs.  The caller goes on in both cases.               *)
Try(call, b, able, ok) ==
  \/ ok = able /\ UNCHANGED <<faults, failures>>
  \/ /\ able /\ ~ok /\ failures < MaxFailures
     /\ failures' = failures + 1
     /\ faults' = faults \cup {<<call, b>>}

Faulty(b, calls) == \E c \in calls : <<c, b>> \in faults

(* Mutant: the loop goes one board too far. *)
LoopOneTooFar(next) ==
  IF board < nDigitizers
    THEN board' = board + 1 /\ UNCHANGED at
    ELSE board' = 0 /\ at' = next

(* The end of an iteration of a loop over the digitizers. *)
Loop(next) ==
  IF board + 1 < nDigitizers
    THEN board' = board + 1 /\ UNCHANGED at
    ELSE board' = 0 /\ at' = next

With(set, b, ok) == IF ok THEN set \cup {b} ELSE set
Without(set, b, ok) == IF ok THEN set \ {b} ELSE set

Events(seq) == {seq[n] : n \in 1..Len(seq)}

GiveUp(b, events) == givenUp' = [givenUp EXCEPT ![b] = @ \cup events]

-----------------------------------------------------------------------------
(* The boards.                                                             *)

(* A slave that is to start with the LVDS signal runs when the master does.*)
Running(b) == b \in armed /\ (startMode[b] = "lvds" => Master \in armed)

RecordTrigger ==
  /\ triggers' = triggers + 1
  /\ memory' = [b \in Boards |-> IF Running(b) THEN Append(memory[b], triggers + 1)
                                 ELSE memory[b]]
  /\ UNCHANGED began

Trigger ==
  /\ triggers < MaxTriggers /\ \E b \in Boards : Running(b)
  /\ RecordTrigger
  /\ UNCHANGED <<method, software, control, buffers, outcome, faults, failures, runs>>

-----------------------------------------------------------------------------
(* Connecting and configuring.                                             *)

(* Require() ends the program. *)
ConnectToBoard ==
  /\ at = "connect"
  /\ \E ok \in BOOLEAN :
       /\ Try("OpenDigitizer", board, TRUE, ok)
       /\ open' = With(open, board, ok)
       /\ IF ok THEN Loop("configured") ELSE at' = "exit" /\ UNCHANGED board
  /\ UNCHANGED <<quitting, iEvt, dataRead, software, applied, startMode, armed, data,
                 buffers, outcome, runs>>

(* A start or a reconfigure: the configuration stays as it is when none is *)
(* read or the file is no good.                                            *)
ReadConfiguration ==
  /\ at = "stopped" /\ runs < MaxRuns
  /\ at' = "configured"
  /\ cfg' \in Configs
  /\ UNCHANGED <<board, quitting, iEvt, dataRead, TriggerTypes, triggerAnyBoardSW,
                 control, data, buffers, outcome, faults, failures, runs>>

(* Mutant: the flag is not reset. *)
InitializeBoardsKeepingFlag ==
  /\ at = "configured" /\ at' = "initialize"
  /\ faults' = {}
  /\ UNCHANGED <<board, quitting, iEvt, dataRead, cfg, TriggerTypes,
                 triggerAnyBoardSW, control, data, buffers, outcome, failures, runs>>

InitializeBoards ==
  /\ at = "configured" /\ at' = "initialize"
  /\ triggerAnyBoardSW' = FALSE
  /\ faults' = {}
  /\ UNCHANGED <<board, quitting, iEvt, dataRead, cfg, TriggerTypes, control, data,
                 buffers, outcome, failures, runs>>

(* The type is taken over before the calls, so it is set if they fail.     *)
SetTriggerSource ==
  /\ TriggerTypes' = [TriggerTypes EXCEPT ![board] = TriggerType[cfg][board]]
  /\ triggerAnyBoardSW' = (triggerAnyBoardSW \/ TriggerType[cfg][board] = "soft")

ClearData ==
  /\ GiveUp(board, Events(memory[board]))
  /\ memory' = [memory EXCEPT ![board] = <<>>]

(* CAEN_DGTZ_Reset() *)
Reset == armed' = armed \ {board} /\ ClearData

(* The rest of InitializeBoard().  A setting is from cfg unless one of the *)
(* calls that program it failed; SetAcquisitionMode() goes to every board. *)
Configure(failed) ==
  /\ applied' = [applied EXCEPT ![board] =
       [s \in Settings |-> IF s \in failed THEN "partly" ELSE cfg]]
  /\ startMode' = [b \in Boards |-> "software"]
  /\ SetTriggerSource

(* BoardFailStatus() ends the method, also when the register could not be  *)
(* read and what it looks at was never set.                                *)
LeaveUnconfigured(failed) ==
  /\ IF "Reset" \in failed
       THEN UNCHANGED <<applied, startMode>>
       ELSE /\ applied' = [applied EXCEPT ![board] = Fresh]
            /\ startMode' = [startMode EXCEPT ![board] = "software"]
  /\ UNCHANGED <<TriggerTypes, triggerAnyBoardSW>>

InitializeBoard ==
  /\ at = "initialize"
  /\ \E failed \in SUBSET (Settings \cup {"Reset", "BoardFailStatus"}) :
       /\ failures + Cardinality(failed) <= MaxFailures
       /\ failures' = failures + Cardinality(failed)
       /\ faults' = faults \cup {<<call, board>> : call \in failed}
       /\ IF "Reset" \in failed THEN UNCHANGED <<armed, memory, givenUp>> ELSE Reset
       /\ IF "BoardFailStatus" \in failed THEN LeaveUnconfigured(failed)
                                          ELSE Configure(failed)
  /\ Loop("malloc")
  /\ UNCHANGED <<quitting, iEvt, dataRead, cfg, open, triggers, began,
                 buffers, pushed, runs>>

(* The size of the previous buffer is kept, and the memory may be the same.*)
MallocReadoutBuffer ==
  /\ at = "malloc"
  /\ \E ok \in BOOLEAN :
       /\ Try("MallocReadoutBuffer", board, TRUE, ok)
       /\ ReadoutBuffers' = With(ReadoutBuffers, board, ok)
  /\ \E found \in {buffer[board], <<>>} : buffer' = [buffer EXCEPT ![board] = found]
  /\ Loop("synchronize")
  /\ UNCHANGED <<quitting, iEvt, dataRead, software, control, data, CurrentEvents,
                 outcome, runs>>

-----------------------------------------------------------------------------
(* StartRun().                                                             *)

(* The master starts by command, the slaves with the master's LVDS signal. *)
ProgramSynchronization ==
  /\ at = "synchronize"
  /\ \E ok \in BOOLEAN :
       /\ Try("ProgramSynchronization", board, TRUE, ok)
       /\ startMode' = [startMode EXCEPT ![board] =
            IF ~ok THEN @ ELSE IF board = Master THEN "software" ELSE "lvds"]
  /\ began' = IF board = Master THEN triggers ELSE began
  /\ Loop("allocate")
  /\ UNCHANGED <<quitting, iEvt, dataRead, software, open, applied, armed, memory,
                 triggers, buffers, outcome, runs>>

AllocateEvent ==
  /\ at = "allocate"
  /\ \E ok \in BOOLEAN :
       /\ Try("AllocateEvent", board, TRUE, ok)
       /\ CurrentEvents' = With(CurrentEvents, board, ok)
  /\ Loop("start")
  /\ UNCHANGED <<quitting, iEvt, dataRead, software, control, data, ReadoutBuffers,
                 buffer, outcome, runs>>

(* Mutant: the master is started first. *)
StartAcquisitionInOrder ==
  /\ at = "start"
  /\ \E ok \in BOOLEAN :
       /\ Try("SWStartAcquisition", board, TRUE, ok)
       /\ armed' = With(armed, board, ok)
  /\ Loop("running")
  /\ runs' = runs + 1
  /\ UNCHANGED <<quitting, iEvt, dataRead, software, open, applied, startMode, data,
                 buffers, outcome>>

(* The slaves are started in their order, and then the master. *)
StartAcquisition ==
  LET b == IF board + 1 < nDigitizers THEN board + 1 ELSE Master IN
  /\ at = "start"
  /\ \E ok \in BOOLEAN :
       /\ Try("SWStartAcquisition", b, TRUE, ok)
       /\ armed' = With(armed, b, ok)
  /\ Loop("running")
  /\ runs' = IF b = Master THEN runs + 1 ELSE runs
  /\ UNCHANGED <<quitting, iEvt, dataRead, software, open, applied, startMode, data,
                 buffers, outcome>>

-----------------------------------------------------------------------------
(* The reader's loop: SendSWTriggers() and Read().                         *)

(* The first board with a type that takes software triggers. *)
SoftBoards == {b \in Boards : TriggerTypes[b] \in {"soft", "auto"}}
SoftBoard == CHOOSE b \in SoftBoards : \A c \in SoftBoards : b <= c

SendSWTriggers ==
  /\ at = "running" /\ at' = "read" /\ dataRead' = FALSE
  /\ IF triggerAnyBoardSW /\ SoftBoards # {}
       THEN \E ok \in BOOLEAN :
              /\ Try("SendSWtrigger", SoftBoard, TRUE, ok)
              /\ IF ok /\ Running(SoftBoard) /\ triggers < MaxTriggers
                   THEN RecordTrigger ELSE UNCHANGED data
       ELSE UNCHANGED <<data, faults, failures>>
  /\ UNCHANGED <<board, quitting, iEvt, software, control, buffers, outcome, runs>>

(* Mutant: the buffers are decoded only when every board had data. *)
ReadEventBufferOfAll ==
  LET seen == memory[board]
      n    == IF Len(seen) < MaxNumEventsBLT THEN Len(seen) ELSE MaxNumEventsBLT
  IN
  /\ at = "read" /\ board \in ReadoutBuffers
  /\ buffer' = [buffer EXCEPT ![board] = SubSeq(seen, 1, n)]
  /\ memory' = [memory EXCEPT ![board] = SubSeq(seen, n + 1, Len(seen))]
  /\ dataRead' = ((board = 0 \/ dataRead) /\ n > 0)
  /\ iEvt' = 1
  /\ Loop(IF dataRead' THEN "decode" ELSE "running")
  /\ UNCHANGED <<quitting, software, control, triggers, began, ReadoutBuffers,
                 CurrentEvents, outcome, faults, failures, runs>>

(* Mutant: only a read that finds something overwrites the buffer. *)
ReadEventBufferIfAny ==
  LET seen == memory[board]
      n    == IF Len(seen) < MaxNumEventsBLT THEN Len(seen) ELSE MaxNumEventsBLT
  IN
  /\ at = "read" /\ board \in ReadoutBuffers
  /\ buffer' = [buffer EXCEPT ![board] = IF n = 0 THEN @ ELSE SubSeq(seen, 1, n)]
  /\ memory' = [memory EXCEPT ![board] = SubSeq(seen, n + 1, Len(seen))]
  /\ dataRead' = (dataRead \/ n > 0)
  /\ iEvt' = 1
  /\ Loop(IF dataRead' THEN "decode" ELSE "running")
  /\ UNCHANGED <<quitting, software, control, triggers, began, ReadoutBuffers,
                 CurrentEvents, outcome, faults, failures, runs>>

(* ReadEventBuffer(): the call overwrites the buffer.  One that fails may  *)
(* leave the size of the previous buffer.  The interrupt that is waited    *)
(* for first may time out, and the boards are read all the same.           *)
ReadEventBuffer ==
  LET seen == memory[board]
      n    == IF Len(seen) < MaxNumEventsBLT THEN Len(seen) ELSE MaxNumEventsBLT
  IN
  /\ at = "read"
  /\ \E ok \in BOOLEAN :
       /\ Try("ReadData", board, board \in ReadoutBuffers, ok)
       /\ IF ok
            THEN /\ buffer' = [buffer EXCEPT ![board] = SubSeq(seen, 1, n)]
                 /\ memory' = [memory EXCEPT ![board] = SubSeq(seen, n + 1, Len(seen))]
                 /\ dataRead' = (dataRead \/ n > 0)
            ELSE /\ \E found \in {buffer[board], <<>>} :
                      buffer' = [buffer EXCEPT ![board] = found]
                 /\ UNCHANGED <<memory, dataRead>>
  /\ iEvt' = 1
  /\ Loop(IF dataRead' THEN "decode" ELSE "running")
  /\ UNCHANGED <<quitting, software, control, triggers, began, ReadoutBuffers,
                 CurrentEvents, outcome, runs>>

(* What GetNumberOfEvents() finds; without a buffer the call fails. *)
Found == IF board \in ReadoutBuffers THEN buffer[board] ELSE <<>>

Decoding == at = "decode" /\ iEvt <= Len(Found)

DecodeEvent ==
  /\ Decoding
  /\ Try("DecodeEvent", board, board \in CurrentEvents, TRUE)
  /\ pushed' = [pushed EXCEPT ![board] = Append(@, Found[iEvt])]
  /\ iEvt' = iEvt + 1
  /\ UNCHANGED <<at, board, quitting, dataRead, software, control, data, buffers,
                 givenUp, runs>>

(* The rest of the buffer is skipped when an event cannot be decoded or    *)
(* the queue is full.                                                      *)
SkipBuffer ==
  /\ Decoding
  /\ \E ok \in BOOLEAN : Try("DecodeEvent", board, board \in CurrentEvents, ok)
  /\ GiveUp(board, Events(SubSeq(Found, iEvt, Len(Found))))
  /\ iEvt' = 1
  /\ Loop("running")
  /\ UNCHANGED <<quitting, dataRead, software, control, data, buffers, pushed, runs>>

BufferDone ==
  /\ at = "decode" /\ iEvt > Len(Found)
  /\ iEvt' = 1
  /\ Loop("running")
  /\ UNCHANGED <<quitting, dataRead, software, control, data, buffers, outcome, faults,
                 failures, runs>>

-----------------------------------------------------------------------------
(* StopRun() and CloseDevices().                                           *)

(* A stop, or the end of the program, which stops a stopped run again. *)
Stop(quit) ==
  /\ at = "running" \/ (at = "stopped" /\ quit)
  /\ at' = "stop" /\ quitting' = quit
  /\ UNCHANGED <<board, iEvt, dataRead, software, control, data, buffers, outcome,
                 faults, failures, runs>>

(* SWStopAcquisition() and ClearData() of one board. *)
StopAcquisition ==
  /\ at = "stop"
  /\ \E failed \in SUBSET {"SWStopAcquisition", "ClearData"} :
       /\ failures + Cardinality(failed) <= MaxFailures
       /\ failures' = failures + Cardinality(failed)
       /\ faults' = faults \cup {<<call, board>> : call \in failed}
       /\ armed' = Without(armed, board, "SWStopAcquisition" \notin failed)
       /\ IF "ClearData" \in failed THEN UNCHANGED <<memory, givenUp>> ELSE ClearData
  /\ Loop("freeEvent")
  /\ UNCHANGED <<quitting, iEvt, dataRead, software, open, applied, startMode, triggers,
                 began, buffers, pushed, runs>>

FreeEvent ==
  /\ at = "freeEvent"
  /\ \E ok \in BOOLEAN :
       /\ Try("FreeEvent", board, board \in CurrentEvents, ok)
       /\ CurrentEvents' = Without(CurrentEvents, board, ok)
  /\ Loop("freeBuffer")
  /\ UNCHANGED <<quitting, iEvt, dataRead, software, control, data, ReadoutBuffers,
                 buffer, outcome, runs>>

(* Mutant: the readout buffers are kept. *)
FreeNoReadoutBuffer ==
  /\ at = "freeBuffer"
  /\ Loop(IF quitting THEN "close" ELSE "stopped")
  /\ UNCHANGED <<quitting, iEvt, dataRead, software, control, data, buffers, outcome,
                 faults, failures, runs>>

FreeReadoutBuffer ==
  /\ at = "freeBuffer"
  /\ \E ok \in BOOLEAN :
       /\ Try("FreeReadoutBuffer", board, board \in ReadoutBuffers, ok)
       /\ ReadoutBuffers' = Without(ReadoutBuffers, board, ok)
  /\ Loop(IF quitting THEN "close" ELSE "stopped")
  /\ UNCHANGED <<quitting, iEvt, dataRead, software, control, data, buffer,
                 CurrentEvents, outcome, runs>>

CloseDigitizer ==
  /\ at = "close"
  /\ \E ok \in BOOLEAN :
       /\ Try("CloseDigitizer", board, TRUE, ok)
       /\ open' = Without(open, board, ok)
  /\ Loop("closed")
  /\ UNCHANGED <<quitting, iEvt, dataRead, software, applied, startMode, armed, data,
                 buffers, outcome, runs>>

-----------------------------------------------------------------------------

ConfigurationStep == ConnectToBoard \/ InitializeBoards \/ InitializeBoard \/ MallocReadoutBuffer

StartStep == ProgramSynchronization \/ AllocateEvent \/ StartAcquisition

ReadStep ==
  \/ SendSWTriggers
  \/ ReadEventBuffer
  \/ DecodeEvent \/ SkipBuffer \/ BufferDone

StopStep == StopAcquisition \/ FreeEvent \/ FreeReadoutBuffer \/ CloseDigitizer

(* What the reader does without being told to. *)
Reader == ConfigurationStep \/ StartStep \/ ReadStep \/ StopStep

Next ==
  \/ Reader
  \/ Trigger
  \/ ReadConfiguration
  \/ \E quit \in BOOLEAN : Stop(quit)

Spec == Init /\ [][Next]_vars

(* The reader's loop never waits; triggers and commands need not come. *)
FairSpec == Spec /\ WF_vars(Reader)

-----------------------------------------------------------------------------
(* Properties.                                                             *)

Places ==
  {"connect", "configured", "initialize", "malloc", "synchronize", "allocate", "start",
   "running", "read", "decode", "stop", "freeEvent", "freeBuffer", "stopped", "close",
   "closed", "exit"}

EventSeqs == Seq(1..MaxTriggers)

(* Every variable keeps its type. *)
MethodOK ==
  /\ at \in Places /\ board \in Boards /\ quitting \in BOOLEAN
  /\ iEvt \in Nat \ {0} /\ dataRead \in BOOLEAN

SoftwareOK ==
  /\ cfg \in Configs
  /\ TriggerTypes \in [Boards -> TriggerTypeNames] /\ triggerAnyBoardSW \in BOOLEAN

ControlOK ==
  /\ open \subseteq Boards
  /\ applied \in [Boards -> [Settings -> Configs \cup {"reset", "partly"}]]
  /\ startMode \in [Boards -> {"software", "lvds"}]
  /\ armed \subseteq Boards

DataOK ==
  /\ memory \in [Boards -> EventSeqs]
  /\ triggers \in 0..MaxTriggers /\ began \in 0..triggers

BuffersOK ==
  /\ ReadoutBuffers \subseteq Boards /\ buffer \in [Boards -> EventSeqs]
  /\ CurrentEvents \subseteq Boards

OutcomeOK ==
  /\ pushed \in [Boards -> EventSeqs]
  /\ givenUp \in [Boards -> SUBSET (1..MaxTriggers)]

TypeOK ==
  /\ MethodOK /\ SoftwareOK /\ ControlOK /\ DataOK /\ BuffersOK /\ OutcomeOK
  /\ failures \in 0..MaxFailures /\ runs \in Nat

(* From StartRun() to the end of StopRun() a trigger is recorded by every  *)
(* board or by none, so that the boards' events can be matched: the slaves *)
(* are armed before the master starts them all, and the master stops first.*)
RecordedTogether ==
  [][triggers' > triggers /\ faults = {}
       /\ at \in {"synchronize", "allocate", "start", "running", "read", "decode", "stop"}
     => \A b \in Boards : \E n \in DOMAIN memory'[b] : memory'[b][n] = triggers']_vars

(* A board's queue is given each event at most once, in the order of the   *)
(* triggers, and none of an earlier run, though a buffer that was decoded  *)
(* is decoded again when the next read fails: only such a read, or a board *)
(* that could not be reset, can break it.                                  *)
PushesAreNew ==
  [][\A b \in Boards : pushed'[b] # pushed[b] /\ ~Faulty(b, {"ReadData", "Reset"}) =>
       LET new == pushed'[b][Len(pushed'[b])]
       IN  new > began /\ \A n \in Events(pushed[b]) : n < new]_vars

(* Buffers and decoded events are there whenever the loop uses them, and   *)
(* freed before they can be allocated again, except where the call failed. *)
BuffersFollowRun ==
  /\ at \in {"running", "read", "decode"} =>
       \A b \in Boards :
         /\ b \in ReadoutBuffers \/ Faulty(b, {"MallocReadoutBuffer"})
         /\ b \in CurrentEvents \/ Faulty(b, {"AllocateEvent"})
  /\ at \in {"stopped", "close", "closed"} =>
       \A b \in Boards :
         /\ b \notin ReadoutBuffers \/ Faulty(b, {"FreeReadoutBuffer"})
         /\ b \notin CurrentEvents \/ Faulty(b, {"FreeEvent"})

(* While boards are read they run under the configuration that was read    *)
(* last, nothing of an earlier one is left, and software triggers are sent *)
(* only if it asks for them, whatever was configured, stopped or failed    *)
(* before: an InitializeBoard() that gives up is the only exception.       *)
RunsAsConfigured ==
  at \in {"running", "read", "decode"} =>
    /\ \A b \in Boards :
         \/ Faulty(b, Settings \cup {"BoardFailStatus"})
         \/ /\ \A s \in Settings : applied[b][s] = cfg
            /\ TriggerTypes[b] = TriggerType[cfg][b]
    /\ triggerAnyBoardSW => \E b \in Boards : TriggerType[cfg][b] = "soft"

(* An event a board has recorded while it is read ends on the board's      *)
(* queue or is given up, unless the board has no buffer to read it into.   *)
EventsReadOut ==
  \A b \in Boards : \A n \in 1..MaxTriggers :
    (n \in Events(memory[b]) /\ at \in {"running", "read", "decode"})
      ~> (n \in Events(pushed[b]) \cup givenUp[b] \/ b \notin ReadoutBuffers)

-----------------------------------------------------------------------------
(* The inductive invariant.                                                *)

(* The loop `here` has passed the board b, or the reader is `later`. *)
Past(b, here, later) == at \in later \/ (at = here /\ b < board)

Acquiring == {"running", "read", "decode"}
StartingRun == {"synchronize", "allocate", "start"}

(* Which boards InitializeBoards() has configured. *)
Configured ==
  /\ \A b \in Boards :
       Past(b, "initialize", {"malloc"} \cup StartingRun \cup Acquiring) =>
         \/ Faulty(b, Settings \cup {"BoardFailStatus"})
         \/ /\ \A s \in Settings : applied[b][s] = cfg
            /\ TriggerTypes[b] = TriggerType[cfg][b]
  /\ triggerAnyBoardSW /\ at \in {"initialize", "malloc"} \cup StartingRun \cup Acquiring =>
       \E b \in Boards : TriggerType[cfg][b] = "soft"

(* Which boards have a readout buffer and an event. *)
Allocated ==
  \A b \in Boards :
    /\ Past(b, "malloc", StartingRun \cup Acquiring) =>
         b \in ReadoutBuffers \/ Faulty(b, {"MallocReadoutBuffer"})
    /\ Past(b, "allocate", {"start"} \cup Acquiring) =>
         b \in CurrentEvents \/ Faulty(b, {"AllocateEvent"})
    /\ Past(b, "freeEvent", {"freeBuffer", "stopped", "close", "closed"}) =>
         b \notin CurrentEvents \/ Faulty(b, {"FreeEvent"})
    /\ Past(b, "freeBuffer", {"stopped", "close", "closed"}) =>
         b \notin ReadoutBuffers \/ Faulty(b, {"FreeReadoutBuffer"})

(* Which boards are armed, and start with the master, when no call failed. *)
Armed ==
  faults = {} =>
    /\ at \in {"connect", "configured", "malloc", "synchronize", "allocate", "freeEvent",
               "freeBuffer", "stopped", "close", "closed"} => armed = {}
    /\ at = "initialize" => \A b \in armed : b >= board
    /\ at = "start" => armed = 1..board
    /\ at \in Acquiring => armed = Boards
    /\ at = "stop" => armed = {} \/ armed = {b \in Boards : b >= board}
    /\ \A b \in Boards \ {Master} :
         Past(b, "synchronize", {"allocate", "start", "stop", "freeEvent", "freeBuffer", "stopped"}
                                  \cup Acquiring)
           => startMode[b] = "lvds"

(* Every loop begins with the first board. *)
LoopsBegin == at \in {"configured", "running", "stopped"} => board = 0

(* Where the reader's loops are, what is configured, allocated and armed,  *)
(* whichever calls failed: from it follow the properties about runs.       *)
ReadoutInv == TypeOK /\ LoopsBegin /\ Configured /\ Allocated /\ Armed

=============================================================================

----------------------------- MODULE RunControl -----------------------------
(***************************************************************************)
(* The run control of MilliDAQ.cc: the thread that takes operator commands *)
(* (main), the thread that drives the digitizers (ReadAction) and the      *)
(* thread that writes the data files (WriteAction).  They share the        *)
(* User... flags and the messages of interface/MilliDAQ.h.                 *)
(*                                                                         *)
(* One action stands for the code between two accesses of a flag that      *)
(* another thread writes.  A sleep is no action: a thread may be delayed   *)
(* anywhere.  Whatever runs under theDAQMutex without touching a flag is   *)
(* one action.  Waiting on a condition variable WITH a predicate is a      *)
(* guard on that predicate, since every store that makes it true is made   *)
(* under the mutex and followed by notify_all; restart's wait has no       *)
(* predicate and is modelled by `parked`.                                  *)
(*                                                                         *)
(* The logging flags (UserPrint..., UserPlotDQM, UserPeekFile and          *)
(* UserRestartRun, which only selects a log line) are left out.  Rejected  *)
(* commands change nothing and are no steps.                               *)
(***************************************************************************)
EXTENDS Integers, FiniteSets

CONSTANTS
  Commands,          (* the commands the operator uses                        *)
  Configs,           (* configuration files                                   *)
  PreviousConfig,    (* the one the run list names when the program starts    *)
  NeventsTarget,     (* argument of nEventsStart                              *)
  MaxCommands,       (* bound: accepted commands in a behaviour               *)
  Paced,             (* operator and long sleeps outlast the polls (Settled)  *)
  SpuriousWakeups    (* condition_variable::wait may return on its own        *)

CommandNames ==
  {"quit", "pause", "unpause", "start", "timedStart", "nEventsStart",
   "restart", "stop", "reconfigure", "rotate"}

ASSUME RunControlAssumption ==
  /\ Commands \subseteq CommandNames
  /\ PreviousConfig \in Configs
  /\ NeventsTarget \in Nat \ {0}
  /\ MaxCommands \in Nat
  /\ Paced \in BOOLEAN
  /\ SpuriousWakeups \in BOOLEAN

VARIABLES
  mainAt, readAt, writeAt,      (* where each thread is                       *)
  quit, pause, stop,            (* UserProgramQuit, UserPauseRun, UserStopRun *)
  reconfigure, rotate,          (* UserReconfigureRun, UserRotateFile         *)
  timed, counted,               (* UserTimed/NeventsRunDuration are positive  *)
  ready, isStopped, safeToQuit, (* digitizerReady, digitizerIsStopped, ...    *)
  parked,                       (* main blocks in restart's digitizerHasStopped.wait *)
  configFile,                   (* currentConfigFile                          *)
  daq,                          (* theDAQ: "none", "live" or "deleted"        *)
  daqCfg,                       (* the configuration theDAQ holds             *)
  acquiring,                    (* the boards accept triggers                 *)
  acquisition,                  (* how many times StartRun was called         *)
  pending,                      (* kinds of events in masterQueues            *)
  factory,                      (* "none", "open", "closed" (no output file), "deleted" *)
  factoryCfg,                   (* EventFactory::cfg                          *)
  runNumber,                    (* meta_runNumber, relative to the run list   *)
  nEvents,                      (* nEventsThisRun, saturating                 *)
  recorded,                     (* kinds of events in the output file         *)
  nCommands                     (* commands accepted so far                   *)

threadVars   == <<mainAt, readAt, writeAt>>
userVars     == <<quit, pause, stop, reconfigure, rotate, timed, counted>>
messageVars  == <<ready, isStopped, safeToQuit, parked>>
daqVars      == <<daq, daqCfg, acquiring, acquisition>>
factoryVars  == <<factory, factoryCfg, runNumber, nEvents, recorded>>
vars == <<threadVars, userVars, messageVars, configFile, daqVars, pending,
          factoryVars, nCommands>>

(* An event is told apart by the acquisition that triggered it and the     *)
(* configuration the boards then had.                                      *)
Event == [acq : Nat, cfg : Configs]

-----------------------------------------------------------------------------
(* Timing.  With Paced the operator issues a command only after both       *)
(* worker threads have polled the flags (50 ms to 1 s); the 3 s sleeps of  *)
(* "reconfigure" and of the reader's start are long enough for the other   *)
(* threads' polls too, and so is the duration of a timed run.              *)

ReaderRunning == {"top", "timer", "pauseLoop", "stopCheck"}
WriterRunning == {"flush", "countCheck", "rotateCheck", "pauseLoop", "stopCheck"}

AwaitingReady == {"awaitReady", "reconfigureReady"}

Stopped == readAt = "stopLoop" /\ writeAt = "stopLoop"

Settled ==
  \/ stop /\ Stopped
  \/ /\ ~stop
     /\ IF pause THEN readAt = "pauseLoop" /\ writeAt = "pauseLoop"
                 ELSE readAt \in ReaderRunning /\ writeAt \in WriterRunning

-----------------------------------------------------------------------------
Init ==
  /\ mainAt = "boot" /\ readAt = "boot" /\ writeAt = "boot"
  /\ quit = FALSE /\ pause = FALSE /\ stop = FALSE
  /\ reconfigure = FALSE /\ rotate = FALSE
  /\ timed = FALSE /\ counted = FALSE
  /\ ready = FALSE /\ isStopped = FALSE /\ safeToQuit = FALSE
  /\ parked = FALSE
  /\ configFile = PreviousConfig
  /\ daq = "none" /\ daqCfg = PreviousConfig
  /\ acquiring = FALSE /\ acquisition = 0
  /\ pending = {}
  /\ factory = "none" /\ factoryCfg = PreviousConfig
  /\ runNumber = 0 /\ nEvents = 0 /\ recorded = {}
  /\ nCommands = 0

-----------------------------------------------------------------------------
(* main()                                                                  *)

MainStep(from, to) == mainAt = from /\ mainAt' = to

(* Taking a command from the FIFO. *)
Command(name, to) ==
  /\ name \in Commands
  /\ nCommands < MaxCommands
  /\ Paced => Settled
  /\ nCommands' = nCommands + 1
  /\ MainStep("idle", to)
  /\ UNCHANGED <<readAt, writeAt, daqVars, pending, factoryVars>>

MainBoot ==
  /\ ready
  /\ MainStep("boot", "idle")
  /\ UNCHANGED <<readAt, writeAt, userVars, messageVars, configFile, daqVars,
                 pending, factoryVars, nCommands>>

Quit ==
  /\ Command("quit", "join")
  /\ quit' = TRUE
  /\ UNCHANGED <<pause, stop, reconfigure, rotate, timed, counted, messageVars,
                 configFile>>

(* The check and the store of "pause" are two steps: a timed or counted    *)
(* run may end between them.                                               *)
Pause ==
  /\ ~pause /\ ~stop
  /\ Command("pause", "pauseStore")
  /\ UNCHANGED <<userVars, messageVars, configFile>>

Unpause ==
  /\ pause
  /\ Command("unpause", "idle")
  /\ pause' = FALSE
  /\ UNCHANGED <<quit, stop, reconfigure, rotate, timed, counted, messageVars,
                 configFile>>

(* start, timedStart and nEventsStart: the duration is stored, then        *)
(* digitizerReady is cleared, then UserStopRun.                            *)
Start ==
  /\ stop
  /\ \/ Command("start", "clearReady") /\ UNCHANGED <<timed, counted>>
     \/ Command("timedStart", "clearReady") /\ timed' = TRUE /\ UNCHANGED counted
     \/ Command("nEventsStart", "clearReady") /\ counted' = TRUE /\ UNCHANGED timed
  /\ UNCHANGED <<quit, pause, stop, reconfigure, rotate, messageVars, configFile>>

Restart ==
  /\ ~stop /\ ~pause
  /\ Command("restart", "restartStop")
  /\ UNCHANGED <<userVars, messageVars, configFile>>

StopRun ==
  /\ ~stop
  /\ Command("stop", "stopStore")
  /\ UNCHANGED <<userVars, messageVars, configFile>>

Reconfigure(c) ==
  /\ ~pause
  /\ Command("reconfigure", "reconfigureStop")
  /\ configFile' = c
  /\ reconfigure' = TRUE
  /\ UNCHANGED <<quit, pause, stop, rotate, timed, counted, messageVars>>

Rotate ==
  /\ Command("rotate", "idle")
  /\ rotate' = TRUE
  /\ UNCHANGED <<quit, pause, stop, reconfigure, timed, counted, messageVars,
                 configFile>>

TakeCommand ==
  \/ Quit \/ Pause \/ Unpause \/ Start \/ Restart \/ StopRun \/ Rotate
  \/ \E c \in Configs : Reconfigure(c)

(* What the handlers do after the checks. *)
StoreFlags ==
  /\ \/ MainStep("pauseStore", "idle")
        /\ pause' = TRUE /\ UNCHANGED <<stop, ready, reconfigure>>
     \/ MainStep("stopStore", "stopUnpause")
        /\ stop' = TRUE /\ UNCHANGED <<pause, ready, reconfigure>>
     \/ MainStep("stopUnpause", "idle")
        /\ pause' = FALSE /\ UNCHANGED <<stop, ready, reconfigure>>
     \/ MainStep("clearReady", "clearStop")
        /\ ready' = FALSE /\ UNCHANGED <<stop, pause, reconfigure>>
     \/ MainStep("clearStop", "awaitReady")
        /\ stop' = FALSE /\ UNCHANGED <<pause, ready, reconfigure>>
     \/ MainStep("restartStop", "restartWait")
        /\ stop' = TRUE /\ UNCHANGED <<pause, ready, reconfigure>>
     \/ MainStep("reconfigureStop", "awaitStopped")
        /\ stop' = TRUE /\ UNCHANGED <<pause, ready, reconfigure>>
     \/ MainStep("reconfigureGo", "reconfigureReady")
        /\ (Paced => Stopped)
        /\ stop' = FALSE /\ UNCHANGED <<pause, ready, reconfigure>>
     \/ MainStep("reconfigureDone", "idle")
        /\ reconfigure' = FALSE /\ UNCHANGED <<stop, pause, ready>>
  /\ UNCHANGED <<readAt, writeAt, quit, rotate, timed, counted, isStopped,
                 safeToQuit, parked, configFile, daqVars, pending, factoryVars,
                 nCommands>>

(* restart: wait(lk) releases the mutex and blocks whatever the state is... *)
RestartPark ==
  /\ MainStep("restartWait", "restartParked")
  /\ parked' = TRUE
  /\ UNCHANGED <<readAt, writeAt, userVars, ready, isStopped, safeToQuit,
                 configFile, daqVars, pending, factoryVars, nCommands>>

(* ... and returns when a notify_all came after that, or spuriously. *)
RestartWake ==
  /\ MainStep("restartParked", "clearStop")
  /\ ~parked \/ SpuriousWakeups
  /\ parked' = FALSE
  /\ UNCHANGED <<readAt, writeAt, userVars, ready, isStopped, safeToQuit,
                 configFile, daqVars, pending, factoryVars, nCommands>>

(* The waits with a predicate, and the joins. *)
MainAwait ==
  /\ \/ MainStep("awaitReady", "idle") /\ ready
     \/ MainStep("awaitStopped", "reconfigureGo") /\ isStopped
     \/ MainStep("reconfigureReady", "reconfigureDone") /\ ready
     \/ MainStep("join", "exit") /\ writeAt = "exit" /\ readAt = "exit"
  /\ UNCHANGED <<readAt, writeAt, userVars, messageVars, configFile, daqVars,
                 pending, factoryVars, nCommands>>

MainHandles == MainBoot \/ StoreFlags \/ RestartPark \/ RestartWake \/ MainAwait

-----------------------------------------------------------------------------
(* ReadAction()                                                            *)

ReadStep(from, to) ==
  /\ readAt = from /\ readAt' = to
  /\ UNCHANGED <<mainAt, writeAt, quit, reconfigure, rotate, counted,
                 factoryVars, nCommands>>

(* Mutant: the boards are configured but StartRun() is not called. *)
StartAcquisitionWithoutStartRun ==
  /\ Paced => writeAt # "stopLoop"
  /\ acquisition' = acquisition + 1
  /\ UNCHANGED acquiring

(* InitializeBoards(), 3 s for arming the slaves, StartRun(). *)
StartAcquisition ==
  /\ Paced => writeAt # "stopLoop"
  /\ acquiring' = TRUE
  /\ acquisition' = acquisition + 1

(* new DAQ(), ConnectToBoards(), InitializeBoards(), StartRun(). *)
ReaderConnect ==
  /\ ReadStep("boot", "announceReady")
  /\ daq' = "live"
  /\ configFile' = daqCfg
  /\ StartAcquisition
  /\ UNCHANGED <<pause, stop, timed, messageVars, daqCfg, pending>>

AnnounceReady ==
  /\ ReadStep("announceReady", "top")
  /\ ready' = TRUE
  /\ UNCHANGED <<pause, stop, timed, isStopped, safeToQuit, parked, configFile,
                 daqVars, pending>>

(* One pass of the loop: SendSWTriggers() and Read(), which may find data. *)
ReaderRead ==
  /\ ReadStep("top", "timer")
  /\ ~quit
  /\ \/ pending' = pending \cup {[acq |-> acquisition, cfg |-> daqCfg]}
     \/ UNCHANGED pending
  /\ UNCHANGED <<pause, stop, timed, messageVars, configFile, daqVars>>

ReaderLeave ==
  /\ ReadStep("top", "awaitSafe")
  /\ quit
  /\ UNCHANGED <<pause, stop, timed, messageVars, configFile, daqVars, pending>>

(* A timed run may have lasted its time.  UserTimedRunDuration, then       *)
(* UserStopRun, then UserPauseRun are stored.                              *)
TimerExpires ==
  /\ ReadStep("timer", "timerClear")
  /\ timed
  /\ Paced => writeAt \in WriterRunning /\ mainAt \notin AwaitingReady
  /\ UNCHANGED <<pause, stop, timed, messageVars, configFile, daqVars, pending>>

TimerStores ==
  /\ \/ ReadStep("timerClear", "timerStop")
        /\ timed' = FALSE /\ UNCHANGED <<stop, pause>>
     \/ ReadStep("timerStop", "timerUnpause")
        /\ stop' = TRUE /\ UNCHANGED <<timed, pause>>
     \/ ReadStep("timerUnpause", "pauseLoop")
        /\ pause' = FALSE /\ UNCHANGED <<timed, stop>>
  /\ UNCHANGED <<messageVars, configFile, daqVars, pending>>

ReaderPolls ==
  /\ \/ ReadStep("timer", "pauseLoop")
     \/ ReadStep("pauseLoop", "stopCheck") /\ (~pause \/ quit \/ stop)
     \/ ReadStep("stopCheck", "top") /\ ~stop
     \/ ReadStep("stopLoop", "restartCheck") /\ (~stop \/ quit)
     \/ ReadStep("restartCheck", "applyConfig") /\ reconfigure
     \/ ReadStep("restartCheck", "initialize") /\ ~reconfigure /\ ~quit
     \/ ReadStep("restartCheck", "top") /\ ~reconfigure /\ quit
  /\ UNCHANGED <<pause, stop, timed, messageVars, configFile, daqVars, pending>>

(* Mutant: the stop branch leaves the acquisition running. *)
ReaderStopsWithoutStopRun ==
  /\ ReadStep("stopCheck", "clearReady")
  /\ stop
  /\ UNCHANGED <<pause, stop, timed, messageVars, configFile, daqVars, pending>>

ReaderStops ==
  /\ ReadStep("stopCheck", "clearReady")
  /\ stop
  /\ acquiring' = FALSE
  /\ UNCHANGED <<pause, stop, timed, messageVars, configFile, daq, daqCfg,
                 acquisition, pending>>

(* Mutant: digitizerReady is not cleared when the run stops. *)
ReaderKeepsReady ==
  /\ ReadStep("clearReady", "announceStopped")
  /\ UNCHANGED <<pause, stop, timed, messageVars, configFile, daqVars, pending>>

ReaderClearsReady ==
  /\ ReadStep("clearReady", "announceStopped")
  /\ ready' = FALSE
  /\ UNCHANGED <<pause, stop, timed, isStopped, safeToQuit, parked, configFile,
                 daqVars, pending>>

(* Mutant: the waiters are notified before digitizerIsStopped is set. *)
NotifyStoppedTooEarly ==
  /\ ReadStep("announceStopped", "stopLoop")
  /\ parked' = FALSE
  /\ UNCHANGED <<pause, stop, timed, ready, isStopped, safeToQuit, configFile,
                 daqVars, pending>>

AnnounceStopped ==
  /\ ReadStep("announceStopped", "stopLoop")
  /\ isStopped' = TRUE
  /\ parked' = FALSE
  /\ UNCHANGED <<pause, stop, timed, ready, safeToQuit, configFile, daqVars,
                 pending>>

(* ReadConfiguration(currentConfigFile) may fail: theDAQ then keeps its    *)
(* configuration and currentConfigFile is set back to it.                  *)
ReaderReconfigures ==
  /\ ReadStep("applyConfig", "clearStopped")
  /\ \/ daqCfg' = configFile /\ UNCHANGED configFile
     \/ configFile' = daqCfg /\ UNCHANGED daqCfg
  /\ StartAcquisition
  /\ UNCHANGED <<pause, stop, timed, messageVars, daq, pending>>

ReaderStarts ==
  /\ ReadStep("initialize", "clearStopped")
  /\ StartAcquisition
  /\ UNCHANGED <<pause, stop, timed, messageVars, configFile, daq, daqCfg,
                 pending>>

ReaderClearsStopped ==
  /\ ReadStep("clearStopped", "announceReady")
  /\ isStopped' = FALSE
  /\ UNCHANGED <<pause, stop, timed, ready, safeToQuit, parked, configFile,
                 daqVars, pending>>

(* StopRun(), CloseDevices(), delete theDAQ. *)
ReaderExits ==
  /\ ReadStep("awaitSafe", "exit")
  /\ safeToQuit
  /\ acquiring' = FALSE
  /\ daq' = "deleted"
  /\ UNCHANGED <<pause, stop, timed, messageVars, configFile, daqCfg,
                 acquisition, pending>>

Reader ==
  \/ ReaderConnect \/ AnnounceReady \/ ReaderRead \/ ReaderLeave
  \/ TimerExpires \/ TimerStores \/ ReaderPolls \/ ReaderStops
  \/ ReaderClearsReady \/ AnnounceStopped \/ ReaderReconfigures
  \/ ReaderStarts \/ ReaderClearsStopped \/ ReaderExits

-----------------------------------------------------------------------------
(* WriteAction()                                                           *)

WriteStep(from, to) ==
  /\ writeAt = from /\ writeAt' = to
  /\ UNCHANGED <<mainAt, readAt, quit, reconfigure, timed, ready, isStopped,
                 parked, configFile, daqVars, nCommands>>

(* Mutant: the run keeps its configuration. *)
OpenRunWithSameConfiguration ==
  /\ factory' = "open"
  /\ runNumber' = runNumber + 1
  /\ nEvents' = 0
  /\ recorded' = {}
  /\ UNCHANGED factoryCfg

(* StartFile() of a new run, under the configuration theDAQ holds now. *)
OpenRun ==
  /\ factory' = "open"
  /\ factoryCfg' = daqCfg
  /\ runNumber' = runNumber + 1
  /\ nEvents' = 0
  /\ recorded' = {}

CreateFactory ==
  /\ WriteStep("create", "flush")
  /\ OpenRun
  /\ UNCHANGED <<pause, stop, rotate, counted, safeToQuit, pending>>

(* SetConfiguration() and DefineNewRun(). *)
DefineNewRun ==
  /\ WriteStep("adopt", "flush")
  /\ OpenRun
  /\ UNCHANGED <<pause, stop, rotate, counted, safeToQuit, pending>>

(* FlushQueuesToDisk(): an event is put back on its queue (no match yet),  *)
(* filtered, or filled into the file.  nEvents counts up to the target + 1.*)
FlushQueuesToDisk ==
  \E kept \in SUBSET pending : \E filled \in SUBSET (pending \ kept) :
    /\ pending' = kept
    /\ recorded' = recorded \cup filled
    /\ LET n == nEvents + Cardinality(filled)
       IN  nEvents' = IF n > NeventsTarget THEN NeventsTarget + 1 ELSE n

WriterFlushes ==
  /\ WriteStep("flush", "countCheck")
  /\ ~quit
  /\ FlushQueuesToDisk
  /\ UNCHANGED <<pause, stop, rotate, counted, safeToQuit, factory, factoryCfg,
                 runNumber>>

(* An nEventsStart run has recorded its events. *)
CountReached ==
  /\ WriteStep("countCheck", "countClear")
  /\ counted
  /\ nEvents > NeventsTarget
  /\ UNCHANGED <<pause, stop, rotate, counted, safeToQuit, pending, factoryVars>>

CountStores ==
  /\ \/ WriteStep("countClear", "countStop")
        /\ counted' = FALSE /\ UNCHANGED <<stop, pause>>
     \/ WriteStep("countStop", "countUnpause")
        /\ stop' = TRUE /\ UNCHANGED <<counted, pause>>
     \/ WriteStep("countUnpause", "rotateCheck")
        /\ pause' = FALSE /\ UNCHANGED <<counted, stop>>
  /\ UNCHANGED <<rotate, safeToQuit, pending, factoryVars>>

(* RotateFile(): finish the file and start the next one of the run.  A     *)
(* rotate command that comes before UserRotateFile is cleared is lost.     *)
RotateFile ==
  /\ WriteStep("rotateCheck", "rotateClear")
  /\ rotate
  /\ recorded' = {}
  /\ UNCHANGED <<pause, stop, rotate, counted, safeToQuit, pending, factory,
                 factoryCfg, runNumber, nEvents>>

RotateDone ==
  /\ WriteStep("rotateClear", "pauseLoop")
  /\ rotate' = FALSE
  /\ UNCHANGED <<pause, stop, counted, safeToQuit, pending, factoryVars>>

WriterPolls ==
  /\ \/ WriteStep("boot", "create") /\ ready
     \/ WriteStep("flush", "destroy") /\ quit
     \/ WriteStep("countCheck", "rotateCheck") /\ (counted => nEvents <= NeventsTarget)
     \/ WriteStep("rotateCheck", "pauseLoop") /\ ~rotate
     \/ WriteStep("pauseLoop", "stopCheck") /\ (~pause \/ quit \/ stop)
     \/ WriteStep("stopCheck", "flush") /\ ~stop
     \/ WriteStep("awaitStopped", "stopLoop") /\ isStopped
     \/ WriteStep("stopLoop", "restartCheck") /\ (~stop \/ quit)
     \/ WriteStep("restartCheck", "awaitReady") /\ (reconfigure \/ ~quit)
     \/ WriteStep("restartCheck", "flush") /\ ~reconfigure /\ quit
     \/ WriteStep("awaitReady", "adopt") /\ ready
  /\ UNCHANGED <<pause, stop, rotate, counted, safeToQuit, pending, factoryVars>>

(* Mutant: the file is flushed but not finished. *)
WriterStopsWithoutFinishing ==
  /\ WriteStep("stopCheck", "awaitStopped")
  /\ stop
  /\ FlushQueuesToDisk
  /\ UNCHANGED <<pause, stop, rotate, counted, safeToQuit, factory, factoryCfg,
                 runNumber>>

(* The last flush of a run, and FinishFile(). *)
WriterStops ==
  /\ WriteStep("stopCheck", "awaitStopped")
  /\ stop
  /\ FlushQueuesToDisk
  /\ factory' = "closed"
  /\ UNCHANGED <<pause, stop, rotate, counted, safeToQuit, factoryCfg, runNumber>>

(* delete factory, which finishes a file that is still open. *)
DestroyFactory ==
  /\ WriteStep("destroy", "announceSafe")
  /\ factory' = "deleted"
  /\ UNCHANGED <<pause, stop, rotate, counted, safeToQuit, pending, factoryCfg,
                 runNumber, nEvents, recorded>>

(* Mutant: the message is sent without being stored. *)
AnnounceSafeUnstored ==
  /\ WriteStep("announceSafe", "exit")
  /\ UNCHANGED <<pause, stop, rotate, counted, safeToQuit, pending, factoryVars>>

AnnounceSafe ==
  /\ WriteStep("announceSafe", "exit")
  /\ safeToQuit' = TRUE
  /\ UNCHANGED <<pause, stop, rotate, counted, pending, factoryVars>>

Writer ==
  \/ CreateFactory \/ DefineNewRun \/ WriterFlushes \/ CountReached
  \/ CountStores \/ RotateFile \/ RotateDone \/ WriterPolls
  \/ WriterStops \/ DestroyFactory \/ AnnounceSafe

-----------------------------------------------------------------------------
Next == TakeCommand \/ MainHandles \/ Reader \/ Writer

Spec == Init /\ [][Next]_vars

(* Each thread keeps running; the operator need not issue commands. *)
Fairness == WF_vars(MainHandles) /\ WF_vars(Reader) /\ WF_vars(Writer)

FairSpec == Spec /\ Fairness
-----------------------------------------------------------------------------
(* Properties.                                                             *)

(* Every variable stays in its type; the event sets hold events.           *)
ThreadsOK ==
  /\ mainAt \in {"boot", "idle", "pauseStore", "stopStore", "stopUnpause",
                 "clearReady", "clearStop", "awaitReady", "restartStop",
                 "restartWait", "restartParked", "reconfigureStop",
                 "awaitStopped", "reconfigureGo", "reconfigureReady",
                 "reconfigureDone", "join", "exit"}
  /\ readAt \in {"boot", "announceReady", "top", "timer", "timerClear",
                 "timerStop", "timerUnpause", "pauseLoop", "stopCheck",
                 "clearReady", "announceStopped", "stopLoop", "restartCheck", "applyConfig",
                 "initialize", "clearStopped", "awaitSafe", "exit"}
  /\ writeAt \in {"boot", "create", "flush", "countCheck", "countClear",
                  "countStop", "countUnpause", "rotateCheck", "rotateClear",
                  "pauseLoop", "stopCheck",
                  "awaitStopped", "stopLoop", "restartCheck", "awaitReady",
                  "adopt", "destroy", "announceSafe", "exit"}

UserOK ==
  /\ quit \in BOOLEAN /\ pause \in BOOLEAN /\ stop \in BOOLEAN
  /\ reconfigure \in BOOLEAN /\ rotate \in BOOLEAN
  /\ timed \in BOOLEAN /\ counted \in BOOLEAN

MessagesOK ==
  /\ ready \in BOOLEAN /\ isStopped \in BOOLEAN
  /\ safeToQuit \in BOOLEAN /\ parked \in BOOLEAN

DAQOK ==
  /\ daq \in {"none", "live", "deleted"}
  /\ configFile \in Configs /\ daqCfg \in Configs
  /\ acquiring \in BOOLEAN /\ acquisition \in Nat
  /\ pending \subseteq Event /\ IsFiniteSet(pending)

FactoryOK ==
  /\ factory \in {"none", "open", "closed", "deleted"}
  /\ factoryCfg \in Configs
  /\ runNumber \in Nat /\ nEvents \in 0..(NeventsTarget + 1)
  /\ recorded \subseteq Event

TypeOK ==
  /\ ThreadsOK /\ UserOK /\ MessagesOK /\ DAQOK /\ FactoryOK
  /\ nCommands \in 0..MaxCommands

(* The two messages between the threads contradict each other: a thread    *)
(* that waits for "stopped" is never let through by a reader that is ready,*)
(* nor the other way round (the order in which ReadAction stores them).    *)
NeverReadyAndStopped == ~(ready /\ isStopped)

(* Read() and SendSWTriggers() are only called on boards that acquire, at  *)
(* whatever point quit, stop and start arrive: StopRun() has freed the     *)
(* readout buffers.                                                        *)
ReadsOnlyWhileAcquiring ==
  readAt = "top" /\ ~quit => acquiring /\ daq = "live"

(* theDAQ is deleted after the EventFactory, which writes its              *)
(* configuration into the last file (comment at MilliDAQ.cc:319).          *)
DAQOutlivesFactory ==
  /\ daq = "deleted" => factory = "deleted"
  /\ writeAt \in {"create", "adopt"} => daq = "live"

(* Events are filled into, and "rotate" finishes, a file that is open; a   *)
(* run's file is finished exactly once.                                    *)
FileOpenWhenUsed ==
  /\ writeAt \in WriterRunning
                 \cup {"countClear", "countStop", "countUnpause", "rotateClear"}
        => factory = "open" \/ (writeAt = "flush" /\ quit /\ factory = "closed")
  /\ writeAt \in {"awaitStopped", "stopLoop", "restartCheck", "awaitReady", "adopt"}
        => factory = "closed"

(* The operator's next command is taken only when the boards are not being *)
(* configured ("this is to prevent user commands during                    *)
(* connection/configuration", MilliDAQ.cc:598 and at every start).         *)
ReaderConfiguring == {"boot", "applyConfig", "initialize", "clearStopped", "announceReady"}

NoCommandDuringConfiguration == mainAt = "idle" => readAt \notin ReaderConfiguring

(* The boards are never reconfigured while they acquire, and the           *)
(* configuration a file will be labelled with never changes while the file *)
(* is open.                                                                *)
ConfigurationStable ==
  [][ /\ daqCfg' # daqCfg => ~acquiring
      /\ factoryCfg' # factoryCfg => factory # "open" ]_vars

(* With a paced operator, every acquisition gets a run number of its own:  *)
(* nothing that was acquired later is written under an earlier run; the    *)
(* events of a run are labelled with the configuration they were acquired  *)
(* with; and once both threads run, the writer's run is the reader's       *)
(* acquisition.                                                            *)
RunsLabelled ==
  /\ \A e \in recorded : e.acq <= runNumber
  /\ \A e \in recorded : e.acq = runNumber => e.cfg = factoryCfg
  /\ readAt \in ReaderRunning /\ writeAt \in WriterRunning /\ Settled /\ ~quit /\ ~stop
       => runNumber = acquisition /\ factoryCfg = daqCfg

(* The operator takes the time the threads need, and does not use restart, *)
(* which may start a run before the writer has stopped the last one.       *)
PacedOperator == Paced /\ "restart" \notin Commands

(* For every operator the boards are started only when they are stopped, a *)
(* run is opened only when the last file is finished, and only an open     *)
(* file is filled, rotated and finished; for a paced one, acquisitions and *)
(* runs begin in turns, each run under the configuration of its boards.    *)
Data == INSTANCE DataTaking
          WITH inTurn <- PacedOperator, cfg <- daqCfg, file <- factory,
               run <- runNumber, label <- factoryCfg

ImplementsDataTaking == Data!Spec

(* Every command handler of main() returns to the FIFO (or the program     *)
(* ends).                                                                  *)
CommandsComplete == (mainAt # "idle") ~> (mainAt \in {"idle", "exit"})

(* A stop is carried through: the boards stop and the file is finished,    *)
(* unless the operator starts again.                                       *)
StopReachesDisk ==
  stop ~> (~stop \/ (~acquiring /\ factory \in {"closed", "deleted"}))

(* "quit": all threads end, with the file finished and the boards closed.  *)
QuitEndsProgram ==
  quit ~> (mainAt = "exit" /\ factory = "deleted" /\ daq = "deleted")
-----------------------------------------------------------------------------
(* The inductive invariant behind the safety properties, one part for each *)
(* pair of variables that the threads keep in step.                        *)

ReaderStopped == {"stopLoop", "restartCheck", "applyConfig", "initialize", "clearStopped"}

(* digitizerIsStopped is up only while the reader is in its stop branch,   *)
(* or was when the program is quit; digitizerReady is down there.          *)
MessagesInv ==
  /\ isStopped => \/ readAt \in ReaderStopped
                  \/ quit /\ readAt \in {"top", "awaitSafe", "exit"}
  /\ readAt \in ReaderStopped \cup {"announceStopped"} => ~ready
  /\ ready => readAt # "boot"
  /\ NeverReadyAndStopped

(* The boards acquire from StartRun() until the stop branch. *)
AcquiringInv ==
  /\ \/ readAt \in {"announceReady", "timer", "timerClear", "timerStop",
                    "timerUnpause", "pauseLoop", "stopCheck", "clearStopped"}
     \/ readAt = "top" /\ ~quit
     => acquiring
  /\ readAt \in {"boot", "clearReady", "announceStopped", "stopLoop", "restartCheck",
                  "applyConfig", "initialize"} => ~acquiring

(* theDAQ and the factory live while their thread is between its creation  *)
(* and its end, the factory's life inside theDAQ's.                        *)
LifetimeInv ==
  /\ readAt = "boot" <=> daq = "none"
  /\ readAt = "exit" <=> daq = "deleted"
  /\ writeAt \in {"boot", "create"} <=> factory = "none"
  /\ writeAt \in {"announceSafe", "exit"} <=> factory = "deleted"
  /\ readAt = "boot" => writeAt = "boot"
  /\ readAt = "exit" => safeToQuit
  /\ safeToQuit => writeAt = "exit"

(* restart's wait returns only when the reader has announced its stop. *)
RestartWaitsForStop == ~SpuriousWakeups \/ "restart" \notin Commands

(* While main is not waiting for the reader, the reader stays stopped until*)
(* it is told to start; when main is about to tell it, ready is down.      *)
HandshakeInv ==
  /\ quit <=> mainAt \in {"join", "exit"}
  /\ mainAt \in {"restartStop", "restartWait", "restartParked"} => "restart" \in Commands
  /\ readAt = "boot" => mainAt = "boot"
  /\ RestartWaitsForStop =>
       /\ readAt \in {"clearReady", "announceStopped", "stopLoop"} /\ ~stop
            => mainAt \in AwaitingReady \cup {"join", "exit"}
       /\ readAt = "clearReady" /\ ~stop /\ mainAt \in AwaitingReady => ~ready
       /\ readAt \in {"restartCheck", "applyConfig", "initialize", "clearStopped",
                       "announceReady"}
            => ~ready /\ mainAt \in AwaitingReady \cup {"boot", "join", "exit"}
       /\ mainAt \in {"clearStop", "reconfigureGo"} => ~ready
       /\ mainAt = "restartParked" /\ ~parked => ~ready

(* The three threads stay in step (all of the above, for every command     *)
(* sequence and interleaving).                                             *)
RunControlInv ==
  TypeOK /\ MessagesInv /\ AcquiringInv /\ LifetimeInv /\ FileOpenWhenUsed /\ HandshakeInv
=============================================================================

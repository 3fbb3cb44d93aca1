---------------------------- MODULE InteractiveDAQ ----------------------------
(* InteractiveDAQ.cc, the second program over the same DAQ, Queue and         *)
(* EventFactory: runs are timed or end after a number of events, the          *)
(* configuration is read by main() while the run is stopped, and there is no  *)
(* message before theDAQ is deleted.  Its threads share the flags and         *)
(* messages of interface/MilliDAQ.h and interface/InteractiveDAQ.h.           *)
(*                                                                            *)
(* One action stands for the code between two accesses of a flag that another *)
(* thread writes; waits, sleeps and rejected commands are as in RunControl.   *)
(* UserReconfigureRun is never set here, so its branches are left out, as are *)
(* the flags that only print.                                                 *)
EXTENDS Integers, FiniteSets

CONSTANTS
  Configs,           (* configuration files                                   *)
  FirstConfig,       (* the one named at the start of the program             *)
  Targets,           (* arguments of interactive_nevents                      *)
  MaxCount,          (* bound: events are counted up to the largest of them   *)
  MaxCommands,       (* bound: accepted commands once the threads run, of a   *)
                     (* paced operator and of another                         *)
  MaxPending         (* bound: kinds of events in the queues                  *)

ASSUME InteractiveAssumption ==
  /\ FirstConfig \in Configs
  /\ MaxCount \in Nat /\ Targets \subseteq 0..MaxCount
  /\ MaxCommands \in [BOOLEAN -> Nat] /\ MaxPending \in Nat

VARIABLES
  paced,                        (* the operator waits for the polls: Settled  *)
  mainAt, readAt, writeAt,      (* where each thread is                       *)
  quit, pause, stop, rotate,    (* UserProgramQuit, UserPauseRun, ...         *)
  isTimedRun, timeRequested,    (* timeRequested: it is not negative          *)
  eventsRequested,
  ready, isStopped, parked,     (* digitizerReady, digitizerIsStopped; main   *)
                                (* blocks in restart's wait                   *)
  configFile, daq, daqCfg,      (* currentConfigFile; theDAQ and what it holds*)
  boardCfg,                     (* what the boards were initialized with      *)
  acquiring, acquisition,       (* the boards accept triggers; runs started   *)
  pending,                      (* kinds of events in masterQueues            *)
  factory, factoryCfg,          (* as in RunControl                           *)
  runNumber, nEvents, recorded,
  nCommands

threadVars == <<mainAt, readAt, writeAt>>
flagVars == <<quit, pause, stop, rotate>>
lengthVars == <<isTimedRun, timeRequested, eventsRequested>>
messageVars == <<ready, isStopped, parked>>
daqVars == <<configFile, daq, daqCfg, boardCfg, acquiring, acquisition>>
factoryVars == <<factory, factoryCfg, runNumber, nEvents, recorded>>
vars == <<paced, threadVars, flagVars, lengthVars, messageVars, daqVars, pending,
          factoryVars, nCommands>>

Event == [acq : Nat, cfg : Configs]

-----------------------------------------------------------------------------
(* Timing, if paced: a command comes after both threads have polled the      *)
(* flags (they do every 50 ms to 1 s), InitializeBoards() and a timed run    *)
(* outlast the polls, a run does not end by itself in the moment of a        *)
(* command, and restart, whose stop lasts no longer than the reader needs to *)
(* see it, is not used.                                                      *)

ReaderRunning == {"top", "timer", "pauseLoop", "stopCheck"}
WriterRunning == {"flush", "countCheck", "rotateCheck", "pauseLoop", "stopCheck"}

Settled ==
  IF stop THEN readAt = "stopLoop" /\ writeAt = "stopLoop"
          ELSE /\ readAt \in IF pause THEN {"pauseLoop"} ELSE ReaderRunning
               /\ writeAt \in IF pause THEN {"pauseLoop"} ELSE WriterRunning

EndsByItself == paced => mainAt = "idle" /\ Settled

-----------------------------------------------------------------------------
Init ==
  /\ paced \in BOOLEAN
  /\ mainAt = "before" /\ readAt = "none" /\ writeAt = "none"
  /\ quit = FALSE /\ pause = FALSE /\ stop = FALSE /\ rotate = FALSE
  /\ isTimedRun = TRUE /\ timeRequested = TRUE /\ eventsRequested = 0
  /\ ready = FALSE /\ isStopped = FALSE /\ parked = FALSE
  /\ configFile = FirstConfig /\ daq = "none" /\ daqCfg = FirstConfig
  /\ boardCfg = FirstConfig
  /\ acquiring = FALSE /\ acquisition = 0
  /\ pending = {}
  /\ factory = "none" /\ factoryCfg = FirstConfig
  /\ runNumber = 0 /\ nEvents = 0 /\ recorded = {}
  /\ nCommands = 0

-----------------------------------------------------------------------------
(* main()                                                                    *)

Main(from, to) ==
  /\ mainAt = from /\ mainAt' = to
  /\ UNCHANGED <<paced, pending, factoryVars>>

WorkersStay == UNCHANGED <<readAt, writeAt, nCommands>>

(* Before the first run: quit needs no threads; a configuration file is      *)
(* kept if it can be read.                                                   *)
QuitBefore ==
  /\ Main("before", "exit") /\ WorkersStay
  /\ UNCHANGED <<flagVars, lengthVars, messageVars, daqVars>>

ConfigureBefore(c) ==
  /\ Main("before", "before") /\ WorkersStay
  /\ configFile' = c
  /\ UNCHANGED <<flagVars, lengthVars, messageVars, daq, daqCfg, boardCfg, acquiring,
                 acquisition>>

SetTimed(nonNegative) ==
  isTimedRun' = TRUE /\ timeRequested' = nonNegative /\ UNCHANGED eventsRequested

(* The first run is requested, and the threads start. *)
FirstRun ==
  /\ Main("before", "boot")
  /\ \/ \E b \in BOOLEAN : SetTimed(b)
     \/ /\ isTimedRun' = FALSE /\ eventsRequested' \in Targets
        /\ UNCHANGED timeRequested
  /\ readAt' = "boot" /\ writeAt' = "boot"
  /\ UNCHANGED <<flagVars, messageVars, daqVars, nCommands>>

Command(to) ==
  /\ nCommands < MaxCommands[paced]
  /\ paced => Settled
  /\ nCommands' = nCommands + 1
  /\ Main("idle", to)
  /\ UNCHANGED <<readAt, writeAt>>

Quit ==
  /\ Command("join")
  /\ quit' = TRUE
  /\ UNCHANGED <<pause, stop, rotate, lengthVars, messageVars, daqVars>>

Pause ==
  /\ ~pause /\ ~stop
  /\ Command("pauseStore")
  /\ UNCHANGED <<flagVars, lengthVars, messageVars, daqVars>>

Unpause ==
  /\ pause
  /\ Command("idle")
  /\ pause' = FALSE
  /\ UNCHANGED <<quit, stop, rotate, lengthVars, messageVars, daqVars>>

(* interactive_timed and interactive_nevents, when stopped.  isTimedRun is   *)
(* stored before the number of events.                                       *)
StartTimed(nonNegative) ==
  /\ stop
  /\ Command("clearReady")
  /\ SetTimed(nonNegative)
  /\ UNCHANGED <<flagVars, messageVars, daqVars>>

StartNEvents ==
  /\ stop
  /\ Command("setEvents")
  /\ isTimedRun' = FALSE
  /\ UNCHANGED <<flagVars, timeRequested, eventsRequested, messageVars, daqVars>>

(* Mutant: a run need not be stopped. *)
ConfigureAnytime(c) ==
  /\ Command("idle")
  /\ \/ daqCfg' = c /\ configFile' = c
     \/ configFile' = daqCfg /\ UNCHANGED daqCfg
  /\ UNCHANGED <<flagVars, lengthVars, messageVars, daq, boardCfg, acquiring, acquisition>>

(* interactive_configure: ReadConfiguration() without theDAQMutex.           *)
Configure(c) ==
  /\ stop
  /\ Command("idle")
  /\ \/ daqCfg' = c /\ configFile' = c
     \/ configFile' = daqCfg /\ UNCHANGED daqCfg
  /\ UNCHANGED <<flagVars, lengthVars, messageVars, daq, boardCfg, acquiring, acquisition>>

Restart ==
  /\ ~stop /\ ~pause /\ ~paced
  /\ Command("restartStop")
  /\ UNCHANGED <<flagVars, lengthVars, messageVars, daqVars>>

StopRun ==
  /\ ~stop
  /\ Command("stopUnpause")
  /\ stop' = TRUE
  /\ UNCHANGED <<quit, pause, rotate, lengthVars, messageVars, daqVars>>

Rotate ==
  /\ Command("idle")
  /\ rotate' = TRUE
  /\ UNCHANGED <<quit, pause, stop, lengthVars, messageVars, daqVars>>

TakeCommand ==
  \/ Quit \/ Pause \/ Unpause \/ StartNEvents \/ Restart \/ StopRun \/ Rotate
  \/ \E b \in BOOLEAN : StartTimed(b)
  \/ \E c \in Configs : Configure(c)

(* Mutant: digitizerReady is cleared after UserStopRun. *)
MainStoresStopFirst ==
  /\ \/ Main("pauseStore", "idle") /\ pause' = TRUE /\ UNCHANGED <<stop, ready>>
     \/ Main("stopUnpause", "idle") /\ pause' = FALSE /\ UNCHANGED <<stop, ready>>
     \/ Main("clearReady", "clearStop") /\ stop' = FALSE /\ UNCHANGED <<ready, pause>>
     \/ Main("clearStop", "awaitReady") /\ ready' = FALSE /\ UNCHANGED <<pause, stop>>
     \/ Main("restartStop", "restartWait") /\ stop' = TRUE /\ UNCHANGED <<pause, ready>>
  /\ WorkersStay
  /\ UNCHANGED <<quit, rotate, lengthVars, isStopped, parked, daqVars>>

(* What the handlers do next; the waits with a predicate, and the joins. *)
MainStores ==
  /\ \/ Main("pauseStore", "idle") /\ pause' = TRUE /\ UNCHANGED <<stop, ready>>
     \/ Main("stopUnpause", "idle") /\ pause' = FALSE /\ UNCHANGED <<stop, ready>>
     \/ Main("clearReady", "clearStop") /\ ready' = FALSE /\ UNCHANGED <<stop, pause>>
     \/ Main("clearStop", "awaitReady") /\ stop' = FALSE /\ UNCHANGED <<pause, ready>>
     \/ Main("restartStop", "restartWait") /\ stop' = TRUE /\ UNCHANGED <<pause, ready>>
  /\ WorkersStay
  /\ UNCHANGED <<quit, rotate, lengthVars, isStopped, parked, daqVars>>

SetEvents ==
  /\ Main("setEvents", "clearReady") /\ WorkersStay
  /\ eventsRequested' \in Targets
  /\ UNCHANGED <<flagVars, isTimedRun, timeRequested, messageVars, daqVars>>

(* restart: wait() blocks whatever the state is, until it is notified or     *)
(* wakes spuriously.                                                         *)
RestartWait ==
  /\ \/ Main("restartWait", "restartParked") /\ parked' = TRUE
     \/ Main("restartParked", "clearStop") /\ parked' = FALSE
  /\ WorkersStay
  /\ UNCHANGED <<flagVars, lengthVars, ready, isStopped, daqVars>>

MainAwait ==
  /\ \/ Main("boot", "idle") /\ ready
     \/ Main("awaitReady", "idle") /\ ready
     \/ Main("join", "exit") /\ readAt = "exit" /\ writeAt = "exit"
  /\ WorkersStay
  /\ UNCHANGED <<flagVars, lengthVars, messageVars, daqVars>>

BeforeRun == QuitBefore \/ FirstRun \/ \E c \in Configs : ConfigureBefore(c)

MainHandles == MainStores \/ SetEvents \/ RestartWait \/ MainAwait

-----------------------------------------------------------------------------
(* ReadAction()                                                              *)

Read(from, to) ==
  /\ readAt = from /\ readAt' = to
  /\ UNCHANGED <<paced, mainAt, writeAt, quit, rotate, lengthVars, factoryVars, nCommands>>

(* InitializeBoards() and StartRun(). *)
StartAcquisition(cfg) ==
  /\ paced => writeAt # "stopLoop"
  /\ boardCfg' = cfg /\ acquiring' = TRUE /\ acquisition' = acquisition + 1

(* currentConfigFile was read before, or is left as it was: here it can be   *)
(* read again or theDAQ keeps its own.                                       *)
ReaderConnects ==
  /\ Read("boot", "announceReady")
  /\ daq' = "live"
  /\ \/ daqCfg' = configFile /\ UNCHANGED configFile
     \/ configFile' = daqCfg /\ UNCHANGED daqCfg
  /\ StartAcquisition(daqCfg')
  /\ UNCHANGED <<pause, stop, messageVars, pending>>

ReaderStarts ==
  /\ Read("initialize", "clearStopped")
  /\ StartAcquisition(daqCfg)
  /\ UNCHANGED <<pause, stop, messageVars, pending, configFile, daq, daqCfg>>

(* SendSWTriggers() and Read(), which may find data. *)
ReaderReads ==
  /\ Read("top", "timer")
  /\ ~quit
  /\ pending' \in {pending, pending \cup {[acq |-> acquisition, cfg |-> boardCfg]}}
  /\ Cardinality(pending') <= MaxPending
  /\ UNCHANGED <<pause, stop, messageVars, daqVars>>

(* The time of the run has elapsed. *)
TimerExpires ==
  /\ Read("timer", "timerUnpause")
  /\ isTimedRun /\ timeRequested
  /\ EndsByItself
  /\ stop' = TRUE
  /\ UNCHANGED <<pause, messageVars, daqVars, pending>>

ReaderUnpauses ==
  /\ Read("timerUnpause", "pauseLoop")
  /\ pause' = FALSE
  /\ UNCHANGED <<stop, messageVars, daqVars, pending>>

ReaderPolls ==
  /\ \/ Read("timer", "pauseLoop")
     \/ Read("pauseLoop", "stopCheck") /\ (~pause \/ quit \/ stop)
     \/ Read("stopCheck", "top") /\ ~stop
     \/ Read("stopLoop", "restartCheck") /\ (~stop \/ quit)
     \/ Read("restartCheck", "initialize") /\ ~quit
     \/ Read("restartCheck", "top") /\ quit
  /\ UNCHANGED <<pause, stop, messageVars, daqVars, pending>>

ReaderStops ==
  /\ Read("stopCheck", "unready")
  /\ stop
  /\ acquiring' = FALSE
  /\ UNCHANGED <<pause, stop, messageVars, configFile, daq, daqCfg, boardCfg, acquisition,
                 pending>>

(* Mutant: digitizerIsStopped stays. *)
ReaderTellsReadyOnly ==
  /\ \/ Read("unready", "announceStopped") /\ ready' = FALSE /\ UNCHANGED <<isStopped, parked>>
     \/ /\ Read("announceStopped", "stopLoop")
        /\ isStopped' = TRUE /\ parked' = FALSE /\ UNCHANGED ready
     \/ Read("clearStopped", "announceReady") /\ UNCHANGED messageVars
     \/ Read("announceReady", "top") /\ ready' = TRUE /\ UNCHANGED <<isStopped, parked>>
  /\ UNCHANGED <<pause, stop, daqVars, pending>>

(* The messages, each under its mutex, when the run has stopped ... *)
ReaderTellsStopped ==
  \/ Read("unready", "announceStopped") /\ ready' = FALSE /\ UNCHANGED <<isStopped, parked>>
  \/ /\ Read("announceStopped", "stopLoop")
     /\ isStopped' = TRUE /\ parked' = FALSE /\ UNCHANGED ready

(* ... and when the next one has begun. *)
ReaderTellsReady ==
  \/ Read("clearStopped", "announceReady") /\ isStopped' = FALSE /\ UNCHANGED <<ready, parked>>
  \/ Read("announceReady", "top") /\ ready' = TRUE /\ UNCHANGED <<isStopped, parked>>

ReaderTells ==
  /\ ReaderTellsStopped \/ ReaderTellsReady
  /\ UNCHANGED <<pause, stop, daqVars, pending>>

(* StopRun(), CloseDevices(), delete theDAQ: nobody is waited for. *)
ReaderExits ==
  /\ Read("top", "exit")
  /\ quit
  /\ acquiring' = FALSE /\ daq' = "deleted"
  /\ UNCHANGED <<pause, stop, messageVars, configFile, daqCfg, boardCfg, acquisition,
                 pending>>

Reader ==
  \/ ReaderConnects \/ ReaderStarts \/ ReaderReads \/ TimerExpires \/ ReaderUnpauses
  \/ ReaderPolls \/ ReaderStops \/ ReaderTells \/ ReaderExits

-----------------------------------------------------------------------------
(* WriteAction()                                                             *)

Write(from, to) ==
  /\ writeAt = from /\ writeAt' = to
  /\ UNCHANGED <<paced, mainAt, readAt, quit, lengthVars, messageVars, daqVars, nCommands>>

(* The factory is created, or DefineNewRun() after SetConfiguration().       *)
OpenRun(from) ==
  /\ Write(from, "flush")
  /\ factory' = "open" /\ factoryCfg' = daqCfg
  /\ runNumber' = runNumber + 1 /\ nEvents' = 0 /\ recorded' = {}
  /\ UNCHANGED <<pause, stop, rotate, pending>>

(* FlushQueuesToDisk(): events are put back, filtered or filled. *)
Flush(count) ==
  \E kept \in SUBSET pending : \E filled \in SUBSET (pending \ kept) :
    /\ pending' = kept
    /\ recorded' = recorded \cup filled
    /\ LET n == nEvents + Cardinality(filled)
       IN  nEvents' = IF ~count THEN 0 ELSE IF n > MaxCount THEN MaxCount ELSE n

WriterFlushes ==
  /\ Write("flush", "countCheck")
  /\ ~quit
  /\ Flush(TRUE)
  /\ UNCHANGED <<pause, stop, rotate, factory, factoryCfg, runNumber>>

Enough == ~isTimedRun /\ nEvents >= eventsRequested

CountReached ==
  /\ Write("countCheck", "countUnpause")
  /\ Enough
  /\ EndsByItself
  /\ stop' = TRUE
  /\ UNCHANGED <<pause, rotate, pending, factory, factoryCfg, runNumber, nEvents, recorded>>

WriterUnpauses ==
  /\ Write("countUnpause", "rotateCheck")
  /\ pause' = FALSE
  /\ UNCHANGED <<stop, rotate, pending, factoryVars>>

RotateFile ==
  /\ \/ Write("rotateCheck", "rotateClear") /\ rotate /\ recorded' = {} /\ UNCHANGED rotate
     \/ Write("rotateClear", "pauseLoop") /\ rotate' = FALSE /\ UNCHANGED recorded
  /\ UNCHANGED <<pause, stop, pending, factory, factoryCfg, runNumber, nEvents>>

WriterPolls ==
  /\ \/ Write("boot", "create") /\ ready
     \/ Write("countCheck", "rotateCheck") /\ (~Enough \/ ~EndsByItself)
     \/ Write("rotateCheck", "pauseLoop") /\ ~rotate
     \/ Write("pauseLoop", "stopCheck") /\ (~pause \/ quit \/ stop)
     \/ Write("stopCheck", "flush") /\ ~stop
     \/ Write("awaitStopped", "stopLoop") /\ isStopped
     \/ Write("stopLoop", "restartCheck") /\ (~stop \/ quit)
     \/ Write("restartCheck", "awaitReady") /\ ~quit
     \/ Write("restartCheck", "flush") /\ quit
     \/ Write("awaitReady", "adopt") /\ ready
  /\ UNCHANGED <<pause, stop, rotate, pending, factoryVars>>

(* Mutant: the file is flushed but not finished. *)
WriterStopsWithoutFinishing ==
  /\ Write("stopCheck", "awaitStopped")
  /\ stop
  /\ Flush(FALSE)
  /\ UNCHANGED <<pause, stop, rotate, factory, factoryCfg, runNumber>>

(* The last flush of a run, FinishFile(), ResetEventsRecordedInRun().        *)
WriterStops ==
  /\ Write("stopCheck", "awaitStopped")
  /\ stop
  /\ Flush(FALSE)
  /\ factory' = "closed"
  /\ UNCHANGED <<pause, stop, rotate, factoryCfg, runNumber>>

WriterExits ==
  /\ Write("flush", "exit")
  /\ quit
  /\ factory' = "deleted"
  /\ UNCHANGED <<pause, stop, rotate, pending, factoryCfg, runNumber, nEvents, recorded>>

Writer ==
  \/ OpenRun("create") \/ OpenRun("adopt") \/ WriterFlushes \/ CountReached
  \/ WriterUnpauses \/ RotateFile \/ WriterPolls \/ WriterStops \/ WriterExits

-----------------------------------------------------------------------------
Next == BeforeRun \/ TakeCommand \/ MainHandles \/ Reader \/ Writer

Spec == Init /\ [][Next]_vars

(* Each thread keeps running; the operator need not issue commands. *)
FairSpec == Spec /\ WF_vars(MainHandles) /\ WF_vars(Reader) /\ WF_vars(Writer)

-----------------------------------------------------------------------------
(* Properties.                                                               *)

(* Every variable keeps its type. *)
ThreadsOK ==
  /\ mainAt \in {"before", "boot", "idle", "pauseStore", "stopUnpause", "setEvents",
                 "clearReady", "clearStop", "awaitReady", "restartStop", "restartWait",
                 "restartParked", "join", "exit"}
  /\ readAt \in ReaderRunning \cup
       {"none", "boot", "announceReady", "timerUnpause", "unready", "announceStopped",
        "stopLoop", "restartCheck", "initialize", "clearStopped", "exit"}
  /\ writeAt \in WriterRunning \cup
       {"none", "boot", "create", "countUnpause", "rotateClear", "awaitStopped", "stopLoop",
        "restartCheck", "awaitReady", "adopt", "exit"}

FlagsOK ==
  /\ quit \in BOOLEAN /\ pause \in BOOLEAN /\ stop \in BOOLEAN /\ rotate \in BOOLEAN
  /\ ready \in BOOLEAN /\ isStopped \in BOOLEAN /\ parked \in BOOLEAN
  /\ isTimedRun \in BOOLEAN /\ timeRequested \in BOOLEAN
  /\ eventsRequested \in Targets \cup {0}

DAQOK ==
  /\ configFile \in Configs /\ daqCfg \in Configs /\ boardCfg \in Configs
  /\ daq \in {"none", "live", "deleted"} /\ acquiring \in BOOLEAN /\ acquisition \in Nat
  /\ pending \subseteq Event /\ IsFiniteSet(pending)

FactoryOK ==
  /\ factory \in {"none", "open", "closed", "deleted"} /\ factoryCfg \in Configs
  /\ recorded \subseteq Event
  /\ runNumber \in Nat /\ nEvents \in Nat

TypeOK ==
  /\ ThreadsOK /\ FlagsOK /\ DAQOK /\ FactoryOK
  /\ paced \in BOOLEAN /\ nCommands \in 0..MaxCommands[paced]

(* However commands, polls and runs that end by themselves interleave: the   *)
(* boards are read and triggered only while they acquire, since StopRun()    *)
(* frees the readout buffers; events go to, and rotate finishes, an output   *)
(* file that is open, which is finished once; and the two messages do not    *)
(* contradict each other.                                                    *)
ReaderInStep ==
  /\ mainAt = "before" => readAt = "none"
  /\ readAt \in (ReaderRunning \ {"top"}) \cup {"announceReady", "timerUnpause", "clearStopped"}
       => acquiring
  /\ readAt = "top" => acquiring \/ quit
  /\ readAt \notin {"none", "boot", "exit"} => daq = "live"

WriterInStep ==
  /\ mainAt = "before" => writeAt = "none"
  /\ writeAt \in WriterRunning \cup {"countUnpause", "rotateClear"}
       => factory = "open" \/ (writeAt = "flush" /\ quit)
  /\ writeAt \in {"awaitStopped", "stopLoop", "restartCheck", "awaitReady", "adopt"}
       => factory = "closed"

MessagesInStep ==
  /\ readAt \in {"none", "boot", "announceStopped", "stopLoop", "restartCheck", "initialize",
                 "clearStopped", "announceReady"}
       => ~ready
  /\ readAt \in (ReaderRunning \ {"top"}) \cup
                {"none", "boot", "announceReady", "timerUnpause", "unready", "announceStopped"}
       => ~isStopped
  /\ readAt = "top" => ~isStopped \/ quit
  /\ ~(ready /\ isStopped)

ThreadsInStep == TypeOK /\ ReaderInStep /\ WriterInStep /\ MessagesInStep

(* With a paced operator each run has its number, and its events the         *)
(* configuration they were acquired with, which interactive_configure, a     *)
(* store without theDAQMutex, changes only between runs.                     *)
RunsLabelled ==
  paced =>
    /\ \A e \in recorded : e.acq <= runNumber
    /\ \A e \in recorded : e.acq = runNumber => e.cfg = factoryCfg
    /\ readAt \in ReaderRunning /\ writeAt \in WriterRunning /\ Settled /\ ~quit /\ ~stop
         => runNumber = acquisition /\ factoryCfg = boardCfg /\ daqCfg = boardCfg

(* For every operator the boards are started only when they are stopped, a   *)
(* run is opened only when the last file is finished, and only an open file  *)
(* is filled, rotated and finished; for a paced one, acquisitions and runs   *)
(* begin in turns, each run under the configuration of its boards: what      *)
(* RunControl promises too.                                                  *)
Data == INSTANCE DataTaking
          WITH inTurn <- paced, cfg <- boardCfg, file <- factory,
               run <- runNumber, label <- factoryCfg

ImplementsDataTaking == Data!Spec

(* With a paced operator every command, quit included, and the first run are *)
(* carried through: main() returns to the FIFO, or the program ends.         *)
CommandsComplete ==
  (paced /\ mainAt \notin {"before", "idle"}) ~> (mainAt \in {"idle", "exit"})

=============================================================================

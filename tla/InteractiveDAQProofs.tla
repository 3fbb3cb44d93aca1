------------------------- MODULE InteractiveDAQProofs -------------------------
(* Proofs about InteractiveDAQ for every set of configurations and targets,  *)
(* any number of commands and every interleaving, paced or not.              *)
EXTENDS InteractiveDAQ, FiniteSetTheorems, TLAPS

USE DEF vars, threadVars, flagVars, lengthVars, messageVars, daqVars, factoryVars

-----------------------------------------------------------------------------
(* Types.                                                                    *)

LEMMA TypeInit == Init => TypeOK
<1> SUFFICES ASSUME Init PROVE TypeOK
  OBVIOUS
<1>1. ThreadsOK
  BY DEF Init, ThreadsOK
<1>2. FlagsOK
  BY DEF Init, FlagsOK
<1>3. DAQOK
  BY InteractiveAssumption, FS_EmptySet DEF Init, DAQOK
<1>4. FactoryOK
  BY InteractiveAssumption DEF Init, FactoryOK
<1>5. paced \in BOOLEAN /\ nCommands \in 0..MaxCommands[paced]
  BY InteractiveAssumption DEF Init
<1> QED
  BY <1>1, <1>2, <1>3, <1>4, <1>5 DEF TypeOK

LEMMA BeforeType ==
  ASSUME TypeOK, BeforeRun
  PROVE  TypeOK'
<1> USE DEF TypeOK
<1>1. ThreadsOK'
  BY DEF ThreadsOK, BeforeRun, QuitBefore, ConfigureBefore, FirstRun, SetTimed, Main,
      WorkersStay
<1>2. FlagsOK'
  BY ZenonT(40) DEF FlagsOK, BeforeRun, QuitBefore, ConfigureBefore, FirstRun, SetTimed, Main,
      WorkersStay
<1>3. DAQOK'
  BY DEF DAQOK, BeforeRun, QuitBefore, ConfigureBefore, FirstRun, SetTimed, Main,
      WorkersStay
<1>4. FactoryOK'
  BY DEF FactoryOK, BeforeRun, QuitBefore, ConfigureBefore, FirstRun, SetTimed, Main,
      WorkersStay
<1>5. paced' \in BOOLEAN /\ nCommands' \in 0..MaxCommands[paced']
  BY InteractiveAssumption DEF BeforeRun, QuitBefore, ConfigureBefore, FirstRun, SetTimed, Main,
      WorkersStay
<1> QED
  BY <1>1, <1>2, <1>3, <1>4, <1>5

LEMMA CommandType ==
  ASSUME TypeOK, TakeCommand
  PROVE  TypeOK'
<1> USE DEF TypeOK
<1>1. ThreadsOK'
  BY DEF ThreadsOK, TakeCommand, Command, Main, Quit, Pause, Unpause, StartTimed,
      StartNEvents, SetTimed, Configure, Restart, StopRun, Rotate
<1>2. FlagsOK'
  BY ZenonT(40) DEF FlagsOK, TakeCommand, Command, Main, Quit, Pause, Unpause, StartTimed,
      StartNEvents, SetTimed, Configure, Restart, StopRun, Rotate
<1>3. DAQOK'
  BY DEF DAQOK, TakeCommand, Command, Main, Quit, Pause, Unpause, StartTimed,
      StartNEvents, SetTimed, Configure, Restart, StopRun, Rotate
<1>4. FactoryOK'
  BY DEF FactoryOK, TakeCommand, Command, Main, Quit, Pause, Unpause, StartTimed,
      StartNEvents, SetTimed, Configure, Restart, StopRun, Rotate
<1>5. paced' \in BOOLEAN /\ nCommands' \in 0..MaxCommands[paced']
  BY InteractiveAssumption DEF TakeCommand, Command, Main, Quit, Pause, Unpause, StartTimed,
      StartNEvents, SetTimed, Configure, Restart, StopRun, Rotate
<1> QED
  BY <1>1, <1>2, <1>3, <1>4, <1>5

LEMMA MainType ==
  ASSUME TypeOK, MainHandles
  PROVE  TypeOK'
<1> USE DEF TypeOK
<1>1. ThreadsOK'
  BY DEF ThreadsOK, MainHandles, MainStores, SetEvents, RestartWait, MainAwait, Main,
      WorkersStay
<1>2. FlagsOK'
  BY ZenonT(40) DEF FlagsOK, MainHandles, MainStores, SetEvents, RestartWait, MainAwait, Main,
      WorkersStay
<1>3. DAQOK'
  BY DEF DAQOK, MainHandles, MainStores, SetEvents, RestartWait, MainAwait, Main,
      WorkersStay
<1>4. FactoryOK'
  BY DEF FactoryOK, MainHandles, MainStores, SetEvents, RestartWait, MainAwait, Main,
      WorkersStay
<1>5. paced' \in BOOLEAN /\ nCommands' \in 0..MaxCommands[paced']
  BY InteractiveAssumption DEF MainHandles, MainStores, SetEvents, RestartWait, MainAwait, Main,
      WorkersStay
<1> QED
  BY <1>1, <1>2, <1>3, <1>4, <1>5

LEMMA ReaderType ==
  ASSUME TypeOK, Reader
  PROVE  TypeOK'
<1> USE DEF TypeOK
<1>1. CASE ReaderConnects
  <2>1. configFile' \in Configs /\ daqCfg' \in Configs /\ boardCfg' = daqCfg'
    BY <1>1 DEF DAQOK, ReaderConnects, StartAcquisition
  <2>2. acquisition' \in Nat /\ acquiring' = TRUE /\ daq' = "live" /\ pending' = pending
    BY <1>1 DEF DAQOK, ReaderConnects, StartAcquisition
  <2>3. DAQOK'
    BY <2>1, <2>2 DEF DAQOK
  <2> QED
    BY <1>1, <2>3 DEF ThreadsOK, FlagsOK, FactoryOK, ReaderConnects, Read
<1>2. CASE ReaderStarts
  <2>1. DAQOK'
    <3>1. acquisition' \in Nat /\ boardCfg' \in Configs
      BY <1>2 DEF DAQOK, ReaderStarts, StartAcquisition
    <3> QED
      BY <1>2, <3>1 DEF DAQOK, ReaderStarts, StartAcquisition
  <2> QED
    BY <1>2, <2>1 DEF ThreadsOK, FlagsOK, FactoryOK, ReaderStarts, Read
<1>3. CASE ReaderReads
  <2> DEFINE e == [acq |-> acquisition, cfg |-> boardCfg]
  <2>1. pending' \in {pending, pending \cup {e}} /\ e \in Event
    BY <1>3 DEF ReaderReads, DAQOK, Event
  <2>2. IsFiniteSet(pending) /\ pending \subseteq Event
    BY DEF DAQOK
  <2> HIDE DEF e
  <2>3. IsFiniteSet(pending \cup {e})
    BY ONLY <2>2, FS_AddElement
  <2>4. IsFiniteSet(pending') /\ pending' \subseteq Event
    BY ONLY <2>1, <2>2, <2>3
  <2> QED
    BY <1>3, <2>4 DEF ThreadsOK, FlagsOK, DAQOK, FactoryOK, ReaderReads, Read, ReaderRunning
<1>4. CASE TimerExpires
  <2>5. ThreadsOK'
    BY <1>4 DEF ThreadsOK, TimerExpires, Read, ReaderRunning, WriterRunning
  <2>6. FlagsOK'
    BY <1>4 DEF FlagsOK, TimerExpires, Read
  <2>7. DAQOK'
    BY <1>4 DEF DAQOK, TimerExpires, Read
  <2>8. FactoryOK'
    BY <1>4 DEF FactoryOK, TimerExpires, Read
  <2> QED
    BY <1>4, <2>5, <2>6, <2>7, <2>8 DEF TimerExpires, Read
<1>5. CASE ReaderPolls
  <2>5. ThreadsOK'
    BY <1>5 DEF ThreadsOK, ReaderPolls, Read, ReaderRunning, WriterRunning
  <2>6. FlagsOK'
    BY <1>5 DEF FlagsOK, ReaderPolls, Read
  <2>7. DAQOK'
    BY <1>5 DEF DAQOK, ReaderPolls, Read
  <2>8. FactoryOK'
    BY <1>5 DEF FactoryOK, ReaderPolls, Read
  <2> QED
    BY <1>5, <2>5, <2>6, <2>7, <2>8 DEF ReaderPolls, Read
<1>6. CASE ReaderStops
  <2>5. ThreadsOK'
    BY <1>6 DEF ThreadsOK, ReaderStops, Read, ReaderRunning, WriterRunning
  <2>6. FlagsOK'
    BY <1>6 DEF FlagsOK, ReaderStops, Read
  <2>7. DAQOK'
    BY <1>6 DEF DAQOK, ReaderStops, Read
  <2>8. FactoryOK'
    BY <1>6 DEF FactoryOK, ReaderStops, Read
  <2> QED
    BY <1>6, <2>5, <2>6, <2>7, <2>8 DEF ReaderStops, Read
<1>7. CASE ReaderTells
  <2>5. ThreadsOK'
    BY <1>7 DEF ThreadsOK, ReaderTells, ReaderTellsStopped,
                ReaderTellsReady, Read, ReaderRunning, WriterRunning
  <2>6. FlagsOK'
    BY <1>7 DEF FlagsOK, ReaderTells, ReaderTellsStopped, ReaderTellsReady, Read
  <2>7. DAQOK'
    BY <1>7 DEF DAQOK, ReaderTells, ReaderTellsStopped, ReaderTellsReady, Read
  <2>8. FactoryOK'
    BY <1>7 DEF FactoryOK, ReaderTells, ReaderTellsStopped, ReaderTellsReady, Read
  <2> QED
    BY <1>7, <2>5, <2>6, <2>7, <2>8 DEF ReaderTells, ReaderTellsStopped,
                                        ReaderTellsReady, Read
<1>8. CASE ReaderExits
  <2>5. ThreadsOK'
    BY <1>8 DEF ThreadsOK, ReaderExits, Read, ReaderRunning, WriterRunning
  <2>6. FlagsOK'
    BY <1>8 DEF FlagsOK, ReaderExits, Read
  <2>7. DAQOK'
    BY <1>8 DEF DAQOK, ReaderExits, Read
  <2>8. FactoryOK'
    BY <1>8 DEF FactoryOK, ReaderExits, Read
  <2> QED
    BY <1>8, <2>5, <2>6, <2>7, <2>8 DEF ReaderExits, Read
<1>9. CASE ReaderUnpauses
  <2>5. ThreadsOK'
    BY <1>9 DEF ThreadsOK, ReaderUnpauses, Read, ReaderRunning, WriterRunning
  <2>6. FlagsOK'
    BY <1>9 DEF FlagsOK, ReaderUnpauses, Read
  <2>7. DAQOK'
    BY <1>9 DEF DAQOK, ReaderUnpauses, Read
  <2>8. FactoryOK'
    BY <1>9 DEF FactoryOK, ReaderUnpauses, Read
  <2> QED
    BY <1>9, <2>5, <2>6, <2>7, <2>8 DEF ReaderUnpauses, Read
<1> QED
  BY <1>1, <1>2, <1>3, <1>4, <1>5, <1>6, <1>7, <1>8, <1>9 DEF Reader

(* What FlushQueuesToDisk() leaves in the queues, records and counts. *)
LEMMA FlushType ==
  ASSUME TypeOK, NEW count \in BOOLEAN, Flush(count)
  PROVE  /\ pending' \subseteq Event /\ IsFiniteSet(pending')
         /\ recorded' \subseteq Event
         /\ nEvents' \in Nat
<1>1. PICK kept \in SUBSET pending : \E filled \in SUBSET (pending \ kept) :
        /\ pending' = kept
        /\ recorded' = recorded \cup filled
        /\ LET n == nEvents + Cardinality(filled)
           IN  nEvents' = IF ~count THEN 0 ELSE IF n > MaxCount THEN MaxCount ELSE n
  BY DEF Flush
<1>2. PICK filled \in SUBSET (pending \ kept) :
        /\ pending' = kept
        /\ recorded' = recorded \cup filled
        /\ LET n == nEvents + Cardinality(filled)
           IN  nEvents' = IF ~count THEN 0 ELSE IF n > MaxCount THEN MaxCount ELSE n
  BY <1>1
<1>3. IsFiniteSet(kept) /\ IsFiniteSet(filled)
  BY FS_Subset DEF TypeOK, DAQOK
<1>4. Cardinality(filled) \in Nat
  BY <1>3, FS_CardinalityType
<1>5. nEvents' \in Nat
  BY <1>2, <1>4, InteractiveAssumption DEF TypeOK, FactoryOK
<1> QED
  BY <1>2, <1>3, <1>5 DEF TypeOK, DAQOK, FactoryOK

LEMMA WriterType ==
  ASSUME TypeOK, Writer
  PROVE  TypeOK'
<1> USE DEF TypeOK
<1>1. CASE WriterFlushes \/ WriterStops
  <2>1. Flush(TRUE) \/ Flush(FALSE)
    BY <1>1 DEF WriterFlushes, WriterStops
  <2>2. /\ pending' \subseteq Event /\ IsFiniteSet(pending')
        /\ recorded' \subseteq Event /\ nEvents' \in Nat
    BY <2>1, FlushType
  <2>5. ThreadsOK'
    BY <1>1 DEF ThreadsOK, WriterFlushes, WriterStops, Write, ReaderRunning, WriterRunning
  <2>6. FlagsOK'
    BY <1>1 DEF FlagsOK, WriterFlushes, WriterStops, Write
  <2>7. DAQOK'
    BY <1>1, <2>2 DEF DAQOK, WriterFlushes, WriterStops, Write
  <2>8. FactoryOK'
    BY <1>1, <2>2 DEF FactoryOK, WriterFlushes, WriterStops, Write, DAQOK
  <2> QED
    BY <1>1, <2>5, <2>6, <2>7, <2>8 DEF WriterFlushes, WriterStops, Write
<1>2. CASE OpenRun("create") \/ OpenRun("adopt")
  <2>5. ThreadsOK'
    BY <1>2 DEF ThreadsOK, OpenRun, Write, ReaderRunning, WriterRunning
  <2>6. FlagsOK'
    BY <1>2 DEF FlagsOK, OpenRun, Write
  <2>7. DAQOK'
    BY <1>2 DEF DAQOK, OpenRun, Write
  <2>8. FactoryOK'
    BY <1>2 DEF FactoryOK, DAQOK, OpenRun, Write
  <2> QED
    BY <1>2, <2>5, <2>6, <2>7, <2>8 DEF OpenRun, Write
<1>3. CASE CountReached
  <2>5. ThreadsOK'
    BY <1>3 DEF ThreadsOK, CountReached, Write, ReaderRunning, WriterRunning
  <2>6. FlagsOK'
    BY <1>3 DEF FlagsOK, CountReached, Write
  <2>7. DAQOK'
    BY <1>3 DEF DAQOK, CountReached, Write
  <2>8. FactoryOK'
    BY <1>3 DEF FactoryOK, CountReached, Write
  <2> QED
    BY <1>3, <2>5, <2>6, <2>7, <2>8 DEF CountReached, Write
<1>4. CASE RotateFile
  <2>5. ThreadsOK'
    BY <1>4 DEF ThreadsOK, RotateFile, Write, ReaderRunning, WriterRunning
  <2>6. FlagsOK'
    BY <1>4 DEF FlagsOK, RotateFile, Write
  <2>7. DAQOK'
    BY <1>4 DEF DAQOK, RotateFile, Write
  <2>8. FactoryOK'
    BY <1>4 DEF FactoryOK, RotateFile, Write
  <2> QED
    BY <1>4, <2>5, <2>6, <2>7, <2>8 DEF RotateFile, Write
<1>5. CASE WriterPolls
  <2>5. ThreadsOK'
    BY <1>5 DEF ThreadsOK, WriterPolls, Write, ReaderRunning, WriterRunning
  <2>6. FlagsOK'
    BY <1>5 DEF FlagsOK, WriterPolls, Write
  <2>7. DAQOK'
    BY <1>5 DEF DAQOK, WriterPolls, Write
  <2>8. FactoryOK'
    BY <1>5 DEF FactoryOK, WriterPolls, Write
  <2> QED
    BY <1>5, <2>5, <2>6, <2>7, <2>8 DEF WriterPolls, Write
<1>6. CASE WriterExits
  <2>5. ThreadsOK'
    BY <1>6 DEF ThreadsOK, WriterExits, Write, ReaderRunning, WriterRunning
  <2>6. FlagsOK'
    BY <1>6 DEF FlagsOK, WriterExits, Write
  <2>7. DAQOK'
    BY <1>6 DEF DAQOK, WriterExits, Write
  <2>8. FactoryOK'
    BY <1>6 DEF FactoryOK, WriterExits, Write
  <2> QED
    BY <1>6, <2>5, <2>6, <2>7, <2>8 DEF WriterExits, Write
<1>7. CASE WriterUnpauses
  <2>5. ThreadsOK'
    BY <1>7 DEF ThreadsOK, WriterUnpauses, Write, ReaderRunning, WriterRunning
  <2>6. FlagsOK'
    BY <1>7 DEF FlagsOK, WriterUnpauses, Write
  <2>7. DAQOK'
    BY <1>7 DEF DAQOK, WriterUnpauses, Write
  <2>8. FactoryOK'
    BY <1>7 DEF FactoryOK, WriterUnpauses, Write
  <2> QED
    BY <1>7, <2>5, <2>6, <2>7, <2>8 DEF WriterUnpauses, Write
<1> QED
  BY <1>1, <1>2, <1>3, <1>4, <1>5, <1>6, <1>7 DEF Writer

LEMMA TypeStep == TypeOK /\ [Next]_vars => TypeOK'
<1>1. ASSUME TypeOK, UNCHANGED vars PROVE TypeOK'
  BY <1>1 DEF TypeOK, ThreadsOK, FlagsOK, DAQOK, FactoryOK
<1> QED
  BY <1>1, BeforeType, CommandType, MainType, ReaderType, WriterType DEF Next

-----------------------------------------------------------------------------
(* What each thread knows.                                                   *)

(* Before the first run there are no other threads. *)
LEMMA FirstRunStep ==
  ASSUME ThreadsInStep, FirstRun
  PROVE  ReaderInStep' /\ WriterInStep' /\ MessagesInStep'
<1>1. /\ readAt = "none" /\ readAt' = "boot" /\ writeAt' = "boot" /\ mainAt' = "boot"
      /\ ready' = ready /\ isStopped' = isStopped
  BY DEF FirstRun, Main, ThreadsInStep, ReaderInStep
<1> QED
  BY <1>1
  DEF ThreadsInStep, ReaderInStep, WriterInStep, MessagesInStep, ReaderRunning, WriterRunning

(* main() leaves what the other threads rely on, except that it may set quit *)
(* and clear digitizerReady, which takes nothing from either.                *)
LEMMA MainLeaves ==
  ASSUME TypeOK, QuitBefore \/ (\E c \in Configs : ConfigureBefore(c)) \/ TakeCommand \/ MainHandles
  PROVE  /\ UNCHANGED <<daq, acquiring, isStopped, factory, readAt, writeAt>>
         /\ quit => quit'
         /\ ready' => ready
         /\ mainAt' = "before" => mainAt = "before"
<1>1. CASE QuitBefore \/ (\E c \in Configs : ConfigureBefore(c))
  BY <1>1 DEF QuitBefore, ConfigureBefore, Main, WorkersStay, TypeOK
<1>2. CASE TakeCommand
  BY <1>2
  DEF TakeCommand, Command, Main, Quit, Pause, Unpause, StartTimed, StartNEvents, TypeOK,
      Configure, Restart, StopRun, Rotate
<1>3. CASE MainHandles
  BY <1>3
  DEF MainHandles, MainStores, SetEvents, RestartWait, MainAwait, Main, WorkersStay, TypeOK
<1> QED
  BY <1>1, <1>2, <1>3

LEMMA MainStep ==
  ASSUME ThreadsInStep,
         QuitBefore \/ (\E c \in Configs : ConfigureBefore(c)) \/ TakeCommand \/ MainHandles
  PROVE  ReaderInStep' /\ WriterInStep' /\ MessagesInStep'
<1>1. TypeOK
  BY DEF ThreadsInStep
<1>2. /\ UNCHANGED <<daq, acquiring, isStopped, factory, readAt, writeAt>>
      /\ quit => quit'
      /\ ready' => ready
      /\ mainAt' = "before" => mainAt = "before"
  BY <1>1, MainLeaves
<1>3. ReaderInStep'
  BY <1>2 DEF ThreadsInStep, ReaderInStep
<1>4. WriterInStep'
  BY <1>2 DEF ThreadsInStep, WriterInStep
<1>5. MessagesInStep'
  BY <1>2 DEF ThreadsInStep, MessagesInStep
<1> QED
  BY <1>3, <1>4, <1>5

LEMMA ReaderStep ==
  ASSUME ThreadsInStep, Reader
  PROVE  ReaderInStep' /\ WriterInStep' /\ MessagesInStep'
<1>1. TypeOK
  BY DEF ThreadsInStep
<1>2. UNCHANGED <<mainAt, writeAt, quit, factory>>
  BY DEF Reader, Read, ReaderConnects, ReaderStarts, ReaderReads, TimerExpires,
         ReaderUnpauses, ReaderPolls, ReaderStops, ReaderTells, ReaderTellsStopped,
         ReaderTellsReady, ReaderExits
<1>3. WriterInStep'
  BY <1>2 DEF ThreadsInStep, WriterInStep
<1>4. readAt # "none" /\ readAt' # "none"
  BY DEF Reader, Read, ReaderConnects, ReaderStarts, ReaderReads, TimerExpires,
         ReaderUnpauses, ReaderPolls, ReaderStops, ReaderTells, ReaderTellsStopped,
         ReaderTellsReady, ReaderExits
<1>5. ReaderInStep'
  BY <1>1, <1>2, <1>4
  DEF ThreadsInStep, ReaderInStep, ReaderRunning, TypeOK, StartAcquisition,
      Reader, Read, ReaderConnects, ReaderStarts, ReaderReads, TimerExpires,
      ReaderUnpauses, ReaderPolls, ReaderStops, ReaderTells, ReaderTellsStopped,
      ReaderTellsReady, ReaderExits
<1>6. MessagesInStep'
  BY <1>1, <1>2, <1>4
  DEF ThreadsInStep, MessagesInStep, ReaderRunning, TypeOK,
      Reader, Read, ReaderConnects, ReaderStarts, ReaderReads, TimerExpires,
      ReaderUnpauses, ReaderPolls, ReaderStops, ReaderTells, ReaderTellsStopped,
      ReaderTellsReady, ReaderExits
<1> QED
  BY <1>3, <1>5, <1>6

LEMMA WriterStep ==
  ASSUME ThreadsInStep, Writer
  PROVE  ReaderInStep' /\ WriterInStep' /\ MessagesInStep'
<1>1. TypeOK
  BY DEF ThreadsInStep
<1>2. /\ UNCHANGED <<mainAt, readAt, quit, daq, acquiring, ready, isStopped>>
      /\ writeAt # "none" /\ writeAt' # "none"
  BY DEF Writer, Write, OpenRun, WriterFlushes, CountReached, WriterUnpauses, RotateFile,
         WriterPolls, WriterStops, WriterExits
<1>3. ReaderInStep' /\ MessagesInStep'
  BY <1>2 DEF ThreadsInStep, ReaderInStep, MessagesInStep
<1>4. WriterInStep'
  BY <1>1, <1>2
  DEF ThreadsInStep, WriterInStep, WriterRunning, TypeOK, Writer, Write, OpenRun,
      WriterFlushes, CountReached, WriterUnpauses, RotateFile, WriterPolls, WriterStops,
      WriterExits
<1> QED
  BY <1>3, <1>4

LEMMA InStepInit == Init => ThreadsInStep
BY TypeInit
DEF Init, ThreadsInStep, ReaderInStep, WriterInStep, MessagesInStep, ReaderRunning,
    WriterRunning

LEMMA InStepNext == ThreadsInStep /\ [Next]_vars => ThreadsInStep'
<1> SUFFICES ASSUME ThreadsInStep, [Next]_vars
             PROVE  ThreadsInStep'
  OBVIOUS
<1>1. TypeOK'
  BY TypeStep DEF ThreadsInStep
<1>2. ReaderInStep' /\ WriterInStep' /\ MessagesInStep'
  <2>1. CASE UNCHANGED vars
    BY <2>1 DEF ThreadsInStep, ReaderInStep, WriterInStep, MessagesInStep
  <2>2. CASE Next
    BY <2>2, FirstRunStep, MainStep, ReaderStep, WriterStep DEF Next, BeforeRun
  <2> QED
    BY <2>1, <2>2
<1> QED
  BY <1>1, <1>2 DEF ThreadsInStep

-----------------------------------------------------------------------------
(* Whatever the operator does, however fast, and whenever a run ends by      *)
(* itself: the boards are read only while they acquire, events meet an open  *)
(* file, and digitizerReady and digitizerIsStopped are never up together.    *)
THEOREM ThreadsStayInStep == Spec => []ThreadsInStep
BY InStepInit, InStepNext, PTL DEF Spec

-----------------------------------------------------------------------------
(* Runs and acquisitions, with an operator who takes the time the threads    *)
(* need: a run goes through stages, which the threads enter together.        *)

(* Where each thread is while it ends or starts a run. *)
RStopping == {"timerUnpause", "unready", "announceStopped", "stopLoop"}
RStarting == {"stopLoop", "restartCheck", "initialize"}
RStarted == {"clearStopped", "announceReady"} \cup ReaderRunning

WRun == WriterRunning \cup {"countUnpause", "rotateClear"}
WStopping == {"awaitStopped", "stopLoop"}
WStarting == {"restartCheck", "awaitReady", "adopt"}

(* The stages. *)
Unborn == readAt = "none" /\ writeAt = "none"

Booting ==
  /\ writeAt \in {"boot", "create"}
  /\ readAt \in {"boot", "announceReady"} \cup ReaderRunning
  /\ writeAt = "create" => readAt \in ReaderRunning

BothRunning == writeAt \in WRun /\ readAt \in ReaderRunning

Stopping == writeAt \in WRun \cup WStopping /\ readAt \in ReaderRunning \cup RStopping

Starting ==
  \/ writeAt = "stopLoop" /\ readAt \in RStarting
  \/ /\ writeAt \in WStarting /\ readAt \in RStarting \cup RStarted
     /\ writeAt = "adopt" => readAt \in ReaderRunning

Quitting ==
  /\ writeAt \in WRun \cup WStopping \cup {"restartCheck", "exit"}
  /\ readAt \in ReaderRunning \cup RStopping \cup {"restartCheck", "exit"}

(* Reader and writer are in the same stage of a run. *)
StagesInv ==
  /\ quit => Quitting
  /\ ~quit /\ stop => Stopping
  /\ ~quit /\ ~stop => Unborn \/ Booting \/ BothRunning \/ Starting

(* The threads are not there before the first run; a run is started when     *)
(* both have stopped.                                                        *)
MainInv ==
  /\ quit => mainAt \in {"join", "exit"}
  /\ mainAt = "before" => Unborn
  /\ mainAt \in {"setEvents", "clearReady", "clearStop"}
       => stop /\ readAt = "stopLoop" /\ writeAt = "stopLoop"
  /\ mainAt \notin {"restartStop", "restartWait", "restartParked"}

(* The reader has begun the acquisition of a run the writer has yet to open. *)
Ahead ==
  \/ writeAt \in {"boot", "create"} /\ readAt # "boot"
  \/ writeAt \in WStarting /\ readAt \in RStarted /\ ~quit

(* The run list and the boards have counted the same starts. *)
NumbersInv == acquisition = IF Ahead THEN runNumber + 1 ELSE runNumber

(* interactive_configure is heard between runs only; an event in the queues  *)
(* or the file is of an acquisition that began, and the newest carry the     *)
(* configuration that the boards and the file have.                          *)
LabelsInv ==
  /\ ~quit /\ readAt \notin {"none", "boot"} \cup RStarting => daqCfg = boardCfg
  /\ \A e \in pending \cup recorded :
       e.acq <= acquisition /\ (e.acq = acquisition => e.cfg = boardCfg)
  /\ \A e \in recorded : e.acq <= runNumber /\ (e.acq = runNumber => e.cfg = factoryCfg)
  /\ acquisition = runNumber /\ writeAt \notin {"none", "boot", "create"}
       => factoryCfg = boardCfg

PacedInv == paced => StagesInv /\ MainInv /\ NumbersInv /\ LabelsInv

(* The operator waits for the threads to poll. *)
Waits == paced

LEMMA PacedInit == Init => PacedInv
  BY DEF Init, PacedInv, StagesInv, Unborn, MainInv, NumbersInv, Ahead, LabelsInv, WStarting

(* Reader and writer leave a stage of the run together. *)
LEMMA StagesStep ==
  ASSUME Waits, ThreadsInStep, StagesInv, MainInv, [Next]_vars
  PROVE  StagesInv'
<1>0. ready => readAt \notin {"none", "boot", "announceStopped", "stopLoop", "restartCheck",
                              "initialize", "clearStopped", "announceReady"}
  BY DEF ThreadsInStep, MessagesInStep
<1> USE DEF StagesInv, Unborn, Booting, BothRunning, Stopping, Starting, Quitting,
           RStopping, RStarting, RStarted, WRun, WStopping, WStarting,
           ReaderRunning, WriterRunning, MainInv,
           Settled, EndsByItself
<1>1. CASE BeforeRun
  BY <1>1
  DEF BeforeRun, QuitBefore, ConfigureBefore, FirstRun, SetTimed, Main, WorkersStay
<1>2. CASE TakeCommand
  BY <1>2
  DEF Waits, TakeCommand, Command, Main, Quit, Pause, Unpause, StartTimed,
      StartNEvents, SetTimed, Configure, Restart, StopRun, Rotate
<1>3. CASE MainHandles
  BY <1>3
  DEF MainHandles, MainStores, SetEvents, RestartWait, MainAwait, Main, WorkersStay
<1>4. CASE Reader
  <2>1. CASE ReaderConnects
    BY <2>1 DEF Waits, Read, StartAcquisition, ReaderConnects
  <2>2. CASE ReaderStarts
    BY <2>2 DEF Waits, Read, StartAcquisition, ReaderStarts
  <2>3. CASE ReaderReads
    BY <2>3 DEF Read, ReaderReads
  <2>4. CASE TimerExpires
    BY <2>4 DEF Waits, Read, TimerExpires
  <2>5. CASE ReaderUnpauses
    BY <2>5 DEF Read, ReaderUnpauses
  <2>6. CASE ReaderPolls
    BY <2>6 DEF Read, ReaderPolls
  <2>7. CASE ReaderStops
    BY <2>7 DEF Read, ReaderStops
  <2>8. CASE ReaderTells
    BY <2>8 DEF Read, ReaderTells, ReaderTellsStopped, ReaderTellsReady
  <2>9. CASE ReaderExits
    BY <2>9 DEF Read, ReaderExits
  <2> QED
    BY <1>4, <2>1, <2>2, <2>3, <2>4, <2>5, <2>6, <2>7, <2>8, <2>9 DEF Reader
<1>5. CASE Writer
  <2>1. CASE OpenRun("create")
    BY <1>0, <2>1 DEF Write, OpenRun
  <2>2. CASE OpenRun("adopt")
    BY <1>0, <2>2 DEF Write, OpenRun
  <2>3. CASE WriterFlushes
    BY <1>0, <2>3 DEF Write, WriterFlushes
  <2>4. CASE CountReached
    BY <1>0, <2>4 DEF Waits, Write, CountReached
  <2>5. CASE WriterUnpauses
    BY <1>0, <2>5 DEF Write, WriterUnpauses
  <2>6. CASE RotateFile
    BY <1>0, <2>6 DEF Write, RotateFile
  <2>7. CASE WriterPolls
    BY <1>0, <2>7 DEF Write, WriterPolls
  <2>8. CASE WriterStops
    BY <1>0, <2>8 DEF Write, WriterStops
  <2>9. CASE WriterExits
    BY <1>0, <2>9 DEF Write, WriterExits
  <2> QED
    BY <1>5, <2>1, <2>2, <2>3, <2>4, <2>5, <2>6, <2>7, <2>8, <2>9 DEF Writer
<1>6. CASE UNCHANGED vars
  BY <1>6
<1> QED
  BY <1>1, <1>2, <1>3, <1>4, <1>5, <1>6 DEF Next

(* Main starts and stops runs between the stages. *)
LEMMA MainStageStep ==
  ASSUME Waits, ThreadsInStep, StagesInv, MainInv, [Next]_vars
  PROVE  MainInv'
<1>0. ready => readAt \notin {"none", "boot", "announceStopped", "stopLoop", "restartCheck",
                              "initialize", "clearStopped", "announceReady"}
  BY DEF ThreadsInStep, MessagesInStep
<1> USE DEF StagesInv, Unborn, Booting, BothRunning, Stopping, Starting, Quitting,
           RStopping, RStarting, RStarted, WRun, WStopping, WStarting,
           ReaderRunning, WriterRunning, MainInv,
           Settled, EndsByItself
<1>1. CASE BeforeRun
  BY <1>1
  DEF BeforeRun, QuitBefore, ConfigureBefore, FirstRun, SetTimed, Main, WorkersStay
<1>2. CASE TakeCommand
  <2>1. CASE Quit
    BY <2>1 DEF Waits, Command, Main, Quit
  <2>2. CASE Pause
    BY <2>2 DEF Waits, Command, Main, Pause
  <2>3. CASE Unpause
    BY <2>3 DEF Waits, Command, Main, Unpause
  <2>4. CASE StartNEvents
    BY <2>4 DEF Waits, Command, Main, StartNEvents
  <2>5. CASE Restart
    BY <2>5 DEF Waits, Command, Main, Restart
  <2>6. CASE StopRun
    BY <2>6 DEF Waits, Command, Main, StopRun
  <2>7. CASE Rotate
    BY <2>7 DEF Waits, Command, Main, Rotate
  <2>8. CASE \E b \in BOOLEAN : StartTimed(b)
    BY <2>8 DEF Waits, Command, Main, StartTimed, SetTimed
  <2>9. CASE \E c \in Configs : Configure(c)
    BY <2>9 DEF Waits, Command, Main, Configure
  <2> QED
    BY <1>2, <2>1, <2>2, <2>3, <2>4, <2>5, <2>6, <2>7, <2>8, <2>9 DEF TakeCommand
<1>3. CASE MainHandles
  BY <1>3
  DEF MainHandles, MainStores, SetEvents, RestartWait, MainAwait, Main, WorkersStay
<1>4. CASE Reader
  <2>1. CASE ReaderConnects
    BY <2>1 DEF Waits, Read, StartAcquisition, ReaderConnects
  <2>2. CASE ReaderStarts
    BY <2>2 DEF Waits, Read, StartAcquisition, ReaderStarts
  <2>3. CASE ReaderReads
    BY <2>3 DEF Read, ReaderReads
  <2>4. CASE TimerExpires
    BY <2>4 DEF Waits, Read, TimerExpires
  <2>5. CASE ReaderUnpauses
    BY <2>5 DEF Read, ReaderUnpauses
  <2>6. CASE ReaderPolls
    BY <2>6 DEF Read, ReaderPolls
  <2>7. CASE ReaderStops
    BY <2>7 DEF Read, ReaderStops
  <2>8. CASE ReaderTells
    BY <2>8 DEF Read, ReaderTells, ReaderTellsStopped, ReaderTellsReady
  <2>9. CASE ReaderExits
    BY <2>9 DEF Read, ReaderExits
  <2> QED
    BY <1>4, <2>1, <2>2, <2>3, <2>4, <2>5, <2>6, <2>7, <2>8, <2>9 DEF Reader
<1>5. CASE Writer
  <2>1. CASE OpenRun("create")
    BY <1>0, <2>1 DEF Write, OpenRun
  <2>2. CASE OpenRun("adopt")
    BY <1>0, <2>2 DEF Write, OpenRun
  <2>3. CASE WriterFlushes
    BY <1>0, <2>3 DEF Write, WriterFlushes
  <2>4. CASE CountReached
    BY <1>0, <2>4 DEF Waits, Write, CountReached
  <2>5. CASE WriterUnpauses
    BY <1>0, <2>5 DEF Write, WriterUnpauses
  <2>6. CASE RotateFile
    BY <1>0, <2>6 DEF Write, RotateFile
  <2>7. CASE WriterPolls
    BY <1>0, <2>7 DEF Write, WriterPolls
  <2>8. CASE WriterStops
    BY <1>0, <2>8 DEF Write, WriterStops
  <2>9. CASE WriterExits
    BY <1>0, <2>9 DEF Write, WriterExits
  <2> QED
    BY <1>5, <2>1, <2>2, <2>3, <2>4, <2>5, <2>6, <2>7, <2>8, <2>9 DEF Writer
<1>6. CASE UNCHANGED vars
  BY <1>6
<1> QED
  BY <1>1, <1>2, <1>3, <1>4, <1>5, <1>6 DEF Next

(* A run and its acquisition are begun once per stage. *)
LEMMA NumbersStep ==
  ASSUME Waits, ThreadsInStep, StagesInv, MainInv, NumbersInv, [Next]_vars
  PROVE  NumbersInv'
<1>0. ready => readAt \notin {"none", "boot", "announceStopped", "stopLoop", "restartCheck",
                              "initialize", "clearStopped", "announceReady"}
  BY DEF ThreadsInStep, MessagesInStep
<1> USE DEF StagesInv, Unborn, Booting, BothRunning, Stopping, Starting, Quitting,
           RStopping, RStarting, RStarted, WRun, WStopping, WStarting,
           ReaderRunning, WriterRunning, MainInv,
           NumbersInv, Ahead, 
           Settled, EndsByItself
<1>1. CASE BeforeRun
  BY <1>1
  DEF BeforeRun, QuitBefore, ConfigureBefore, FirstRun, SetTimed, Main, WorkersStay
<1>2. CASE TakeCommand
  BY <1>2
  DEF Waits, TakeCommand, Command, Main, Quit, Pause, Unpause, StartTimed,
      StartNEvents, SetTimed, Configure, Restart, StopRun, Rotate
<1>3. CASE MainHandles
  BY <1>3
  DEF MainHandles, MainStores, SetEvents, RestartWait, MainAwait, Main, WorkersStay
<1>4. CASE Reader
  <2>1. CASE ReaderConnects
    BY <2>1 DEF Waits, Read, StartAcquisition, ReaderConnects
  <2>2. CASE ReaderStarts
    BY <2>2 DEF Waits, Read, StartAcquisition, ReaderStarts
  <2>3. CASE ReaderReads
    BY <2>3 DEF Read, ReaderReads
  <2>4. CASE TimerExpires
    BY <2>4 DEF Waits, Read, TimerExpires
  <2>5. CASE ReaderUnpauses
    BY <2>5 DEF Read, ReaderUnpauses
  <2>6. CASE ReaderPolls
    BY <2>6 DEF Read, ReaderPolls
  <2>7. CASE ReaderStops
    BY <2>7 DEF Read, ReaderStops
  <2>8. CASE ReaderTells
    BY <2>8 DEF Read, ReaderTells, ReaderTellsStopped, ReaderTellsReady
  <2>9. CASE ReaderExits
    BY <2>9 DEF Read, ReaderExits
  <2> QED
    BY <1>4, <2>1, <2>2, <2>3, <2>4, <2>5, <2>6, <2>7, <2>8, <2>9 DEF Reader
<1>5. CASE Writer
  <2>1. CASE OpenRun("create")
    BY <1>0, <2>1 DEF Write, OpenRun
  <2>2. CASE OpenRun("adopt")
    BY <1>0, <2>2 DEF Write, OpenRun
  <2>3. CASE WriterFlushes
    BY <1>0, <2>3 DEF Write, WriterFlushes
  <2>4. CASE CountReached
    BY <1>0, <2>4 DEF Waits, Write, CountReached
  <2>5. CASE WriterUnpauses
    BY <1>0, <2>5 DEF Write, WriterUnpauses
  <2>6. CASE RotateFile
    BY <1>0, <2>6 DEF Write, RotateFile
  <2>7. CASE WriterPolls
    BY <1>0, <2>7 DEF Write, WriterPolls
  <2>8. CASE WriterStops
    BY <1>0, <2>8 DEF Write, WriterStops
  <2>9. CASE WriterExits
    BY <1>0, <2>9 DEF Write, WriterExits
  <2> QED
    BY <1>5, <2>1, <2>2, <2>3, <2>4, <2>5, <2>6, <2>7, <2>8, <2>9 DEF Writer
<1>6. CASE UNCHANGED vars
  BY <1>6
<1> QED
  BY <1>1, <1>2, <1>3, <1>4, <1>5, <1>6 DEF Next

(* Events carry the acquisition they come from into that run's file. *)
LEMMA LabelsStep ==
  ASSUME Waits, ThreadsInStep, StagesInv, MainInv, NumbersInv, LabelsInv, [Next]_vars
  PROVE  LabelsInv'
<1>0. ready => readAt \notin {"none", "boot", "announceStopped", "stopLoop", "restartCheck",
                              "initialize", "clearStopped", "announceReady"}
  BY DEF ThreadsInStep, MessagesInStep
<1> USE DEF StagesInv, Unborn, Booting, BothRunning, Stopping, Starting, Quitting,
           RStopping, RStarting, RStarted, WRun, WStopping, WStarting,
           ReaderRunning, WriterRunning, MainInv,
           LabelsInv, NumbersInv, Ahead, TypeOK, DAQOK, FactoryOK, Event, ThreadsInStep,
           Settled, EndsByItself
<1>1. CASE BeforeRun
  BY <1>1
  DEF BeforeRun, QuitBefore, ConfigureBefore, FirstRun, SetTimed, Main, WorkersStay
<1>2. CASE TakeCommand
  BY ZenonT(40), <1>2
  DEF Waits, TakeCommand, Command, Main, Quit, Pause, Unpause, StartTimed,
      StartNEvents, SetTimed, Configure, Restart, StopRun, Rotate
<1>3. CASE MainHandles
  BY <1>3
  DEF MainHandles, MainStores, SetEvents, RestartWait, MainAwait, Main, WorkersStay
<1>4. CASE Reader
  <2>1. CASE ReaderConnects
    BY <2>1 DEF Waits, Read, StartAcquisition, ReaderConnects
  <2>2. CASE ReaderStarts
    BY <2>2 DEF Waits, Read, StartAcquisition, ReaderStarts
  <2>3. CASE ReaderReads
    BY <2>3 DEF Read, ReaderReads
  <2>4. CASE TimerExpires
    BY <2>4 DEF Waits, Read, TimerExpires
  <2>5. CASE ReaderUnpauses
    BY <2>5 DEF Read, ReaderUnpauses
  <2>6. CASE ReaderPolls
    BY <2>6 DEF Read, ReaderPolls
  <2>7. CASE ReaderStops
    BY <2>7 DEF Read, ReaderStops
  <2>8. CASE ReaderTells
    BY <2>8 DEF Read, ReaderTells, ReaderTellsStopped, ReaderTellsReady
  <2>9. CASE ReaderExits
    BY <2>9 DEF Read, ReaderExits
  <2> QED
    BY <1>4, <2>1, <2>2, <2>3, <2>4, <2>5, <2>6, <2>7, <2>8, <2>9 DEF Reader
<1>5. CASE Writer
  <2>1. CASE OpenRun("create")
    BY <1>0, <2>1 DEF Write, OpenRun
  <2>2. CASE OpenRun("adopt")
    BY <1>0, <2>2 DEF Write, OpenRun
  <2>3. CASE WriterFlushes
    BY <1>0, <2>3 DEF Write, Flush, WriterFlushes
  <2>4. CASE CountReached
    BY <1>0, <2>4 DEF Waits, Write, CountReached
  <2>5. CASE WriterUnpauses
    BY <1>0, <2>5 DEF Write, WriterUnpauses
  <2>6. CASE RotateFile
    BY <1>0, <2>6 DEF Write, RotateFile
  <2>7. CASE WriterPolls
    BY <1>0, <2>7 DEF Write, WriterPolls
  <2>8. CASE WriterStops
    BY <1>0, <2>8 DEF Write, Flush, WriterStops
  <2>9. CASE WriterExits
    BY <1>0, <2>9 DEF Write, WriterExits
  <2> QED
    BY <1>5, <2>1, <2>2, <2>3, <2>4, <2>5, <2>6, <2>7, <2>8, <2>9 DEF Writer
<1>6. CASE UNCHANGED vars
  BY <1>6
<1> QED
  BY <1>1, <1>2, <1>3, <1>4, <1>5, <1>6 DEF Next

(* The threads keep the stages of a run together, with a paced operator. *)
LEMMA PacedInvariant == Spec => []PacedInv
<1>1. ThreadsInStep /\ PacedInv /\ [Next]_vars => PacedInv'
  <2> SUFFICES ASSUME ThreadsInStep, PacedInv, [Next]_vars, paced'
               PROVE  (StagesInv /\ MainInv /\ NumbersInv /\ LabelsInv)'
    BY DEF PacedInv
  <2>1. Waits
    BY DEF Waits, Next, BeforeRun, QuitBefore, ConfigureBefore, FirstRun, TakeCommand, Command, Main,
           Quit, Pause, Unpause, StartTimed, StartNEvents, Configure, Restart, StopRun, Rotate,
           MainHandles, MainStores, SetEvents, RestartWait, MainAwait, Reader, Read,
           ReaderConnects, ReaderStarts, ReaderReads, TimerExpires, ReaderUnpauses, ReaderPolls,
           ReaderStops, ReaderTells, ReaderTellsStopped,
           ReaderTellsReady, ReaderExits, Writer, Write, OpenRun, WriterFlushes,
           CountReached, WriterUnpauses, RotateFile, WriterPolls, WriterStops, WriterExits
  <2> QED
    BY <2>1, StagesStep, MainStageStep, NumbersStep, LabelsStep DEF PacedInv, Waits
<1> QED
  BY PacedInit, ThreadsStayInStep, <1>1, PTL DEF Spec

(* When the operator leaves the threads their time, no event is written      *)
(* under a run that began before the event was acquired, a file's            *)
(* configuration is the one its run's events were acquired with, and while   *)
(* both threads run the run, the boards and theDAQ agree, whatever           *)
(* interactive_configure did in between.                                     *)
THEOREM RunsLabelledTheorem == Spec => []RunsLabelled
<1>1. PacedInv => RunsLabelled
  BY DEF PacedInv, NumbersInv, LabelsInv, Ahead, WStarting, WriterRunning, ReaderRunning,
         RStarting, RunsLabelled
<1> QED
  BY <1>1, PacedInvariant, PTL

-----------------------------------------------------------------------------
(* The program implements DataTaking.                                        *)

(* The boards do not acquire until they are initialized; the file is none    *)
(* before the first run, and there to be finished when the program is quit.  *)
BoardsInv ==
  readAt \in {"none", "boot", "unready", "announceStopped", "stopLoop", "restartCheck",
             "initialize"} => ~acquiring

FileInv ==
  /\ writeAt \in {"none", "boot", "create"} => factory = "none"
  /\ writeAt = "flush" => factory \in {"open", "closed"}

DataInv == ThreadsInStep /\ PacedInv /\ BoardsInv /\ FileInv

LEMMA BoardsStep == ThreadsInStep /\ BoardsInv /\ [Next]_vars => BoardsInv'
<1> SUFFICES ASSUME ThreadsInStep, BoardsInv, [Next]_vars PROVE BoardsInv'
  OBVIOUS
<1> USE DEF BoardsInv
<1>1. CASE BeforeRun
  BY <1>1
  DEF ThreadsInStep, ReaderInStep, BeforeRun, QuitBefore, ConfigureBefore, FirstRun, Main,
      WorkersStay, daqVars
<1>2. CASE TakeCommand
  BY <1>2
  DEF TakeCommand, Command, Main, Quit, Pause, Unpause, StartTimed, StartNEvents, Configure,
      Restart, StopRun, Rotate, daqVars
<1>3. CASE MainHandles
  BY <1>3
  DEF MainHandles, MainStores, SetEvents, RestartWait, MainAwait, Main, WorkersStay, daqVars
<1>4. CASE Reader
  BY <1>4
  DEF Reader, Read, StartAcquisition, ReaderConnects, ReaderStarts, ReaderReads, TimerExpires,
      ReaderUnpauses, ReaderPolls, ReaderStops, ReaderTells, ReaderTellsStopped,
      ReaderTellsReady, ReaderExits, daqVars
<1>5. CASE Writer
  BY <1>5
  DEF Writer, Write, OpenRun, WriterFlushes, CountReached, WriterUnpauses, RotateFile,
      WriterPolls, WriterStops, WriterExits, daqVars
<1>6. CASE UNCHANGED vars
  BY <1>6 DEF vars, threadVars, daqVars
<1> QED
  BY <1>1, <1>2, <1>3, <1>4, <1>5, <1>6 DEF Next

LEMMA FileStep == ThreadsInStep /\ FileInv /\ [Next]_vars => FileInv'
<1> SUFFICES ASSUME ThreadsInStep, FileInv, [Next]_vars PROVE FileInv'
  OBVIOUS
<1> USE DEF FileInv
<1>1. CASE BeforeRun
  BY <1>1
  DEF ThreadsInStep, WriterInStep, BeforeRun, QuitBefore, ConfigureBefore, FirstRun, Main,
      WorkersStay, factoryVars
<1>2. CASE TakeCommand
  BY <1>2
  DEF TakeCommand, Command, Main, Quit, Pause, Unpause, StartTimed, StartNEvents, Configure,
      Restart, StopRun, Rotate, factoryVars
<1>3. CASE MainHandles
  BY <1>3
  DEF MainHandles, MainStores, SetEvents, RestartWait, MainAwait, Main, WorkersStay, factoryVars
<1>4. CASE Reader
  BY <1>4
  DEF Reader, Read, ReaderConnects, ReaderStarts, ReaderReads, TimerExpires,
      ReaderUnpauses, ReaderPolls, ReaderStops, ReaderTells, ReaderTellsStopped,
      ReaderTellsReady, ReaderExits, factoryVars
<1>5. CASE Writer
  BY <1>5
  DEF Writer, Write, OpenRun, WriterFlushes, CountReached, WriterUnpauses, RotateFile,
      WriterPolls, WriterStops, WriterExits, factoryVars, ThreadsInStep, WriterInStep,
      WriterRunning
<1>6. CASE UNCHANGED vars
  BY <1>6 DEF vars, threadVars, factoryVars
<1> QED
  BY <1>1, <1>2, <1>3, <1>4, <1>5, <1>6 DEF Next

LEMMA DataInvariant == Spec => []DataInv
<1>1. Init => BoardsInv /\ FileInv
  BY DEF Init, BoardsInv, FileInv
<1>2. ThreadsInStep /\ PacedInv /\ BoardsInv /\ FileInv => DataInv
  BY DEF DataInv
<1> QED
  BY <1>1, <1>2, ThreadsStayInStep, PacedInvariant, BoardsStep, FileStep, PTL DEF Spec

LEMMA DataInit == Init => Data!Init
BY InteractiveAssumption DEF Init, Data!Init

(* main() does not touch the boards or the file. *)
LEMMA MainLeavesData ==
  ASSUME BeforeRun \/ TakeCommand \/ MainHandles
  PROVE  UNCHANGED Data!vars
BY DEF Data!vars, Data!boards, Data!output, BeforeRun, QuitBefore, ConfigureBefore, FirstRun,
       TakeCommand, Command, Main, Quit, Pause, Unpause, StartTimed, StartNEvents, Configure,
       Restart, StopRun, Rotate, MainHandles, MainStores, SetEvents, RestartWait, MainAwait,
       daqVars, factoryVars

(* The reader starts boards that are stopped: of a paced operator, when the  *)
(* last run is finished.                                                     *)
LEMMA ReaderStartsBoards ==
  ASSUME DataInv, DataInv', ReaderConnects \/ ReaderStarts
  PROVE  Data!StartAcquisition
<1>1. readAt \in {"boot", "initialize"}
  BY DEF ReaderConnects, ReaderStarts, Read
<1>2. ~acquiring
  BY <1>1 DEF DataInv, BoardsInv
<1>3. ASSUME paced
      PROVE  factory \in {"none", "closed"} /\ acquisition = runNumber
  <2>1. ThreadsInStep /\ StagesInv /\ NumbersInv
    BY <1>3 DEF DataInv, PacedInv
  <2>2. (Booting /\ readAt = "boot") \/ Starting
    BY <1>1, <2>1
    DEF StagesInv, Quitting, Stopping, Unborn, Booting, BothRunning, RStopping, ReaderRunning
  <2>3. CASE Booting /\ readAt = "boot"
    BY <2>1, <2>3
    DEF DataInv, FileInv, Booting, NumbersInv, Ahead, WStarting, RStarted, ReaderRunning
  <2>4. CASE Starting
    BY <1>1, <2>1, <2>4
    DEF Starting, ThreadsInStep, WriterInStep, NumbersInv, Ahead, WStarting, RStarted,
        ReaderRunning
  <2> QED
    BY <2>2, <2>3, <2>4
<1>4. boardCfg' \in Configs
  BY DEF DataInv, ThreadsInStep, TypeOK, DAQOK
<1> QED
  BY <1>2, <1>3, <1>4
  DEF Data!StartAcquisition, Data!output, ReaderConnects, ReaderStarts, StartAcquisition, Read,
      factoryVars

LEMMA ReaderData ==
  ASSUME DataInv, DataInv', Reader
  PROVE  [Data!Next]_(Data!vars)
<1> USE DEF Data!Next, Read, factoryVars
<1>1. CASE ReaderConnects \/ ReaderStarts
  BY <1>1, ReaderStartsBoards
<1>2. CASE ReaderReads
  <2>1. acquiring
    BY <1>2 DEF DataInv, ThreadsInStep, ReaderInStep, ReaderReads
  <2> QED
    BY <1>2, <2>1
    DEF ReaderReads, Data!Trigger, Data!boards, Data!output, Data!vars, daqVars
<1>3. CASE ReaderStops \/ ReaderExits
  <2>1. ASSUME paced PROVE acquisition = runNumber
    <3>1. StagesInv /\ NumbersInv
      BY <2>1 DEF DataInv, PacedInv
    <3>2. writeAt \notin {"boot", "create"} /\ (quit \/ writeAt \notin WStarting)
      BY <1>3, <3>1
      DEF ReaderStops, ReaderExits, StagesInv, Quitting, Stopping, WRun, WStopping, WStarting,
          WriterRunning
    <3> QED
      BY <3>1, <3>2 DEF NumbersInv, Ahead
  <2>2. acquiring' = FALSE /\ UNCHANGED <<paced, acquisition, boardCfg, pending, factoryVars>>
    BY <1>3 DEF ReaderStops, ReaderExits
  <2>3. acquiring \in BOOLEAN
    BY DEF DataInv, ThreadsInStep, TypeOK, DAQOK
  <2> QED
    BY <2>1, <2>2, <2>3 DEF Data!StopAcquisition, Data!output, Data!boards, Data!vars
<1>4. CASE TimerExpires \/ ReaderUnpauses \/ ReaderPolls \/ ReaderTells
  BY <1>4
  DEF TimerExpires, ReaderUnpauses, ReaderPolls, ReaderTells, ReaderTellsStopped,
      ReaderTellsReady, Data!vars, Data!boards,
      Data!output, daqVars
<1> QED
  BY <1>1, <1>2, <1>3, <1>4 DEF Reader

(* The writer opens a run when the last file is finished: of a paced         *)
(* operator, for the acquisition that the reader has started, and with the   *)
(* configuration that its boards were initialized with.                      *)
LEMMA WriterOpensRun ==
  ASSUME DataInv, DataInv', NEW from \in {"create", "adopt"}, OpenRun(from)
  PROVE  Data!OpenRun
<1>1. factory \in {"none", "closed"}
  BY DEF DataInv, ThreadsInStep, WriterInStep, FileInv, OpenRun, Write
<1>2. ASSUME paced PROVE acquiring /\ acquisition = runNumber + 1 /\ daqCfg = boardCfg
  <2>1. ThreadsInStep /\ StagesInv /\ NumbersInv /\ LabelsInv /\ writeAt = from
    BY <1>2 DEF DataInv, PacedInv, OpenRun, Write
  <2>2. readAt \in ReaderRunning /\ ~quit
    BY <2>1
    DEF StagesInv, Quitting, Stopping, Unborn, Booting, BothRunning, Starting, WRun,
        WStopping, WStarting, WriterRunning
  <2> QED
    BY <2>1, <2>2
    DEF ThreadsInStep, ReaderInStep, NumbersInv, LabelsInv, Ahead, WStarting, RStarting,
        RStarted, ReaderRunning
<1>3. factoryCfg' \in Configs
  BY DEF DataInv, ThreadsInStep, TypeOK, FactoryOK
<1> QED
  BY <1>1, <1>2, <1>3 DEF Data!OpenRun, Data!boards, OpenRun, Write, daqVars

LEMMA WriterData ==
  ASSUME DataInv, DataInv', Writer
  PROVE  [Data!Next]_(Data!vars)
<1> USE DEF Data!Next, Write, daqVars
<1> DEFINE Fills == \E kept \in SUBSET pending : \E filled \in SUBSET (pending \ kept) :
                      pending' = kept /\ recorded' = recorded \cup filled
<1>1. CASE OpenRun("create") \/ OpenRun("adopt")
  BY <1>1, WriterOpensRun
<1>2. CASE WriterFlushes
  <2>1. factory = "open"
    BY <1>2 DEF WriterFlushes, DataInv, ThreadsInStep, WriterInStep, WriterRunning
  <2>2. Fills
    BY <1>2 DEF WriterFlushes, Flush
  <2> QED
    BY <1>2, <2>1, <2>2 DEF WriterFlushes, Data!Record, Data!Flush, Data!boards
<1>3. CASE WriterStops
  <2>1. factory = "open"
    BY <1>3 DEF WriterStops, DataInv, ThreadsInStep, WriterInStep, WriterRunning
  <2>2. Fills
    BY <1>3 DEF WriterStops, Flush
  <2>3. paced => acquisition = runNumber
    BY <1>3 DEF WriterStops, DataInv, PacedInv, NumbersInv, Ahead, WStarting
  <2> QED
    BY <1>3, <2>1, <2>2, <2>3 DEF WriterStops, Data!FinishRun, Data!Flush, Data!boards
<1>4. CASE RotateFile
  <2>1. factory = "open"
    BY <1>4 DEF RotateFile, DataInv, ThreadsInStep, WriterInStep, WriterRunning
  <2> QED
    BY <1>4, <2>1
    DEF RotateFile, Data!Rotate, Data!boards, Data!output, Data!vars, factoryVars
<1>5. CASE WriterExits
  <2>1. factory \in {"open", "closed"}
    BY <1>5 DEF WriterExits, DataInv, FileInv
  <2>2. paced => acquisition = runNumber
    BY <1>5 DEF WriterExits, DataInv, PacedInv, NumbersInv, Ahead, WStarting
  <2> QED
    BY <1>5, <2>1, <2>2 DEF WriterExits, Data!End, Data!boards
<1>6. CASE CountReached \/ WriterUnpauses \/ WriterPolls
  BY <1>6
  DEF CountReached, WriterUnpauses, WriterPolls, Data!vars, Data!boards, Data!output, factoryVars
<1> QED
  BY <1>1, <1>2, <1>3, <1>4, <1>5, <1>6 DEF Writer

(* Whatever the operator does, the boards and the file are handled as        *)
(* DataTaking says, and with a paced one acquisitions and runs begin in      *)
(* turns: the promise that MilliDAQ.cc keeps with its other messages.        *)
THEOREM ImplementsDataTakingTheorem == Spec => ImplementsDataTaking
<1>1. ASSUME DataInv, DataInv', [Next]_vars PROVE [Data!Next]_(Data!vars)
  <2>1. CASE UNCHANGED vars
    BY <2>1 DEF vars, daqVars, factoryVars, Data!vars, Data!boards, Data!output
  <2> QED
    BY <1>1, <2>1, MainLeavesData, ReaderData, WriterData DEF Next
<1> QED
  BY <1>1, DataInit, DataInvariant, PTL DEF Spec, ImplementsDataTaking, Data!Spec
=============================================================================

-------------------------- MODULE RunControlProofs --------------------------
(* Proofs about RunControl, for every set of commands and configurations,  *)
(* any number of commands, and every interleaving (Paced or not).          *)
EXTENDS RunControl, FiniteSetTheorems, TLAPS

USE DEF vars, threadVars, userVars, messageVars, daqVars, factoryVars

-----------------------------------------------------------------------------
(* Every variable keeps its type. *)

(* What FlushQueuesToDisk() leaves on the queues, records and counts. *)
LEMMA FlushType ==
  ASSUME DAQOK, FactoryOK, FlushQueuesToDisk
  PROVE  /\ pending' \subseteq Event /\ IsFiniteSet(pending')
         /\ recorded' \subseteq Event
         /\ nEvents' \in 0..(NeventsTarget + 1)
<1>1. PICK kept \in SUBSET pending : \E filled \in SUBSET (pending \ kept) :
        /\ pending' = kept
        /\ recorded' = recorded \cup filled
        /\ LET n == nEvents + Cardinality(filled)
           IN  nEvents' = IF n > NeventsTarget THEN NeventsTarget + 1 ELSE n
  BY DEF FlushQueuesToDisk
<1>2. PICK filled \in SUBSET (pending \ kept) :
        /\ pending' = kept
        /\ recorded' = recorded \cup filled
        /\ LET n == nEvents + Cardinality(filled)
           IN  nEvents' = IF n > NeventsTarget THEN NeventsTarget + 1 ELSE n
  BY <1>1
<1>3. IsFiniteSet(kept) /\ IsFiniteSet(filled)
  BY FS_Subset DEF DAQOK
<1>4. Cardinality(filled) \in Nat
  BY <1>3, FS_CardinalityType
<1>5. nEvents' \in 0..(NeventsTarget + 1)
  BY <1>2, <1>4, RunControlAssumption DEF FactoryOK
<1> QED
  BY <1>2, <1>3, <1>5 DEF DAQOK, FactoryOK

LEMMA TypeInit == Init => TypeOK
<1> SUFFICES ASSUME Init PROVE TypeOK
  OBVIOUS
<1>1. ThreadsOK
  BY DEF Init, ThreadsOK
<1>2. UserOK
  BY DEF Init, UserOK
<1>3. MessagesOK
  BY DEF Init, MessagesOK
<1>4. DAQOK
  BY RunControlAssumption, FS_EmptySet DEF Init, DAQOK
<1>5. FactoryOK
  BY RunControlAssumption, FS_EmptySet DEF Init, FactoryOK
<1>6. nCommands \in 0..MaxCommands
  BY RunControlAssumption DEF Init
<1> QED
  BY <1>1, <1>2, <1>3, <1>4, <1>5, <1>6 DEF TypeOK

LEMMA TypeStep == TypeOK /\ [Next]_vars => TypeOK'
<1> SUFFICES ASSUME TypeOK, [Next]_vars
             PROVE  TypeOK'
  OBVIOUS
<1> USE DEF TypeOK
<1>1. CASE TakeCommand
  <2>1. ThreadsOK'
    BY <1>1
    DEF ThreadsOK, TakeCommand, Command, MainStep, Quit, Pause, Unpause, Start,
         Restart, StopRun, Reconfigure, Rotate
  <2>2. UserOK'
    BY <1>1
    DEF UserOK, TakeCommand, Command, MainStep, Quit, Pause, Unpause, Start,
         Restart, StopRun, Reconfigure, Rotate
  <2>3. MessagesOK'
    BY <1>1
    DEF MessagesOK, TakeCommand, Command, MainStep, Quit, Pause, Unpause, Start,
         Restart, StopRun, Reconfigure, Rotate
  <2>4. DAQOK'
    BY <1>1
    DEF DAQOK, TakeCommand, Command, MainStep, Quit, Pause, Unpause, Start,
         Restart, StopRun, Reconfigure, Rotate
  <2>5. FactoryOK'
    BY <1>1
    DEF FactoryOK, TakeCommand, Command, MainStep, Quit, Pause, Unpause, Start,
         Restart, StopRun, Reconfigure, Rotate
  <2>6. nCommands' \in 0..MaxCommands
    BY <1>1, RunControlAssumption DEF TakeCommand, Command, MainStep, Quit, Pause, Unpause, Start,
         Restart, StopRun, Reconfigure, Rotate
  <2> QED
    BY <2>1, <2>2, <2>3, <2>4, <2>5, <2>6
<1>2. CASE MainHandles
  <2>1. ThreadsOK'
    BY <1>2
    DEF ThreadsOK, MainHandles, MainStep, MainBoot, StoreFlags, RestartPark,
         RestartWake, MainAwait
  <2>2. UserOK'
    BY <1>2
    DEF UserOK, MainHandles, MainStep, MainBoot, StoreFlags, RestartPark,
         RestartWake, MainAwait
  <2>3. MessagesOK'
    BY <1>2
    DEF MessagesOK, MainHandles, MainStep, MainBoot, StoreFlags, RestartPark,
         RestartWake, MainAwait
  <2>4. DAQOK'
    BY <1>2
    DEF DAQOK, MainHandles, MainStep, MainBoot, StoreFlags, RestartPark,
         RestartWake, MainAwait
  <2>5. FactoryOK'
    BY <1>2
    DEF FactoryOK, MainHandles, MainStep, MainBoot, StoreFlags, RestartPark,
         RestartWake, MainAwait
  <2>6. nCommands' \in 0..MaxCommands
    BY <1>2 DEF MainHandles, MainStep, MainBoot, StoreFlags, RestartPark,
         RestartWake, MainAwait
  <2> QED
    BY <2>1, <2>2, <2>3, <2>4, <2>5, <2>6
<1>3. CASE Reader
  <2>1. ThreadsOK'
    BY <1>3
    DEF ThreadsOK, Reader, ReadStep, StartAcquisition, ReaderConnect, AnnounceReady,
         ReaderRead, ReaderLeave, TimerExpires, TimerStores, ReaderPolls,
         ReaderStops, ReaderClearsReady, AnnounceStopped, ReaderReconfigures,
         ReaderStarts, ReaderClearsStopped, ReaderExits
  <2>2. UserOK'
    BY ZenonT(40), <1>3
    DEF UserOK, Reader, ReadStep, StartAcquisition, ReaderConnect, AnnounceReady,
         ReaderRead, ReaderLeave, TimerExpires, TimerStores, ReaderPolls,
         ReaderStops, ReaderClearsReady, AnnounceStopped, ReaderReconfigures,
         ReaderStarts, ReaderClearsStopped, ReaderExits
  <2>3. MessagesOK'
    BY <1>3
    DEF MessagesOK, Reader, ReadStep, StartAcquisition, ReaderConnect, AnnounceReady,
         ReaderRead, ReaderLeave, TimerExpires, TimerStores, ReaderPolls,
         ReaderStops, ReaderClearsReady, AnnounceStopped, ReaderReconfigures,
         ReaderStarts, ReaderClearsStopped, ReaderExits
  <2>4. DAQOK'
    <3>1. CASE ReaderConnect
      BY <3>1 DEF ReaderConnect, StartAcquisition, ReadStep, DAQOK
    <3>2. CASE AnnounceReady
      BY <3>2 DEF AnnounceReady, ReadStep, DAQOK
    <3>3. CASE ReaderRead
      <4>1. [acq |-> acquisition, cfg |-> daqCfg] \in Event
        BY DEF DAQOK, Event
      <4>2. pending' \subseteq Event /\ IsFiniteSet(pending')
        BY <3>3, <4>1, FS_AddElement DEF ReaderRead, DAQOK
      <4> QED
        BY <3>3, <4>2 DEF ReaderRead, DAQOK
    <3>4. CASE ReaderLeave
      BY <3>4 DEF ReaderLeave, ReadStep, DAQOK
    <3>5. CASE TimerExpires
      BY <3>5 DEF TimerExpires, ReadStep, DAQOK
    <3>6. CASE TimerStores
      BY <3>6 DEF TimerStores, ReadStep, DAQOK
    <3>7. CASE ReaderPolls
      BY <3>7 DEF ReaderPolls, ReadStep, DAQOK
    <3>8. CASE ReaderStops
      BY <3>8 DEF ReaderStops, ReadStep, DAQOK
    <3>9. CASE ReaderClearsReady
      BY <3>9 DEF ReaderClearsReady, ReadStep, DAQOK
    <3>10. CASE AnnounceStopped
      BY <3>10 DEF AnnounceStopped, ReadStep, DAQOK
    <3>11. CASE ReaderReconfigures
      BY <3>11 DEF ReaderReconfigures, StartAcquisition, ReadStep, DAQOK
    <3>12. CASE ReaderStarts
      BY <3>12 DEF ReaderStarts, StartAcquisition, ReadStep, DAQOK
    <3>13. CASE ReaderClearsStopped
      BY <3>13 DEF ReaderClearsStopped, ReadStep, DAQOK
    <3>14. CASE ReaderExits
      BY <3>14 DEF ReaderExits, ReadStep, DAQOK
    <3> QED
      BY <1>3, <3>1, <3>2, <3>3, <3>4, <3>5, <3>6, <3>7,
         <3>8, <3>9, <3>10, <3>11, <3>12, <3>13, <3>14
      DEF Reader
  <2>5. FactoryOK'
    BY <1>3
    DEF FactoryOK, Reader, ReadStep, StartAcquisition, ReaderConnect, AnnounceReady,
         ReaderRead, ReaderLeave, TimerExpires, TimerStores, ReaderPolls,
         ReaderStops, ReaderClearsReady, AnnounceStopped, ReaderReconfigures,
         ReaderStarts, ReaderClearsStopped, ReaderExits
  <2>6. nCommands' \in 0..MaxCommands
    BY <1>3 DEF Reader, ReadStep, StartAcquisition, ReaderConnect, AnnounceReady,
         ReaderRead, ReaderLeave, TimerExpires, TimerStores, ReaderPolls,
         ReaderStops, ReaderClearsReady, AnnounceStopped, ReaderReconfigures,
         ReaderStarts, ReaderClearsStopped, ReaderExits
  <2> QED
    BY <2>1, <2>2, <2>3, <2>4, <2>5, <2>6
<1>4. CASE Writer
  <2>1. ThreadsOK'
    BY <1>4
    DEF ThreadsOK, Writer, WriteStep, OpenRun, CreateFactory, DefineNewRun,
         WriterFlushes, CountReached, CountStores, RotateFile, RotateDone, WriterPolls,
         WriterStops, DestroyFactory, AnnounceSafe
  <2>2. UserOK'
    BY ZenonT(40), <1>4
    DEF UserOK, Writer, WriteStep, OpenRun, CreateFactory, DefineNewRun,
         WriterFlushes, CountReached, CountStores, RotateFile, RotateDone, WriterPolls,
         WriterStops, DestroyFactory, AnnounceSafe
  <2>3. MessagesOK'
    BY <1>4
    DEF MessagesOK, Writer, WriteStep, OpenRun, CreateFactory, DefineNewRun,
         WriterFlushes, CountReached, CountStores, RotateFile, RotateDone, WriterPolls,
         WriterStops, DestroyFactory, AnnounceSafe
  <2>4. DAQOK'
    <3>1. CASE WriterFlushes \/ WriterStops
      BY <3>1, FlushType DEF WriterFlushes, WriterStops, WriteStep, DAQOK
    <3>2. CASE ~(WriterFlushes \/ WriterStops)
      BY <1>4, <3>2 DEF DAQOK, Writer, WriteStep, OpenRun, CreateFactory, DefineNewRun,
           WriterFlushes, CountReached, CountStores, RotateFile, RotateDone, WriterPolls,
           WriterStops, DestroyFactory, AnnounceSafe
    <3> QED
      BY <3>1, <3>2
  <2>5. FactoryOK'
    <3>1. CASE WriterFlushes \/ WriterStops
      BY <3>1, FlushType DEF WriterFlushes, WriterStops, WriteStep, FactoryOK
    <3>2. CASE CreateFactory \/ DefineNewRun
      BY <3>2, RunControlAssumption
      DEF CreateFactory, DefineNewRun, OpenRun, FactoryOK, DAQOK
    <3>3. CASE CountReached \/ CountStores \/ RotateFile \/ RotateDone \/ WriterPolls \/ DestroyFactory \/ AnnounceSafe
      BY <3>3 DEF CountReached, CountStores, RotateFile, RotateDone, WriterPolls,
         DestroyFactory, AnnounceSafe, FactoryOK
    <3> QED
      BY <1>4, <3>1, <3>2, <3>3 DEF Writer
  <2>6. nCommands' \in 0..MaxCommands
    BY <1>4 DEF Writer, WriteStep, OpenRun, CreateFactory, DefineNewRun,
         WriterFlushes, CountReached, CountStores, RotateFile, RotateDone, WriterPolls,
         WriterStops, DestroyFactory, AnnounceSafe
  <2> QED
    BY <2>1, <2>2, <2>3, <2>4, <2>5, <2>6
<1>5. CASE UNCHANGED vars
  BY <1>5 DEF ThreadsOK, UserOK, MessagesOK, DAQOK, FactoryOK
<1> QED
  BY <1>1, <1>2, <1>3, <1>4, <1>5 DEF Next

(* No variable ever leaves its type, whatever the operator and the threads *)
(* do (all of MilliDAQ.cc).                                                *)
THEOREM TypeInvariant == Spec => []TypeOK
  BY TypeInit, TypeStep, PTL DEF Spec

-----------------------------------------------------------------------------
(* The threads stay in step: one lemma per part of RunControlInv. *)

LEMMA InvInit == Init => RunControlInv
<1> SUFFICES ASSUME Init PROVE RunControlInv
  OBVIOUS
<1>1. MessagesInv
  BY DEF Init, MessagesInv, NeverReadyAndStopped, ReaderStopped
<1>2. AcquiringInv
  BY DEF Init, AcquiringInv
<1>3. LifetimeInv
  BY DEF Init, LifetimeInv
<1>4. FileOpenWhenUsed
  BY DEF Init, FileOpenWhenUsed, WriterRunning
<1>5. HandshakeInv
  BY DEF Init, HandshakeInv, AwaitingReady
<1> QED
  BY TypeInit, <1>1, <1>2, <1>3, <1>4, <1>5 DEF RunControlInv

(* ReadAction() clears one message before it sets the other. *)
LEMMA MessagesStep ==
  MessagesInv /\ [Next]_vars => MessagesInv'
<1> SUFFICES ASSUME MessagesInv, [Next]_vars
             PROVE  MessagesInv'
  OBVIOUS
<1> USE DEF MessagesInv, NeverReadyAndStopped, ReaderStopped
<1>1. CASE TakeCommand
  BY <1>1
  DEF TakeCommand, Command, MainStep, Quit, Pause, Unpause, Start,
         Restart, StopRun, Reconfigure, Rotate
<1>2. CASE MainHandles
  BY <1>2
  DEF MainHandles, MainStep, MainBoot, StoreFlags, RestartPark,
         RestartWake, MainAwait
<1>3. CASE Reader
  BY <1>3
  DEF Reader, ReadStep, StartAcquisition, ReaderConnect, AnnounceReady,
         ReaderRead, ReaderLeave, TimerExpires, TimerStores, ReaderPolls,
         ReaderStops, ReaderClearsReady, AnnounceStopped, ReaderReconfigures,
         ReaderStarts, ReaderClearsStopped, ReaderExits
<1>4. CASE Writer
  BY <1>4
  DEF Writer, WriteStep, OpenRun, CreateFactory, DefineNewRun,
         WriterFlushes, CountReached, CountStores, RotateFile, RotateDone, WriterPolls,
         WriterStops, DestroyFactory, AnnounceSafe
<1>5. CASE UNCHANGED vars
  BY <1>5
<1> QED
  BY <1>1, <1>2, <1>3, <1>4, <1>5 DEF Next

(* StartRun() and StopRun() bracket the reading. *)
LEMMA AcquiringStep ==
  AcquiringInv /\ [Next]_vars => AcquiringInv'
<1> SUFFICES ASSUME AcquiringInv, [Next]_vars
             PROVE  AcquiringInv'
  OBVIOUS
<1> USE DEF AcquiringInv
<1>1. CASE TakeCommand
  BY <1>1
  DEF TakeCommand, Command, MainStep, Quit, Pause, Unpause, Start,
         Restart, StopRun, Reconfigure, Rotate
<1>2. CASE MainHandles
  BY <1>2
  DEF MainHandles, MainStep, MainBoot, StoreFlags, RestartPark,
         RestartWake, MainAwait
<1>3. CASE Reader
  BY <1>3
  DEF Reader, ReadStep, StartAcquisition, ReaderConnect, AnnounceReady,
         ReaderRead, ReaderLeave, TimerExpires, TimerStores, ReaderPolls,
         ReaderStops, ReaderClearsReady, AnnounceStopped, ReaderReconfigures,
         ReaderStarts, ReaderClearsStopped, ReaderExits
<1>4. CASE Writer
  BY <1>4
  DEF Writer, WriteStep, OpenRun, CreateFactory, DefineNewRun,
         WriterFlushes, CountReached, CountStores, RotateFile, RotateDone, WriterPolls,
         WriterStops, DestroyFactory, AnnounceSafe
<1>5. CASE UNCHANGED vars
  BY <1>5
<1> QED
  BY <1>1, <1>2, <1>3, <1>4, <1>5 DEF Next

(* The writer starts after theDAQ is connected and ends before it is deleted. *)
LEMMA LifetimeStep ==
  MessagesInv /\ LifetimeInv /\ [Next]_vars => LifetimeInv'
<1> SUFFICES ASSUME MessagesInv, LifetimeInv, [Next]_vars
             PROVE  LifetimeInv'
  OBVIOUS
<1> USE DEF MessagesInv, LifetimeInv
<1>1. CASE TakeCommand
  BY <1>1
  DEF TakeCommand, Command, MainStep, Quit, Pause, Unpause, Start,
         Restart, StopRun, Reconfigure, Rotate
<1>2. CASE MainHandles
  BY <1>2
  DEF MainHandles, MainStep, MainBoot, StoreFlags, RestartPark,
         RestartWake, MainAwait
<1>3. CASE Reader
  BY <1>3
  DEF Reader, ReadStep, StartAcquisition, ReaderConnect, AnnounceReady,
         ReaderRead, ReaderLeave, TimerExpires, TimerStores, ReaderPolls,
         ReaderStops, ReaderClearsReady, AnnounceStopped, ReaderReconfigures,
         ReaderStarts, ReaderClearsStopped, ReaderExits
<1>4. CASE Writer
  BY <1>4
  DEF Writer, WriteStep, OpenRun, CreateFactory, DefineNewRun,
         WriterFlushes, CountReached, CountStores, RotateFile, RotateDone, WriterPolls,
         WriterStops, DestroyFactory, AnnounceSafe
<1>5. CASE UNCHANGED vars
  BY <1>5
<1> QED
  BY <1>1, <1>2, <1>3, <1>4, <1>5 DEF Next

(* A file is finished only in the stop branch, and reopened when it is left. *)
LEMMA FileStep ==
  LifetimeInv /\ HandshakeInv /\ FileOpenWhenUsed /\ [Next]_vars => FileOpenWhenUsed'
<1> SUFFICES ASSUME LifetimeInv, HandshakeInv, FileOpenWhenUsed, [Next]_vars
             PROVE  FileOpenWhenUsed'
  OBVIOUS
<1> USE DEF LifetimeInv, HandshakeInv, FileOpenWhenUsed, WriterRunning
<1>1. CASE TakeCommand
  BY <1>1
  DEF TakeCommand, Command, MainStep, Quit, Pause, Unpause, Start,
         Restart, StopRun, Reconfigure, Rotate
<1>2. CASE MainHandles
  BY <1>2
  DEF MainHandles, MainStep, MainBoot, StoreFlags, RestartPark,
         RestartWake, MainAwait
<1>3. CASE Reader
  BY <1>3
  DEF Reader, ReadStep, StartAcquisition, ReaderConnect, AnnounceReady,
         ReaderRead, ReaderLeave, TimerExpires, TimerStores, ReaderPolls,
         ReaderStops, ReaderClearsReady, AnnounceStopped, ReaderReconfigures,
         ReaderStarts, ReaderClearsStopped, ReaderExits
<1>4. CASE Writer
  BY <1>4
  DEF Writer, WriteStep, OpenRun, CreateFactory, DefineNewRun,
         WriterFlushes, CountReached, CountStores, RotateFile, RotateDone, WriterPolls,
         WriterStops, DestroyFactory, AnnounceSafe
<1>5. CASE UNCHANGED vars
  BY <1>5
<1> QED
  BY <1>1, <1>2, <1>3, <1>4, <1>5 DEF Next

(* Main releases the reader only after a stop, and then waits for it. *)
LEMMA HandshakeStep ==
  MessagesInv /\ LifetimeInv /\ HandshakeInv /\ [Next]_vars => HandshakeInv'
<1> SUFFICES ASSUME MessagesInv, LifetimeInv, HandshakeInv, [Next]_vars
             PROVE  HandshakeInv'
  OBVIOUS
<1> USE DEF MessagesInv, LifetimeInv, HandshakeInv, RestartWaitsForStop, ReaderStopped, AwaitingReady, NeverReadyAndStopped
<1>1. CASE TakeCommand
  BY <1>1
  DEF TakeCommand, Command, MainStep, Quit, Pause, Unpause, Start,
         Restart, StopRun, Reconfigure, Rotate
<1>2. CASE MainHandles
  BY <1>2
  DEF MainHandles, MainStep, MainBoot, StoreFlags, RestartPark,
         RestartWake, MainAwait
<1>3. CASE Reader
  BY <1>3
  DEF Reader, ReadStep, StartAcquisition, ReaderConnect, AnnounceReady,
         ReaderRead, ReaderLeave, TimerExpires, TimerStores, ReaderPolls,
         ReaderStops, ReaderClearsReady, AnnounceStopped, ReaderReconfigures,
         ReaderStarts, ReaderClearsStopped, ReaderExits
<1>4. CASE Writer
  BY <1>4
  DEF Writer, WriteStep, OpenRun, CreateFactory, DefineNewRun,
         WriterFlushes, CountReached, CountStores, RotateFile, RotateDone, WriterPolls,
         WriterStops, DestroyFactory, AnnounceSafe
<1>5. CASE UNCHANGED vars
  BY <1>5
<1> QED
  BY <1>1, <1>2, <1>3, <1>4, <1>5 DEF Next

(* The three threads stay in step, for every sequence of commands. *)
THEOREM RunControlInvariant == Spec => []RunControlInv
<1>1. RunControlInv /\ [Next]_vars => RunControlInv'
  BY TypeStep, MessagesStep, AcquiringStep, LifetimeStep, FileStep, HandshakeStep
  DEF RunControlInv
<1> QED
  BY InvInit, <1>1, PTL DEF Spec

-----------------------------------------------------------------------------
(* What follows for the program. *)

(* ReadAction() never leaves digitizerReady and digitizerIsStopped set     *)
(* together, so that no thread is let through both waits.                  *)
THEOREM MessagesExclude == Spec => []NeverReadyAndStopped
<1>1. RunControlInv => NeverReadyAndStopped
  BY DEF RunControlInv, MessagesInv
<1> QED
  BY <1>1, RunControlInvariant, PTL

(* SendSWTriggers() and Read() are only called between StartRun() and      *)
(* StopRun().                                                              *)
THEOREM ReadsWhileAcquiring == Spec => []ReadsOnlyWhileAcquiring
<1>1. RunControlInv => ReadsOnlyWhileAcquiring
  BY DEF RunControlInv, TypeOK, DAQOK, AcquiringInv, LifetimeInv, ReadsOnlyWhileAcquiring
<1> QED
  BY <1>1, RunControlInvariant, PTL

(* The factory, which keeps theDAQ's configuration, is created after it    *)
(* and deleted before it.                                                  *)
THEOREM DAQOutlives == Spec => []DAQOutlivesFactory
<1>1. RunControlInv => DAQOutlivesFactory
  BY DEF RunControlInv, TypeOK, DAQOK, LifetimeInv, DAQOutlivesFactory
<1> QED
  BY <1>1, RunControlInvariant, PTL

(* FlushQueuesToDisk() and RotateFile() find an open file, FinishFile()    *)
(* is called once per run.                                                 *)
THEOREM FileOpen == Spec => []FileOpenWhenUsed
<1>1. RunControlInv => FileOpenWhenUsed
  BY DEF RunControlInv
<1> QED
  BY <1>1, RunControlInvariant, PTL

(* If restart's wait cannot return early, main() takes no command while    *)
(* the reader configures the boards - however fast the commands come.      *)
THEOREM NoCommandWhileConfiguring ==
  ASSUME RestartWaitsForStop
  PROVE  Spec => []NoCommandDuringConfiguration
<1>1. RunControlInv => NoCommandDuringConfiguration
  BY RestartWaitsForStop
  DEF RunControlInv, HandshakeInv, LifetimeInv, AwaitingReady,
      NoCommandDuringConfiguration, ReaderConfiguring
<1> QED
  BY <1>1, RunControlInvariant, PTL

(* ReadConfiguration() only changes the configuration of boards that are   *)
(* stopped, SetConfiguration() that of a factory without an open file.     *)
THEOREM ConfigurationStableTheorem == Spec => ConfigurationStable
<1>1. RunControlInv /\ [Next]_vars
        => [ /\ daqCfg' # daqCfg => ~acquiring
             /\ factoryCfg' # factoryCfg => factory # "open" ]_vars
  <2> SUFFICES ASSUME RunControlInv, [Next]_vars
               PROVE  /\ daqCfg' # daqCfg => ~acquiring
                      /\ factoryCfg' # factoryCfg => factory # "open"
    OBVIOUS
  <2> USE DEF RunControlInv, AcquiringInv, LifetimeInv, FileOpenWhenUsed
  <2>1. CASE TakeCommand
    BY <2>1
    DEF TakeCommand, Command, MainStep, Quit, Pause, Unpause, Start,
         Restart, StopRun, Reconfigure, Rotate
  <2>2. CASE MainHandles
    BY <2>2
    DEF MainHandles, MainStep, MainBoot, StoreFlags, RestartPark,
         RestartWake, MainAwait
  <2>3. CASE Reader
    BY <2>3
    DEF Reader, ReadStep, StartAcquisition, ReaderConnect, AnnounceReady,
         ReaderRead, ReaderLeave, TimerExpires, TimerStores, ReaderPolls,
         ReaderStops, ReaderClearsReady, AnnounceStopped, ReaderReconfigures,
         ReaderStarts, ReaderClearsStopped, ReaderExits
  <2>4. CASE Writer
    BY <2>4
    DEF Writer, WriteStep, OpenRun, CreateFactory, DefineNewRun,
         WriterFlushes, CountReached, CountStores, RotateFile, RotateDone, WriterPolls,
         WriterStops, DestroyFactory, AnnounceSafe
  <2>5. CASE UNCHANGED vars
    BY <2>5
  <2> QED
    BY <2>1, <2>2, <2>3, <2>4, <2>5 DEF Next
<1> QED
  BY <1>1, RunControlInvariant, PTL DEF Spec, ConfigurationStable

-----------------------------------------------------------------------------
(* Runs and acquisitions, with an operator who takes the time the threads  *)
(* need: a run goes through stages, which the threads enter together.      *)

(* Where each thread is while it ends or starts a run. *)
RTimer == {"timerClear", "timerStop", "timerUnpause"}
RStopping == {"clearReady", "announceStopped", "stopLoop"}
RStarting == {"stopLoop", "restartCheck", "applyConfig", "initialize"}
RStarted == {"clearStopped", "announceReady"} \cup ReaderRunning

WRun == WriterRunning \cup {"countClear", "countStop", "countUnpause", "rotateClear"}
WStopping == {"awaitStopped", "stopLoop"}
WStarting == {"restartCheck", "awaitReady", "adopt"}

(* The stages. *)
Booting ==
  /\ writeAt \in {"boot", "create"}
  /\ readAt \in {"boot", "announceReady"} \cup ReaderRunning
  /\ writeAt = "create" => readAt \in ReaderRunning

BothRunning ==
  writeAt \in WRun /\ readAt \in ReaderRunning \cup {"timerClear", "timerStop"}

Stopping ==
  /\ writeAt \in WRun \cup WStopping
  /\ readAt \in ReaderRunning \cup RTimer \cup RStopping

Starting ==
  \/ writeAt = "stopLoop" /\ readAt \in RStarting
  \/ /\ writeAt \in WStarting /\ readAt \in RStarting \cup RStarted
     /\ writeAt = "adopt" => readAt \in ReaderRunning

Quitting ==
  /\ ~reconfigure
  /\ writeAt \in WRun \cup WStopping
                 \cup {"restartCheck", "destroy", "announceSafe", "exit"}
  /\ readAt \in ReaderRunning \cup RTimer \cup RStopping
                \cup {"restartCheck", "awaitSafe", "exit"}

(* Reader and writer are in the same stage of a run. *)
StagesInv ==
  /\ quit => Quitting
  /\ ~quit /\ stop => Stopping
  /\ ~quit /\ ~stop => Booting \/ BothRunning \/ Starting

Reconfiguring ==
  {"reconfigureStop", "awaitStopped", "reconfigureGo", "reconfigureReady", "reconfigureDone"}

(* A run is started when both have stopped, and stopped when both run. *)
MainInv ==
  /\ reconfigure <=> mainAt \in Reconfiguring
  /\ mainAt \in {"clearReady", "clearStop"} => stop /\ Stopped
  /\ mainAt \in {"stopStore", "reconfigureStop"} /\ ~stop => BothRunning

(* The reader has begun the acquisition of a run the writer has yet to open.*)
Ahead ==
  \/ writeAt \in {"boot", "create"} /\ readAt # "boot"
  \/ writeAt \in WStarting /\ readAt \in RStarted /\ ~quit

(* The run list and the boards have counted the same starts. *)
NumbersInv == acquisition = IF Ahead THEN runNumber + 1 ELSE runNumber

(* An event in the queues or the file is of an acquisition that began, and  *)
(* the newest carry the configuration that theDAQ and the file hold.        *)
LabelsInv ==
  /\ \A e \in pending \cup recorded :
       e.acq <= acquisition /\ (e.acq = acquisition => e.cfg = daqCfg)
  /\ \A e \in recorded : e.acq <= runNumber /\ (e.acq = runNumber => e.cfg = factoryCfg)
  /\ acquisition = runNumber /\ writeAt \notin {"boot", "create"} => factoryCfg = daqCfg

PacedInv == StagesInv /\ MainInv /\ NumbersInv /\ LabelsInv

LEMMA PacedInit == Init => PacedInv
  BY DEF Init, PacedInv, StagesInv, Booting, MainInv, Reconfiguring, NumbersInv,
     Ahead, LabelsInv, WStarting

(* Reader and writer leave a stage of the run together. *)
LEMMA StagesStep ==
  ASSUME PacedOperator, RunControlInv, StagesInv, MainInv, [Next]_vars
  PROVE  StagesInv'
<1> USE DEF StagesInv, Booting, BothRunning, Stopping, Starting, Quitting,
           RTimer, RStopping, RStarting, RStarted, WRun, WStopping, WStarting,
           ReaderRunning, WriterRunning,
           MainInv, Reconfiguring,
           PacedOperator, RunControlInv, MessagesInv, NeverReadyAndStopped, ReaderStopped,
           HandshakeInv, RestartWaitsForStop, AwaitingReady, Settled, Stopped
<1>1. CASE TakeCommand
  BY <1>1
  DEF TakeCommand, Command, MainStep, Quit, Pause, Unpause, Start,
       Restart, StopRun, Reconfigure, Rotate
<1>2. CASE MainHandles
  BY <1>2
  DEF MainHandles, MainStep, MainBoot, StoreFlags, RestartPark,
       RestartWake, MainAwait
<1>3. CASE Reader
  BY <1>3
  DEF Reader, ReadStep, StartAcquisition, ReaderConnect, AnnounceReady,
       ReaderRead, ReaderLeave, TimerExpires, TimerStores, ReaderPolls,
       ReaderStops, ReaderClearsReady, AnnounceStopped, ReaderReconfigures,
       ReaderStarts, ReaderClearsStopped, ReaderExits
<1>4. CASE Writer
  <2>1. CASE CreateFactory
    BY <2>1 DEF WriteStep, OpenRun, CreateFactory
  <2>2. CASE DefineNewRun
    BY <2>2 DEF WriteStep, OpenRun, DefineNewRun
  <2>3. CASE WriterFlushes
    BY <2>3 DEF WriteStep, OpenRun, WriterFlushes
  <2>4. CASE CountReached
    BY <2>4 DEF WriteStep, OpenRun, CountReached
  <2>5. CASE CountStores
    BY <2>5 DEF WriteStep, OpenRun, CountStores
  <2>6. CASE RotateFile
    BY <2>6 DEF WriteStep, OpenRun, RotateFile
  <2>7. CASE RotateDone
    BY <2>7 DEF WriteStep, OpenRun, RotateDone
  <2>8. CASE WriterPolls
    BY <2>8 DEF WriteStep, OpenRun, WriterPolls
  <2>9. CASE WriterStops
    BY <2>9 DEF WriteStep, OpenRun, WriterStops
  <2>10. CASE DestroyFactory
    BY <2>10 DEF WriteStep, OpenRun, DestroyFactory
  <2>11. CASE AnnounceSafe
    BY <2>11 DEF WriteStep, OpenRun, AnnounceSafe
  <2> QED
    BY <1>4, <2>1, <2>2, <2>3, <2>4, <2>5, <2>6, <2>7, <2>8, <2>9, <2>10, <2>11 DEF Writer
<1>5. CASE UNCHANGED vars
  BY <1>5
<1> QED
  BY <1>1, <1>2, <1>3, <1>4, <1>5 DEF Next

(* Main starts and stops runs between the stages. *)
LEMMA MainStageStep ==
  ASSUME PacedOperator, RunControlInv, StagesInv, MainInv, [Next]_vars
  PROVE  MainInv'
<1> USE DEF StagesInv, Booting, BothRunning, Stopping, Starting, Quitting,
           RTimer, RStopping, RStarting, RStarted, WRun, WStopping, WStarting,
           ReaderRunning, WriterRunning,
           MainInv, Reconfiguring,
           PacedOperator, RunControlInv, MessagesInv, NeverReadyAndStopped, ReaderStopped,
           HandshakeInv, RestartWaitsForStop, AwaitingReady, Settled, Stopped
<1>1. CASE TakeCommand
  BY <1>1
  DEF TakeCommand, Command, MainStep, Quit, Pause, Unpause, Start,
       Restart, StopRun, Reconfigure, Rotate
<1>2. CASE MainHandles
  BY <1>2
  DEF MainHandles, MainStep, MainBoot, StoreFlags, RestartPark,
       RestartWake, MainAwait
<1>3. CASE Reader
  BY <1>3
  DEF Reader, ReadStep, StartAcquisition, ReaderConnect, AnnounceReady,
       ReaderRead, ReaderLeave, TimerExpires, TimerStores, ReaderPolls,
       ReaderStops, ReaderClearsReady, AnnounceStopped, ReaderReconfigures,
       ReaderStarts, ReaderClearsStopped, ReaderExits
<1>4. CASE Writer
  BY <1>4
  DEF Writer, WriteStep, OpenRun, CreateFactory, DefineNewRun,
       WriterFlushes, CountReached, CountStores, RotateFile, RotateDone,
       WriterPolls, WriterStops, DestroyFactory, AnnounceSafe
<1>5. CASE UNCHANGED vars
  BY <1>5
<1> QED
  BY <1>1, <1>2, <1>3, <1>4, <1>5 DEF Next

(* A run and its acquisition are begun once per stage. *)
LEMMA NumbersStep ==
  ASSUME PacedOperator, RunControlInv, StagesInv, MainInv, NumbersInv, [Next]_vars
  PROVE  NumbersInv'
<1> USE DEF StagesInv, Booting, BothRunning, Stopping, Starting, Quitting,
           RTimer, RStopping, RStarting, RStarted, WRun, WStopping, WStarting,
           ReaderRunning, WriterRunning,
           NumbersInv, Ahead, LifetimeInv, TypeOK, DAQOK, FactoryOK,
           MainInv, Reconfiguring,
           PacedOperator, RunControlInv, MessagesInv, NeverReadyAndStopped, ReaderStopped,
           HandshakeInv, RestartWaitsForStop, AwaitingReady, Settled, Stopped
<1>1. CASE TakeCommand
  BY <1>1
  DEF TakeCommand, Command, MainStep, Quit, Pause, Unpause, Start,
       Restart, StopRun, Reconfigure, Rotate
<1>2. CASE MainHandles
  BY <1>2
  DEF MainHandles, MainStep, MainBoot, StoreFlags, RestartPark,
       RestartWake, MainAwait
<1>3. CASE Reader
  BY <1>3
  DEF Reader, ReadStep, StartAcquisition, ReaderConnect, AnnounceReady,
       ReaderRead, ReaderLeave, TimerExpires, TimerStores, ReaderPolls,
       ReaderStops, ReaderClearsReady, AnnounceStopped, ReaderReconfigures,
       ReaderStarts, ReaderClearsStopped, ReaderExits
<1>4. CASE Writer
  BY <1>4
  DEF Writer, WriteStep, OpenRun, CreateFactory, DefineNewRun,
       WriterFlushes, CountReached, CountStores, RotateFile, RotateDone,
       WriterPolls, WriterStops, DestroyFactory, AnnounceSafe
<1>5. CASE UNCHANGED vars
  BY <1>5
<1> QED
  BY <1>1, <1>2, <1>3, <1>4, <1>5 DEF Next

(* Events carry the acquisition they come from into that run's file. *)
LEMMA LabelsStep ==
  ASSUME PacedOperator, RunControlInv, StagesInv, MainInv, NumbersInv, LabelsInv, [Next]_vars
  PROVE  LabelsInv'
<1> USE DEF StagesInv, Booting, BothRunning, Stopping, Starting, Quitting,
           RTimer, RStopping, RStarting, RStarted, WRun, WStopping, WStarting,
           ReaderRunning, WriterRunning,
           LabelsInv, NumbersInv, Ahead, LifetimeInv, TypeOK, DAQOK, FactoryOK, Event,
           MainInv, Reconfiguring,
           PacedOperator, RunControlInv, MessagesInv, NeverReadyAndStopped, ReaderStopped,
           HandshakeInv, RestartWaitsForStop, AwaitingReady, Settled, Stopped
<1>1. CASE TakeCommand
  BY <1>1
  DEF TakeCommand, Command, MainStep, Quit, Pause, Unpause, Start,
       Restart, StopRun, Reconfigure, Rotate
<1>2. CASE MainHandles
  BY <1>2
  DEF MainHandles, MainStep, MainBoot, StoreFlags, RestartPark,
       RestartWake, MainAwait
<1>3. CASE Reader
  BY <1>3
  DEF Reader, ReadStep, StartAcquisition, ReaderConnect, AnnounceReady,
       ReaderRead, ReaderLeave, TimerExpires, TimerStores, ReaderPolls,
       ReaderStops, ReaderClearsReady, AnnounceStopped, ReaderReconfigures,
       ReaderStarts, ReaderClearsStopped, ReaderExits
<1>4. CASE Writer
  <2>1. CASE CreateFactory
    BY <2>1 DEF WriteStep, OpenRun, CreateFactory
  <2>2. CASE DefineNewRun
    BY <2>2 DEF WriteStep, OpenRun, DefineNewRun
  <2>3. CASE WriterFlushes
    BY <2>3 DEF WriteStep, FlushQueuesToDisk, WriterFlushes
  <2>4. CASE CountReached
    BY <2>4 DEF WriteStep, OpenRun, CountReached
  <2>5. CASE CountStores
    BY <2>5 DEF WriteStep, OpenRun, CountStores
  <2>6. CASE RotateFile
    BY <2>6 DEF WriteStep, OpenRun, RotateFile
  <2>7. CASE RotateDone
    BY <2>7 DEF WriteStep, OpenRun, RotateDone
  <2>8. CASE WriterPolls
    BY <2>8 DEF WriteStep, OpenRun, WriterPolls
  <2>9. CASE WriterStops
    BY <2>9 DEF WriteStep, FlushQueuesToDisk, WriterStops
  <2>10. CASE DestroyFactory
    BY <2>10 DEF WriteStep, OpenRun, DestroyFactory
  <2>11. CASE AnnounceSafe
    BY <2>11 DEF WriteStep, OpenRun, AnnounceSafe
  <2> QED
    BY <1>4, <2>1, <2>2, <2>3, <2>4, <2>5, <2>6, <2>7, <2>8, <2>9, <2>10, <2>11 DEF Writer
<1>5. CASE UNCHANGED vars
  BY <1>5
<1> QED
  BY <1>1, <1>2, <1>3, <1>4, <1>5 DEF Next

(* The threads keep the stages of a run together, with a paced operator. *)
LEMMA PacedInvariant ==
  ASSUME PacedOperator
  PROVE  Spec => []PacedInv
<1>1. RunControlInv /\ PacedInv /\ [Next]_vars => PacedInv'
  BY PacedOperator, StagesStep, MainStageStep, NumbersStep, LabelsStep DEF PacedInv
<1> QED
  BY PacedInit, RunControlInvariant, <1>1, PTL DEF Spec

(* When the operator leaves the threads their time and does not use        *)
(* restart, no event is written under a run that began before the event    *)
(* was acquired, the configuration in a file is the one its run's events   *)
(* were acquired with, however often the run is reconfigured, and the      *)
(* writer's run is the reader's acquisition while both run.                *)
THEOREM RunsLabelledTheorem ==
  ASSUME PacedOperator
  PROVE  Spec => []RunsLabelled
<1>1. PacedInv => RunsLabelled
  BY DEF PacedInv, NumbersInv, LabelsInv, Ahead, WStarting, WriterRunning, RunsLabelled
<1> QED
  BY <1>1, PacedOperator, PacedInvariant, PTL

-----------------------------------------------------------------------------
(* The program implements DataTaking.                                      *)

(* What the boards and the files do in a step, the threads being in step.  *)
DataInv == RunControlInv /\ (PacedOperator => PacedInv)

LEMMA DataInvariant == Spec => []DataInv
<1>1. CASE PacedOperator
  <2>1. RunControlInv /\ PacedInv => DataInv
    BY DEF DataInv
  <2> QED
    BY <1>1, <2>1, RunControlInvariant, PacedInvariant, PTL
<1>2. CASE ~PacedOperator
  <2>1. RunControlInv => DataInv
    BY <1>2 DEF DataInv
  <2> QED
    BY <2>1, RunControlInvariant, PTL
<1> QED
  BY <1>1, <1>2

LEMMA DataInit == Init => Data!Init
BY RunControlAssumption DEF Init, Data!Init, PacedOperator

(* Neither main() nor a poll touches the boards or the file. *)
LEMMA MainLeavesData ==
  ASSUME TakeCommand \/ MainHandles
  PROVE  UNCHANGED Data!vars
BY DEF Data!vars, Data!boards, Data!output, TakeCommand, Command, MainStep, Quit, Pause,
       Unpause, Start, Restart, StopRun, Reconfigure, Rotate, MainHandles, MainBoot,
       StoreFlags, RestartPark, RestartWake, MainAwait, daqVars, factoryVars

(* The reader starts boards that are stopped: of a paced operator, when the *)
(* last run is finished.                                                    *)
LEMMA ReaderStartsBoards ==
  ASSUME DataInv, ReaderConnect \/ ReaderReconfigures \/ ReaderStarts
  PROVE  Data!StartAcquisition
<1>1. readAt \in {"boot", "applyConfig", "initialize"}
  BY DEF ReaderConnect, ReaderReconfigures, ReaderStarts, ReadStep
<1>2. ~acquiring
  BY <1>1 DEF DataInv, RunControlInv, AcquiringInv
<1>3. ASSUME PacedOperator
      PROVE  factory \in {"none", "closed"} /\ acquisition = runNumber
  <2>1. RunControlInv /\ PacedInv
    BY <1>3 DEF DataInv
  <2>2. CASE readAt = "boot"
    BY <2>1, <2>2
    DEF RunControlInv, LifetimeInv, PacedInv, NumbersInv, Ahead, WStarting
  <2>3. CASE readAt \in {"applyConfig", "initialize"}
    <3>1. Starting
      BY <2>1, <2>3
      DEF PacedInv, StagesInv, Quitting, Stopping, Booting, BothRunning, RTimer, RStopping,
          ReaderRunning
    <3> QED
      BY <2>1, <2>3, <3>1
      DEF Starting, RunControlInv, FileOpenWhenUsed, PacedInv, NumbersInv, Ahead, WStarting,
          RStarted, ReaderRunning
  <2> QED
    BY <1>1, <2>2, <2>3
<1>4. daqCfg' \in Configs
  BY DEF DataInv, RunControlInv, TypeOK, DAQOK, ReaderConnect, ReaderReconfigures, ReaderStarts
<1> QED
  BY <1>2, <1>3, <1>4
  DEF Data!StartAcquisition, Data!output, ReaderConnect, ReaderReconfigures, ReaderStarts,
      StartAcquisition, ReadStep, factoryVars, PacedOperator

LEMMA ReaderStep ==
  ASSUME DataInv, Reader
  PROVE  [Data!Next]_(Data!vars)
<1> USE DEF Data!Next, ReadStep, factoryVars
<1>1. CASE ReaderConnect \/ ReaderReconfigures \/ ReaderStarts
  BY <1>1, ReaderStartsBoards
<1>2. CASE ReaderRead
  <2>1. acquiring
    BY <1>2 DEF DataInv, RunControlInv, AcquiringInv, ReaderRead
  <2> QED
    BY <1>2, <2>1
    DEF ReaderRead, Data!Trigger, Data!boards, Data!output, Data!vars, daqVars, PacedOperator
<1>3. CASE ReaderStops \/ ReaderExits
  <2>1. ASSUME PacedOperator PROVE acquisition = runNumber
    <3>1. RunControlInv /\ PacedInv
      BY <2>1 DEF DataInv
    <3>2. writeAt \notin {"boot", "create"} /\ (quit \/ writeAt \notin WStarting)
      BY <1>3, <3>1
      DEF ReaderStops, ReaderExits, RunControlInv, LifetimeInv, PacedInv, StagesInv, Quitting,
          Stopping, Booting, BothRunning, Starting, RStarting, RStarted, ReaderRunning,
          WRun, WStopping, WStarting, WriterRunning
    <3> QED
      BY <3>1, <3>2 DEF PacedInv, NumbersInv, Ahead
  <2>2. acquiring' = FALSE /\ UNCHANGED <<acquisition, daqCfg, pending, factoryVars>>
    BY <1>3 DEF ReaderStops, ReaderExits
  <2>3. acquiring \in BOOLEAN
    BY DEF DataInv, RunControlInv, TypeOK, DAQOK
  <2> QED
    BY <2>1, <2>2, <2>3
    DEF Data!StopAcquisition, Data!output, Data!boards, Data!vars, PacedOperator
<1>4. CASE \/ AnnounceReady \/ ReaderLeave \/ TimerExpires \/ TimerStores \/ ReaderPolls
          \/ ReaderClearsReady \/ AnnounceStopped \/ ReaderClearsStopped
  BY <1>4
  DEF AnnounceReady, ReaderLeave, TimerExpires, TimerStores, ReaderPolls, ReaderClearsReady,
      AnnounceStopped, ReaderClearsStopped, Data!vars, Data!boards, Data!output, daqVars,
      PacedOperator
<1> QED
  BY <1>1, <1>2, <1>3, <1>4 DEF Reader

(* The writer opens a run when the last file is finished: of a paced        *)
(* operator, for the acquisition that the reader has started.               *)
LEMMA WriterOpensRun ==
  ASSUME DataInv, DataInv', CreateFactory \/ DefineNewRun
  PROVE  Data!OpenRun
<1>1. factory \in {"none", "closed"}
  BY DEF DataInv, RunControlInv, LifetimeInv, FileOpenWhenUsed, CreateFactory, DefineNewRun,
         WriteStep
<1>2. ASSUME PacedOperator PROVE acquiring /\ acquisition = runNumber + 1
  <2>1. RunControlInv /\ PacedInv /\ writeAt \in {"create", "adopt"}
    BY <1>2 DEF DataInv, CreateFactory, DefineNewRun, WriteStep
  <2>2. readAt \in ReaderRunning /\ ~quit
    BY <2>1
    DEF PacedInv, StagesInv, Quitting, Stopping, Booting, BothRunning, Starting, WRun,
        WStopping, WStarting, WriterRunning
  <2> QED
    BY <2>1, <2>2
    DEF RunControlInv, AcquiringInv, PacedInv, NumbersInv, Ahead, WStarting, RStarted,
        ReaderRunning
<1>3. factoryCfg' \in Configs
  BY DEF DataInv, RunControlInv, TypeOK, FactoryOK
<1> QED
  BY <1>1, <1>2, <1>3
  DEF Data!OpenRun, Data!boards, CreateFactory, DefineNewRun, OpenRun, WriteStep, daqVars,
      PacedOperator

LEMMA WriterStep ==
  ASSUME DataInv, DataInv', Writer
  PROVE  [Data!Next]_(Data!vars)
<1> USE DEF Data!Next, WriteStep, daqVars
<1> DEFINE Fills == \E kept \in SUBSET pending : \E filled \in SUBSET (pending \ kept) :
                      pending' = kept /\ recorded' = recorded \cup filled
<1>1. CASE CreateFactory \/ DefineNewRun
  BY <1>1, WriterOpensRun
<1>2. CASE WriterFlushes
  <2>1. factory = "open"
    BY <1>2 DEF WriterFlushes, DataInv, RunControlInv, FileOpenWhenUsed, WriterRunning
  <2>2. Fills
    BY <1>2 DEF WriterFlushes, FlushQueuesToDisk
  <2> QED
    BY <1>2, <2>1, <2>2
    DEF WriterFlushes, Data!Record, Data!Flush, Data!boards, PacedOperator
<1>3. CASE WriterStops
  <2>1. factory = "open"
    BY <1>3 DEF WriterStops, DataInv, RunControlInv, FileOpenWhenUsed, WriterRunning
  <2>2. Fills
    BY <1>3 DEF WriterStops, FlushQueuesToDisk
  <2>3. PacedOperator => acquisition = runNumber
    BY <1>3 DEF WriterStops, DataInv, PacedInv, NumbersInv, Ahead, WStarting
  <2> QED
    BY <1>3, <2>1, <2>2, <2>3
    DEF WriterStops, Data!FinishRun, Data!Flush, Data!boards, PacedOperator
<1>4. CASE RotateFile
  BY <1>4
  DEF RotateFile, Data!Rotate, Data!boards, DataInv, RunControlInv, FileOpenWhenUsed,
      WriterRunning, PacedOperator
<1>5. CASE DestroyFactory
  <2>1. factory \in {"open", "closed"}
    BY <1>5 DEF DestroyFactory, DataInv, RunControlInv, TypeOK, FactoryOK, LifetimeInv
  <2>2. PacedOperator => acquisition = runNumber
    BY <1>5 DEF DestroyFactory, DataInv, PacedInv, NumbersInv, Ahead, WStarting
  <2> QED
    BY <1>5, <2>1, <2>2 DEF DestroyFactory, Data!End, Data!boards, PacedOperator
<1>6. CASE CountReached \/ CountStores \/ RotateDone \/ WriterPolls \/ AnnounceSafe
  BY <1>6
  DEF CountReached, CountStores, RotateDone, WriterPolls, AnnounceSafe, Data!vars, Data!boards,
      Data!output, factoryVars, PacedOperator
<1> QED
  BY <1>1, <1>2, <1>3, <1>4, <1>5, <1>6 DEF Writer

(* Whatever the operator does, the boards and the file are handled as      *)
(* DataTaking says; with a paced operator who does not use restart,        *)
(* acquisitions and runs begin in turns.                                   *)
THEOREM ImplementsDataTakingTheorem == Spec => ImplementsDataTaking
<1>1. ASSUME DataInv, DataInv', [Next]_vars PROVE [Data!Next]_(Data!vars)
  <2>1. CASE UNCHANGED vars
    BY <2>1
    DEF vars, daqVars, factoryVars, Data!vars, Data!boards, Data!output, PacedOperator
  <2> QED
    BY <1>1, <2>1, MainLeavesData, ReaderStep, WriterStep DEF Next
<1> QED
  BY <1>1, DataInit, DataInvariant, PTL DEF Spec, ImplementsDataTaking, Data!Spec
=============================================================================

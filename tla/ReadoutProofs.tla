----------------------------- MODULE ReadoutProofs -----------------------------
(* Proofs about Readout for any number of digitizers, configurations,        *)
(* triggers, runs and failures of library calls.                             *)
EXTENDS Readout, FiniteSetTheorems, SequenceTheorems, TLAPS

USE DEF vars, method, software, control, data, buffers, outcome

-----------------------------------------------------------------------------
(* Loops, sequences and library calls.                                       *)

LEMMA BoardsAreIntegers ==
  /\ 0 \in Boards /\ Master \in Boards
  /\ \A b \in Boards : b \in Nat /\ b >= 0 /\ b < nDigitizers
BY ReadoutAssumption DEF Boards, Master

(* The loop goes to the next board, or after the last one to what follows. *)
LEMMA LoopStep ==
  ASSUME MethodOK, NEW next \in Places, Loop(next)
  PROVE  /\ at' \in Places /\ board' \in Boards
         /\ \/ /\ at' = at /\ board' = board + 1
            \/ /\ at' = next /\ board' = 0
               /\ \A b \in Boards : b <= board
BY ReadoutAssumption DEF MethodOK, Loop, Boards

LEMMA EventsType ==
  ASSUME NEW seq \in EventSeqs
  PROVE  Events(seq) \in SUBSET (1..MaxTriggers)
<1>1. \A n \in 1..Len(seq) : seq[n] \in 1..MaxTriggers
  BY ElementOfSeq DEF EventSeqs
<1> QED
  BY <1>1 DEF Events

LEMMA SubSeqType ==
  ASSUME NEW seq \in EventSeqs, NEW m \in Nat \ {0}, NEW n \in Nat, n <= Len(seq)
  PROVE  SubSeq(seq, m, n) \in EventSeqs
<1>1. Len(seq) \in Nat
  BY LenProperties DEF EventSeqs
<1>2. ASSUME NEW i \in m..n PROVE seq[i] \in 1..MaxTriggers
  <2>1. i \in 1..Len(seq)
    BY <1>1
  <2> QED
    BY <2>1, ElementOfSeq DEF EventSeqs
<1> QED
  BY <1>2, SubSeqProperties DEF EventSeqs

LEMMA EmptyType == <<>> \in EventSeqs
BY EmptySeq DEF EventSeqs

LEMMA AppendType ==
  ASSUME NEW seq \in EventSeqs, NEW e \in 1..MaxTriggers
  PROVE  Append(seq, e) \in EventSeqs
BY AppendProperties DEF EventSeqs

(* A call that fails is counted and remembered, and nothing is forgotten. *)
LEMMA TryStep ==
  ASSUME failures \in 0..MaxFailures, NEW call, NEW b, NEW able \in BOOLEAN,
         NEW ok \in BOOLEAN, Try(call, b, able, ok)
  PROVE  /\ failures' \in 0..MaxFailures
         /\ faults \subseteq faults'
         /\ ok => able /\ faults' = faults
         /\ able /\ ~ok => <<call, b>> \in faults'
BY ReadoutAssumption DEF Try

LEMMA FailedCalls ==
  ASSUME failures \in 0..MaxFailures,
         NEW failed \in SUBSET {"channels", "trigger", "readout", "Reset", "BoardFailStatus",
                                "SWStopAcquisition", "ClearData"},
         failures + Cardinality(failed) <= MaxFailures
  PROVE  failures + Cardinality(failed) \in 0..MaxFailures
<1>1. IsFiniteSet({"channels", "trigger", "readout", "Reset", "BoardFailStatus",
                   "SWStopAcquisition", "ClearData"})
  <2>1. /\ IsFiniteSet({"channels"}) /\ IsFiniteSet({"trigger"}) /\ IsFiniteSet({"readout"})
        /\ IsFiniteSet({"Reset"}) /\ IsFiniteSet({"BoardFailStatus"})
        /\ IsFiniteSet({"SWStopAcquisition"}) /\ IsFiniteSet({"ClearData"})
    BY FS_Singleton
  <2>2. IsFiniteSet({"channels"} \cup {"trigger"} \cup {"readout"} \cup {"Reset"}
                      \cup {"BoardFailStatus"} \cup {"SWStopAcquisition"} \cup {"ClearData"})
    BY <2>1, FS_Union
  <2>3. {"channels", "trigger", "readout", "Reset", "BoardFailStatus", "SWStopAcquisition",
         "ClearData"}
          = {"channels"} \cup {"trigger"} \cup {"readout"} \cup {"Reset"}
              \cup {"BoardFailStatus"} \cup {"SWStopAcquisition"} \cup {"ClearData"}
    OBVIOUS
  <2> QED
    BY <2>2, <2>3
<1>2. Cardinality(failed) \in Nat
  BY <1>1, FS_Subset, FS_CardinalityType
<1> QED
  BY <1>2, ReadoutAssumption

-----------------------------------------------------------------------------
(* Types.                                                                    *)

LEMMA TypeInit == Init => TypeOK
<1> SUFFICES ASSUME Init PROVE TypeOK
  OBVIOUS
<1>1. MethodOK
  <2>1. board \in Boards
    BY BoardsAreIntegers DEF Init
  <2> QED
    BY <2>1 DEF Init, MethodOK, Places
<1>2. SoftwareOK
  BY DEF Init, SoftwareOK, TriggerTypeNames
<1>3. ControlOK
  BY DEF Init, ControlOK, Fresh, Settings
<1>4. DataOK
  BY EmptyType, ReadoutAssumption DEF Init, DataOK
<1>5. BuffersOK
  BY EmptyType DEF Init, BuffersOK
<1>6. OutcomeOK
  BY EmptyType DEF Init, OutcomeOK
<1> QED
  BY <1>1, <1>2, <1>3, <1>4, <1>5, <1>6, ReadoutAssumption DEF Init, TypeOK

LEMMA LoopType ==
  ASSUME TypeOK, NEW next \in Places, Loop(next),
         UNCHANGED <<quitting, iEvt, dataRead>>
  PROVE  MethodOK'
BY LoopStep DEF TypeOK, MethodOK

LEMMA ConnectType ==
  ASSUME TypeOK, ConnectToBoard
  PROVE  TypeOK'
<1> USE DEF TypeOK
<1>1. PICK ok \in BOOLEAN :
        /\ Try("OpenDigitizer", board, TRUE, ok)
        /\ open' = With(open, board, ok)
        /\ IF ok THEN Loop("configured") ELSE at' = "exit" /\ UNCHANGED board
  BY DEF ConnectToBoard
<1>2. failures' \in 0..MaxFailures
  BY <1>1, TryStep
<1>3. MethodOK'
  BY <1>1, LoopType DEF ConnectToBoard, MethodOK, Places
<1>4. ControlOK'
  BY <1>1 DEF ConnectToBoard, ControlOK, With, MethodOK
<1> QED
  BY <1>2, <1>3, <1>4 DEF ConnectToBoard, SoftwareOK, DataOK, BuffersOK, OutcomeOK

LEMMA ConfigurationType ==
  ASSUME TypeOK, ReadConfiguration \/ InitializeBoards \/ \E quit \in BOOLEAN : Stop(quit)
  PROVE  TypeOK'
<1> USE DEF TypeOK
<1>1. CASE ReadConfiguration
  BY <1>1 DEF ReadConfiguration, MethodOK, Places, SoftwareOK, ControlOK, DataOK, BuffersOK,
              OutcomeOK
<1>2. CASE InitializeBoards
  BY <1>2 DEF InitializeBoards, MethodOK, Places, SoftwareOK, ControlOK, DataOK, BuffersOK,
              OutcomeOK
<1>3. CASE \E quit \in BOOLEAN : Stop(quit)
  BY <1>3 DEF Stop, MethodOK, Places, SoftwareOK, ControlOK, DataOK, BuffersOK, OutcomeOK
<1> QED
  BY <1>1, <1>2, <1>3

LEMMA ClearDataType ==
  ASSUME TypeOK, ClearData
  PROVE  /\ memory' \in [Boards -> EventSeqs]
         /\ givenUp' \in [Boards -> SUBSET (1..MaxTriggers)]
<1> USE DEF TypeOK
<1>1. Events(memory[board]) \in SUBSET (1..MaxTriggers)
  BY EventsType DEF DataOK, MethodOK
<1> QED
  BY <1>1, EmptyType DEF ClearData, GiveUp, DataOK, OutcomeOK, MethodOK

LEMMA InitializeType ==
  ASSUME TypeOK, InitializeBoard
  PROVE  TypeOK'
<1> USE DEF TypeOK
<1>1. PICK failed \in SUBSET (Settings \cup {"Reset", "BoardFailStatus"}) :
        /\ failures + Cardinality(failed) <= MaxFailures
        /\ failures' = failures + Cardinality(failed)
        /\ faults' = faults \cup {<<call, board>> : call \in failed}
        /\ IF "Reset" \in failed THEN UNCHANGED <<armed, memory, givenUp>> ELSE Reset
        /\ IF "BoardFailStatus" \in failed THEN LeaveUnconfigured(failed)
                                          ELSE Configure(failed)
  BY DEF InitializeBoard
<1>2. failures' \in 0..MaxFailures
  BY <1>1, FailedCalls DEF Settings
<1>3. MethodOK'
  BY LoopType DEF InitializeBoard, Places
<1>4. memory' \in [Boards -> EventSeqs] /\ OutcomeOK'
  BY <1>1, ClearDataType DEF InitializeBoard, Reset, DataOK, OutcomeOK
<1>5. armed' \subseteq Boards
  BY <1>1 DEF Reset, ControlOK
<1>6. applied' \in [Boards -> [Settings -> Configs \cup {"reset", "partly"}]]
  <2>1. CASE "BoardFailStatus" \in failed
    BY <1>1, <2>1 DEF LeaveUnconfigured, ControlOK, Fresh
  <2>2. CASE "BoardFailStatus" \notin failed
    <3>1. [s \in Settings |-> IF s \in failed THEN "partly" ELSE cfg]
            \in [Settings -> Configs \cup {"reset", "partly"}]
      BY DEF SoftwareOK
    <3> QED
      BY <1>1, <2>2, <3>1 DEF Configure, SetTriggerSource, ControlOK
  <2> QED
    BY <2>1, <2>2
<1>7. startMode' \in [Boards -> {"software", "lvds"}]
  BY <1>1 DEF LeaveUnconfigured, Configure, SetTriggerSource, ControlOK
<1>8. SoftwareOK'
  <2>1. TriggerType[cfg][board] \in TriggerTypeNames
    BY ReadoutAssumption DEF SoftwareOK, MethodOK
  <2> QED
    BY <1>1, <2>1 DEF InitializeBoard, LeaveUnconfigured, Configure, SetTriggerSource, SoftwareOK
<1> QED
  BY <1>2, <1>3, <1>4, <1>5, <1>6, <1>7, <1>8
  DEF InitializeBoard, ControlOK, DataOK, BuffersOK

LEMMA MallocType ==
  ASSUME TypeOK, MallocReadoutBuffer
  PROVE  TypeOK'
<1> USE DEF TypeOK
<1>1. PICK ok \in BOOLEAN :
        /\ Try("MallocReadoutBuffer", board, TRUE, ok)
        /\ ReadoutBuffers' = With(ReadoutBuffers, board, ok)
  BY DEF MallocReadoutBuffer
<1>2. failures' \in 0..MaxFailures
  BY <1>1, TryStep
<1>3. MethodOK'
  BY LoopType DEF MallocReadoutBuffer, Places
<1>4. buffer' \in [Boards -> EventSeqs]
  BY EmptyType DEF MallocReadoutBuffer, BuffersOK, MethodOK
<1>5. BuffersOK'
  BY <1>1, <1>4 DEF MallocReadoutBuffer, BuffersOK, With, MethodOK
<1> QED
  BY <1>2, <1>3, <1>5 DEF MallocReadoutBuffer, SoftwareOK, ControlOK, DataOK, OutcomeOK

LEMMA SynchronizationType ==
  ASSUME TypeOK, ProgramSynchronization
  PROVE  TypeOK'
<1> USE DEF TypeOK
<1>1. PICK ok \in BOOLEAN :
        /\ Try("ProgramSynchronization", board, TRUE, ok)
        /\ startMode' = [startMode EXCEPT ![board] =
             IF ~ok THEN @ ELSE IF board = Master THEN "software" ELSE "lvds"]
  BY DEF ProgramSynchronization
<1>2. failures' \in 0..MaxFailures
  BY <1>1, TryStep
<1>3. MethodOK'
  BY LoopType DEF ProgramSynchronization, Places
<1>4. ControlOK'
  BY <1>1 DEF ProgramSynchronization, ControlOK
<1>5. DataOK'
  BY DEF ProgramSynchronization, DataOK
<1> QED
  BY <1>2, <1>3, <1>4, <1>5 DEF ProgramSynchronization, SoftwareOK, BuffersOK, OutcomeOK

LEMMA AllocateType ==
  ASSUME TypeOK, AllocateEvent
  PROVE  TypeOK'
<1> USE DEF TypeOK
<1>1. PICK ok \in BOOLEAN :
        /\ Try("AllocateEvent", board, TRUE, ok)
        /\ CurrentEvents' = With(CurrentEvents, board, ok)
  BY DEF AllocateEvent
<1>2. failures' \in 0..MaxFailures
  BY <1>1, TryStep
<1>3. MethodOK'
  BY LoopType DEF AllocateEvent, Places
<1>4. BuffersOK'
  BY <1>1 DEF AllocateEvent, BuffersOK, With, MethodOK
<1> QED
  BY <1>2, <1>3, <1>4 DEF AllocateEvent, SoftwareOK, ControlOK, DataOK, OutcomeOK

LEMMA StartType ==
  ASSUME TypeOK, StartAcquisition
  PROVE  TypeOK'
<1> USE DEF TypeOK
<1> DEFINE b == IF board + 1 < nDigitizers THEN board + 1 ELSE Master
<1>1. PICK ok \in BOOLEAN :
        /\ Try("SWStartAcquisition", b, TRUE, ok)
        /\ armed' = With(armed, b, ok)
  BY DEF StartAcquisition
<1>2. b \in Boards
  BY ReadoutAssumption DEF MethodOK, Boards, Master
<1>3. runs' \in Nat
  BY DEF StartAcquisition
<1>4. open' = open /\ applied' = applied /\ startMode' = startMode
  BY DEF StartAcquisition
<1> HIDE DEF b
<1>5. failures' \in 0..MaxFailures
  BY <1>1, TryStep
<1>6. MethodOK'
  BY LoopType DEF StartAcquisition, Places
<1>7. ControlOK'
  BY <1>1, <1>2, <1>4 DEF ControlOK, With
<1> QED
  BY <1>3, <1>5, <1>6, <1>7 DEF StartAcquisition, SoftwareOK, DataOK, BuffersOK, OutcomeOK

LEMMA RecordType ==
  ASSUME TypeOK, triggers < MaxTriggers, RecordTrigger
  PROVE  DataOK'
<1> USE DEF TypeOK
<1>1. triggers + 1 \in 1..MaxTriggers /\ triggers' = triggers + 1
  BY ReadoutAssumption DEF DataOK, RecordTrigger
<1>2. \A b \in Boards : Append(memory[b], triggers + 1) \in EventSeqs
  BY <1>1, AppendType DEF DataOK
<1>3. memory' \in [Boards -> EventSeqs]
  BY <1>2 DEF RecordTrigger, DataOK
<1> QED
  BY <1>1, <1>3 DEF RecordTrigger, DataOK

LEMMA TriggerStepType ==
  ASSUME TypeOK, Trigger
  PROVE  TypeOK'
<1> USE DEF TypeOK
<1>1. DataOK'
  BY RecordType DEF Trigger
<1> QED
  BY <1>1 DEF Trigger, MethodOK, SoftwareOK, ControlOK, BuffersOK, OutcomeOK

LEMMA SendType ==
  ASSUME TypeOK, SendSWTriggers
  PROVE  TypeOK'
<1> USE DEF TypeOK
<1>1. failures' \in 0..MaxFailures
  BY TryStep DEF SendSWTriggers
<1>2. DataOK'
  <2>1. UNCHANGED data \/ (triggers < MaxTriggers /\ RecordTrigger)
    BY DEF SendSWTriggers
  <2> QED
    BY <2>1, RecordType DEF DataOK
<1>3. MethodOK'
  BY DEF SendSWTriggers, MethodOK, Places
<1> QED
  BY <1>1, <1>2, <1>3 DEF SendSWTriggers, SoftwareOK, ControlOK, BuffersOK, OutcomeOK

LEMMA ReadType ==
  ASSUME TypeOK, ReadEventBuffer
  PROVE  TypeOK'
<1> USE DEF TypeOK
<1> DEFINE seen == memory[board]
           n    == IF Len(seen) < MaxNumEventsBLT THEN Len(seen) ELSE MaxNumEventsBLT
<1>1. PICK ok \in BOOLEAN :
        /\ Try("ReadData", board, board \in ReadoutBuffers, ok)
        /\ IF ok
             THEN /\ buffer' = [buffer EXCEPT ![board] = SubSeq(seen, 1, n)]
                  /\ memory' = [memory EXCEPT ![board] = SubSeq(seen, n + 1, Len(seen))]
                  /\ dataRead' = (dataRead \/ n > 0)
             ELSE /\ \E found \in {buffer[board], <<>>} :
                       buffer' = [buffer EXCEPT ![board] = found]
                  /\ UNCHANGED <<memory, dataRead>>
  BY DEF ReadEventBuffer
<1>2. board \in Boards /\ seen \in EventSeqs /\ buffer[board] \in EventSeqs
  BY DEF MethodOK, DataOK, BuffersOK
<1>3. Len(seen) \in Nat /\ n \in 0..Len(seen)
  BY <1>2, LenProperties, ReadoutAssumption DEF EventSeqs
<1> HIDE DEF seen, n
<1>4. /\ SubSeq(seen, 1, n) \in EventSeqs
      /\ SubSeq(seen, n + 1, Len(seen)) \in EventSeqs
  BY <1>2, <1>3, SubSeqType
<1>5. failures' \in 0..MaxFailures
  BY <1>1, ReadoutAssumption DEF Try
<1>6. buffer' \in [Boards -> EventSeqs] /\ memory' \in [Boards -> EventSeqs]
  BY <1>1, <1>2, <1>4, EmptyType DEF DataOK, BuffersOK
<1>7. dataRead' \in BOOLEAN
  BY <1>1 DEF MethodOK
<1>8. MethodOK'
  <2>1. iEvt' = 1 /\ quitting' = quitting
    BY DEF ReadEventBuffer
  <2>2. at' \in Places /\ board' \in Boards
    BY LoopStep DEF ReadEventBuffer, Places
  <2> QED
    BY <1>7, <2>1, <2>2 DEF MethodOK
<1>9. DataOK' /\ BuffersOK'
  BY <1>6 DEF ReadEventBuffer, DataOK, BuffersOK
<1> QED
  BY <1>5, <1>8, <1>9 DEF ReadEventBuffer, SoftwareOK, ControlOK, OutcomeOK

LEMMA FoundType == TypeOK => Found \in EventSeqs /\ Len(Found) \in Nat
BY EmptyType, LenProperties DEF TypeOK, Found, MethodOK, BuffersOK, EventSeqs

LEMMA DecodeType ==
  ASSUME TypeOK, DecodeEvent \/ SkipBuffer \/ BufferDone
  PROVE  TypeOK'
<1> USE DEF TypeOK
<1>1. Found \in EventSeqs /\ Len(Found) \in Nat
  BY FoundType
<1>2. CASE DecodeEvent
  <2>1. failures' \in 0..MaxFailures
    BY <1>2, ReadoutAssumption DEF DecodeEvent, Try
  <2>2. iEvt \in 1..Len(Found)
    BY <1>1, <1>2 DEF DecodeEvent, Decoding, MethodOK
  <2>3. Found[iEvt] \in 1..MaxTriggers
    BY <1>1, <2>2, ElementOfSeq DEF EventSeqs
  <2>4. pushed' \in [Boards -> EventSeqs]
    BY <1>2, <2>3, AppendType DEF DecodeEvent, OutcomeOK
  <2> QED
    BY <1>2, <2>1, <2>4
    DEF DecodeEvent, MethodOK, SoftwareOK, ControlOK, DataOK, BuffersOK, OutcomeOK
<1>3. CASE SkipBuffer
  <2>1. failures' \in 0..MaxFailures
    BY <1>3, ReadoutAssumption DEF SkipBuffer, Try
  <2>2. iEvt \in Nat \ {0}
    BY DEF MethodOK
  <2>3. SubSeq(Found, iEvt, Len(Found)) \in EventSeqs
    BY <1>1, <2>2, SubSeqType
  <2>4. Events(SubSeq(Found, iEvt, Len(Found))) \in SUBSET (1..MaxTriggers)
    BY <2>3, EventsType
  <2>5. givenUp' \in [Boards -> SUBSET (1..MaxTriggers)]
    BY <1>3, <2>4 DEF SkipBuffer, GiveUp, OutcomeOK, MethodOK
  <2>6. at' \in Places /\ board' \in Boards
    BY <1>3, LoopStep DEF SkipBuffer, Places
  <2> QED
    BY <1>3, <2>1, <2>5, <2>6
    DEF SkipBuffer, MethodOK, SoftwareOK, ControlOK, DataOK, BuffersOK, OutcomeOK
<1>4. CASE BufferDone
  <2>1. at' \in Places /\ board' \in Boards
    BY <1>4, LoopStep DEF BufferDone, Places
  <2> QED
    BY <1>4, <2>1
    DEF BufferDone, MethodOK, SoftwareOK, ControlOK, DataOK, BuffersOK, OutcomeOK
<1> QED
  BY <1>2, <1>3, <1>4

LEMMA StopType ==
  ASSUME TypeOK, StopAcquisition
  PROVE  TypeOK'
<1> USE DEF TypeOK
<1>1. PICK failed \in SUBSET {"SWStopAcquisition", "ClearData"} :
        /\ failures + Cardinality(failed) <= MaxFailures
        /\ failures' = failures + Cardinality(failed)
        /\ armed' = Without(armed, board, "SWStopAcquisition" \notin failed)
        /\ IF "ClearData" \in failed THEN UNCHANGED <<memory, givenUp>> ELSE ClearData
  BY DEF StopAcquisition
<1>2. failures' \in 0..MaxFailures
  BY <1>1, FailedCalls
<1>3. MethodOK'
  BY LoopType DEF StopAcquisition, Places
<1>4. DataOK' /\ OutcomeOK'
  BY <1>1, ClearDataType DEF StopAcquisition, DataOK, OutcomeOK
<1>5. ControlOK'
  BY <1>1 DEF StopAcquisition, ControlOK, Without
<1> QED
  BY <1>2, <1>3, <1>4, <1>5 DEF StopAcquisition, SoftwareOK, BuffersOK

LEMMA FreeType ==
  ASSUME TypeOK, FreeEvent \/ FreeReadoutBuffer \/ CloseDigitizer
  PROVE  TypeOK'
<1> USE DEF TypeOK
<1>1. failures' \in 0..MaxFailures
  BY ReadoutAssumption DEF FreeEvent, FreeReadoutBuffer, CloseDigitizer, Try
<1>2. MethodOK'
  <2>1. \E next \in Places : Loop(next)
    BY DEF FreeEvent, FreeReadoutBuffer, CloseDigitizer, Places
  <2>2. UNCHANGED <<quitting, iEvt, dataRead>>
    BY DEF FreeEvent, FreeReadoutBuffer, CloseDigitizer
  <2> QED
    BY <2>1, <2>2, LoopType
<1>3. BuffersOK' /\ open' \subseteq Boards
  BY DEF FreeEvent, FreeReadoutBuffer, CloseDigitizer, BuffersOK, ControlOK, Without
<1> QED
  BY <1>1, <1>2, <1>3
  DEF FreeEvent, FreeReadoutBuffer, CloseDigitizer, SoftwareOK, ControlOK, DataOK, OutcomeOK

LEMMA TypeStep == TypeOK /\ [Next]_vars => TypeOK'
<1>1. ASSUME TypeOK, UNCHANGED vars PROVE TypeOK'
  BY <1>1 DEF TypeOK, MethodOK, SoftwareOK, ControlOK, DataOK, BuffersOK, OutcomeOK
<1>2. ASSUME TypeOK, Reader PROVE TypeOK'
  BY <1>2, ConnectType, ConfigurationType, InitializeType, MallocType, SynchronizationType,
     AllocateType, StartType, SendType, ReadType, DecodeType, StopType, FreeType
  DEF Reader, ConfigurationStep, StartStep, ReadStep, StopStep
<1> QED
  BY <1>1, <1>2, TriggerStepType, ConfigurationType DEF Next

-----------------------------------------------------------------------------
(* The loops.                                                                *)

(* Only InitializeBoards() forgets which calls failed. *)
LEMMA FaultsGrow ==
  ASSUME TypeOK, [Next]_vars, ~InitializeBoards, NEW b, NEW calls, Faulty(b, calls)
  PROVE  Faulty(b, calls)'
<1>1. faults \subseteq faults'
  BY DEF Next, Reader, ConfigurationStep, StartStep, ReadStep, StopStep, Try, ConnectToBoard,
         InitializeBoard, MallocReadoutBuffer, ProgramSynchronization, AllocateEvent,
         StartAcquisition, SendSWTriggers, ReadEventBuffer, DecodeEvent, SkipBuffer,
         BufferDone, StopAcquisition, FreeEvent, FreeReadoutBuffer, CloseDigitizer, Trigger,
         ReadConfiguration, Stop
<1> QED
  BY <1>1 DEF Faulty

LEMMA LoopsBeginStep ==
  ASSUME TypeOK, LoopsBegin, [Next]_vars
  PROVE  LoopsBegin'
<1> USE DEF LoopsBegin, Loop
<1>1. CASE ConfigurationStep
  BY <1>1
  DEF ConfigurationStep, ConnectToBoard, InitializeBoards, InitializeBoard,
      MallocReadoutBuffer
<1>2. CASE StartStep
  BY <1>2 DEF StartStep, ProgramSynchronization, AllocateEvent, StartAcquisition
<1>3. CASE ReadStep
  BY <1>3
  DEF ReadStep, SendSWTriggers, ReadEventBuffer, Decoding, DecodeEvent, SkipBuffer, BufferDone
<1>4. CASE StopStep
  BY <1>4 DEF StopStep, StopAcquisition, FreeEvent, FreeReadoutBuffer, CloseDigitizer
<1>5. CASE Trigger \/ ReadConfiguration \/ \E quit \in BOOLEAN : Stop(quit)
  BY <1>5 DEF Trigger, ReadConfiguration, Stop
<1> QED
  BY <1>1, <1>2, <1>3, <1>4, <1>5 DEF Next, Reader

-----------------------------------------------------------------------------
(* What is configured.                                                       *)

AfterInitialize == {"malloc"} \cup StartingRun \cup Acquiring

IsConfigured(b) ==
  \/ Faulty(b, Settings \cup {"BoardFailStatus"})
  \/ /\ \A s \in Settings : applied[b][s] = cfg
     /\ TriggerTypes[b] = TriggerType[cfg][b]

LEMMA ConfiguredInitialize ==
  ASSUME ReadoutInv, InitializeBoard
  PROVE  Configured'
<1> USE DEF ReadoutInv, TypeOK
<1>1. PICK failed \in SUBSET (Settings \cup {"Reset", "BoardFailStatus"}) :
        /\ faults' = faults \cup {<<call, board>> : call \in failed}
        /\ IF "BoardFailStatus" \in failed THEN LeaveUnconfigured(failed)
                                          ELSE Configure(failed)
  BY DEF InitializeBoard
<1>2. at = "initialize" /\ cfg' = cfg /\ board \in Boards /\ board \in Nat
  BY BoardsAreIntegers DEF InitializeBoard, MethodOK
<1>3. \/ at' = at /\ board' = board + 1
      \/ at' = "malloc" /\ board' = 0 /\ \A b \in Boards : b <= board
  BY LoopStep DEF InitializeBoard, Places
<1>4. ASSUME NEW b \in Boards, b = board
      PROVE  IsConfigured(b)'
  <2>1. CASE \E call \in failed : call \in Settings \cup {"BoardFailStatus"}
    BY <1>1, <1>4, <2>1 DEF IsConfigured, Faulty
  <2>2. CASE \A call \in failed : call \notin Settings \cup {"BoardFailStatus"}
    <3>1. Configure(failed)
      BY <1>1, <2>2
    <3>2. \A s \in Settings : applied'[board][s] = cfg
      BY <1>2, <2>2, <3>1
      DEF Configure, SetTriggerSource, ControlOK, Settings
    <3>3. TriggerTypes'[board] = TriggerType[cfg][board]
      BY <1>2, <3>1 DEF Configure, SetTriggerSource, SoftwareOK
    <3> QED
      BY <1>2, <1>4, <3>2, <3>3 DEF IsConfigured
  <2> QED
    BY <2>1, <2>2
<1>5. ASSUME NEW b \in Boards, b < board
      PROVE  IsConfigured(b)'
  <2>1. IsConfigured(b)
    BY <1>2, <1>5 DEF Configured, Past, IsConfigured
  <2>2. applied'[b] = applied[b] /\ TriggerTypes'[b] = TriggerTypes[b]
    BY <1>1, <1>2, <1>5, BoardsAreIntegers
    DEF LeaveUnconfigured, Configure, SetTriggerSource, ControlOK, SoftwareOK
  <2> QED
    BY <1>1, <1>2, <2>1, <2>2 DEF IsConfigured, Faulty
<1>6. triggerAnyBoardSW' => \E b \in Boards : TriggerType[cfg][b] = "soft"
  BY <1>1, <1>2 DEF LeaveUnconfigured, Configure, SetTriggerSource, Configured
<1>7. ASSUME NEW b \in Boards, Past(b, "initialize", AfterInitialize)'
      PROVE  b <= board
  BY <1>2, <1>3, <1>7, BoardsAreIntegers
  DEF Past, AfterInitialize, StartingRun, Acquiring
<1>8. ASSUME NEW b \in Boards, b <= board
      PROVE  b < board \/ b = board
  BY <1>2, <1>8, BoardsAreIntegers
<1>9. ASSUME NEW b \in Boards, Past(b, "initialize", AfterInitialize)'
      PROVE  IsConfigured(b)'
  BY <1>4, <1>5, <1>7, <1>8, <1>9
<1> QED
  BY <1>2, <1>6, <1>9 DEF Configured, IsConfigured, AfterInitialize

(* Every other step leaves what is configured, or the run. *)
LEMMA ConfiguredElse ==
  ASSUME ReadoutInv, [Next]_vars, ~InitializeBoards, ~InitializeBoard
  PROVE  \/ at' \notin {"initialize"} \cup AfterInitialize
         \/ /\ at \in AfterInitialize \/ (at = "initialize" /\ at' = at /\ board' = board)
            /\ UNCHANGED <<applied, software>>
<1> USE DEF AfterInitialize, StartingRun, Acquiring
<1>1. CASE UNCHANGED vars
  BY <1>1
<1>2. CASE ConnectToBoard \/ MallocReadoutBuffer \/ StartStep
  BY <1>2
  DEF Loop, ConnectToBoard, MallocReadoutBuffer, StartStep, ProgramSynchronization,
      AllocateEvent, StartAcquisition
<1>3. CASE ReadStep
  BY <1>3
  DEF Loop, ReadStep, SendSWTriggers, ReadEventBuffer, Decoding, DecodeEvent, SkipBuffer,
      BufferDone
<1>4. CASE StopStep \/ Trigger \/ ReadConfiguration \/ \E quit \in BOOLEAN : Stop(quit)
  BY <1>4
  DEF Loop, StopStep, StopAcquisition, FreeEvent, FreeReadoutBuffer, CloseDigitizer,
      Trigger, ReadConfiguration, Stop
<1> QED
  BY <1>1, <1>2, <1>3, <1>4 DEF Next, Reader, ConfigurationStep

LEMMA ConfiguredStep ==
  ASSUME ReadoutInv, [Next]_vars
  PROVE  Configured'
<1> USE DEF ReadoutInv
<1>1. CASE InitializeBoards
  <2>1. at' = "initialize" /\ board' = 0 /\ triggerAnyBoardSW' = FALSE
    BY <1>1 DEF InitializeBoards, LoopsBegin
  <2> QED
    BY <2>1, BoardsAreIntegers DEF Configured, Past, StartingRun, Acquiring
<1>2. CASE InitializeBoard
  BY <1>2, ConfiguredInitialize
<1>3. CASE ~InitializeBoards /\ ~InitializeBoard
  <2>1. CASE at' \notin {"initialize"} \cup AfterInitialize
    BY <2>1 DEF Configured, Past, AfterInitialize
  <2>2. CASE /\ at \in AfterInitialize \/ (at = "initialize" /\ at' = at /\ board' = board)
             /\ UNCHANGED <<applied, software>>
    <3>1. ASSUME NEW b \in Boards, Past(b, "initialize", AfterInitialize)'
          PROVE  IsConfigured(b)'
      <4>1. IsConfigured(b)
        BY <2>2, <3>1 DEF Configured, Past, IsConfigured, AfterInitialize
      <4> QED
        BY <1>3, <2>2, <4>1, FaultsGrow DEF IsConfigured
    <3>2. triggerAnyBoardSW' => \E b \in Boards : TriggerType[cfg'][b] = "soft"
      BY <2>2 DEF Configured, AfterInitialize
    <3> QED
      BY <3>1, <3>2 DEF Configured, IsConfigured, AfterInitialize
  <2> QED
    BY <1>3, <2>1, <2>2, ConfiguredElse
<1> QED
  BY <1>1, <1>2, <1>3

-----------------------------------------------------------------------------
(* What is allocated.                                                        *)

Stopped == {"freeBuffer", "stopped", "close", "closed"}

(* Past the board the loop was at, there are only those it passed before. *)
LEMMA Passed ==
  ASSUME MethodOK, NEW here, at = here, NEW next \in Places \ {here}, Loop(next),
         NEW b \in Boards, NEW later, here \notin later, Past(b, here, later)'
  PROVE  b = board \/ Past(b, here, later)
<1>1. board \in Nat /\ b \in Nat
  BY BoardsAreIntegers DEF MethodOK
<1>2. \/ at' = here /\ board' = board + 1
      \/ at' = next /\ board' = 0 /\ b <= board
  BY LoopStep
<1> QED
  BY <1>1, <1>2 DEF Past

AfterMalloc == StartingRun \cup Acquiring
AfterAllocate == {"start"} \cup Acquiring
AfterFreeEvent == {"freeBuffer", "stopped", "close", "closed"}
AfterFreeBuffer == {"stopped", "close", "closed"}

HasBuffer(b) == b \in ReadoutBuffers \/ Faulty(b, {"MallocReadoutBuffer"})
HasEvent(b) == b \in CurrentEvents \/ Faulty(b, {"AllocateEvent"})
NoEvent(b) == b \notin CurrentEvents \/ Faulty(b, {"FreeEvent"})
NoBuffer(b) == b \notin ReadoutBuffers \/ Faulty(b, {"FreeReadoutBuffer"})

IsAllocated(b) ==
  /\ Past(b, "malloc", AfterMalloc) => HasBuffer(b)
  /\ Past(b, "allocate", AfterAllocate) => HasEvent(b)
  /\ Past(b, "freeEvent", AfterFreeEvent) => NoEvent(b)
  /\ Past(b, "freeBuffer", AfterFreeBuffer) => NoBuffer(b)

LEMMA AllocatedMeans == Allocated <=> \A b \in Boards : IsAllocated(b)
BY DEF Allocated, IsAllocated, HasBuffer, HasEvent, NoEvent, NoBuffer, AfterMalloc,
       AfterAllocate, AfterFreeEvent, AfterFreeBuffer

USE DEF AfterMalloc, AfterAllocate, AfterFreeEvent, AfterFreeBuffer, StartingRun, Acquiring

LEMMA AllocatedByMalloc ==
  ASSUME ReadoutInv, [Next]_vars, MallocReadoutBuffer, NEW b \in Boards
  PROVE  IsAllocated(b)'
<1> USE DEF ReadoutInv, TypeOK
<1>1. at = "malloc" /\ at' \in {"malloc", "synchronize"} /\ CurrentEvents' = CurrentEvents
  BY DEF MallocReadoutBuffer, Loop
<1>2. b # board => (b \in ReadoutBuffers <=> b \in ReadoutBuffers')
  BY DEF MallocReadoutBuffer, With
<1>3. b = board => HasBuffer(b)'
  BY DEF MallocReadoutBuffer, With, Try, HasBuffer, Faulty
<1>4. ASSUME Past(b, "malloc", AfterMalloc)' PROVE HasBuffer(b)'
  <2>1. b = board \/ Past(b, "malloc", AfterMalloc)
    BY <1>1, <1>4, Passed DEF MallocReadoutBuffer, Places
  <2>2. Past(b, "malloc", AfterMalloc) => HasBuffer(b)
    BY AllocatedMeans DEF IsAllocated
  <2>3. ~InitializeBoards
    BY <1>1 DEF InitializeBoards
  <2> QED
    BY <1>2, <1>3, <2>1, <2>2, <2>3, FaultsGrow DEF HasBuffer
<1> QED
  BY <1>1, <1>4 DEF IsAllocated, Past

LEMMA AllocatedByAllocate ==
  ASSUME ReadoutInv, [Next]_vars, AllocateEvent, NEW b \in Boards
  PROVE  IsAllocated(b)'
<1> USE DEF ReadoutInv, TypeOK
<1>1. at = "allocate" /\ at' \in {"allocate", "start"} /\ ReadoutBuffers' = ReadoutBuffers
  BY DEF AllocateEvent, Loop
<1>2. b # board => (b \in CurrentEvents <=> b \in CurrentEvents')
  BY DEF AllocateEvent, With
<1>3. b = board => HasEvent(b)'
  BY DEF AllocateEvent, With, Try, HasEvent, Faulty
<1>4. ~InitializeBoards
  BY <1>1 DEF InitializeBoards
<1>5. ASSUME Past(b, "allocate", AfterAllocate)' PROVE HasEvent(b)'
  <2>1. b = board \/ Past(b, "allocate", AfterAllocate)
    BY <1>1, <1>5, Passed DEF AllocateEvent, Places
  <2>2. Past(b, "allocate", AfterAllocate) => HasEvent(b)
    BY AllocatedMeans DEF IsAllocated
  <2> QED
    BY <1>2, <1>3, <1>4, <2>1, <2>2, FaultsGrow DEF HasEvent
<1>6. HasBuffer(b)'
  <2>1. HasBuffer(b)
    BY <1>1, AllocatedMeans DEF IsAllocated, Past
  <2> QED
    BY <1>1, <1>4, <2>1, FaultsGrow DEF HasBuffer
<1> QED
  BY <1>1, <1>5, <1>6 DEF IsAllocated, Past

LEMMA AllocatedByFreeEvent ==
  ASSUME ReadoutInv, [Next]_vars, FreeEvent, NEW b \in Boards
  PROVE  IsAllocated(b)'
<1> USE DEF ReadoutInv, TypeOK
<1>1. at = "freeEvent" /\ at' \in {"freeEvent", "freeBuffer"}
  BY DEF FreeEvent, Loop
<1>2. b # board => (b \in CurrentEvents <=> b \in CurrentEvents')
  BY DEF FreeEvent, Without
<1>3. b = board => NoEvent(b)'
  BY DEF FreeEvent, Without, Try, NoEvent, Faulty
<1>4. ~InitializeBoards
  BY <1>1 DEF InitializeBoards
<1>5. ASSUME Past(b, "freeEvent", AfterFreeEvent)' PROVE NoEvent(b)'
  <2>1. b = board \/ Past(b, "freeEvent", AfterFreeEvent)
    BY <1>1, <1>5, Passed DEF FreeEvent, Places
  <2>2. Past(b, "freeEvent", AfterFreeEvent) => NoEvent(b)
    BY AllocatedMeans DEF IsAllocated
  <2> QED
    BY <1>2, <1>3, <1>4, <2>1, <2>2, FaultsGrow DEF NoEvent
<1>6. at' = "freeBuffer" => board' = 0
  BY <1>1 DEF FreeEvent, Loop
<1> QED
  BY <1>1, <1>5, <1>6, BoardsAreIntegers DEF IsAllocated, Past

LEMMA AllocatedByFreeBuffer ==
  ASSUME ReadoutInv, [Next]_vars, FreeReadoutBuffer, NEW b \in Boards
  PROVE  IsAllocated(b)'
<1> USE DEF ReadoutInv, TypeOK
<1> DEFINE next == IF quitting THEN "close" ELSE "stopped"
<1>1. /\ at = "freeBuffer" /\ at' \in {"freeBuffer", "stopped", "close"}
      /\ CurrentEvents' = CurrentEvents
  BY DEF FreeReadoutBuffer, Loop
<1>2. b # board => (b \in ReadoutBuffers <=> b \in ReadoutBuffers')
  BY DEF FreeReadoutBuffer, Without
<1>3. b = board => NoBuffer(b)'
  BY DEF FreeReadoutBuffer, Without, Try, NoBuffer, Faulty
<1>4. ~InitializeBoards
  BY <1>1 DEF InitializeBoards
<1>5. ASSUME Past(b, "freeBuffer", AfterFreeBuffer)' PROVE NoBuffer(b)'
  <2>1. Loop("close") \/ Loop("stopped")
    BY DEF FreeReadoutBuffer
  <2>2. b = board \/ Past(b, "freeBuffer", AfterFreeBuffer)
    BY <1>1, <1>5, <2>1, Passed DEF Places
  <2>3. Past(b, "freeBuffer", AfterFreeBuffer) => NoBuffer(b)
    BY AllocatedMeans DEF IsAllocated
  <2> QED
    BY <1>2, <1>3, <1>4, <2>2, <2>3, FaultsGrow DEF NoBuffer
<1>6. NoEvent(b)'
  <2>1. NoEvent(b)
    BY <1>1, AllocatedMeans DEF IsAllocated, Past
  <2> QED
    BY <1>1, <1>4, <2>1, FaultsGrow DEF NoEvent
<1> QED
  BY <1>1, <1>5, <1>6 DEF IsAllocated, Past

(* No other step allocates or frees, or passes a board. *)
LEMMA AllocatedElse ==
  ASSUME ReadoutInv, [Next]_vars, ~MallocReadoutBuffer, ~AllocateEvent, ~FreeEvent,
         ~FreeReadoutBuffer, ~InitializeBoards, NEW b \in Boards
  PROVE  /\ UNCHANGED <<ReadoutBuffers, CurrentEvents>>
         /\ Past(b, "malloc", AfterMalloc)' => Past(b, "malloc", AfterMalloc)
         /\ Past(b, "allocate", AfterAllocate)' => Past(b, "allocate", AfterAllocate)
         /\ Past(b, "freeEvent", AfterFreeEvent)' => Past(b, "freeEvent", AfterFreeEvent)
         /\ Past(b, "freeBuffer", AfterFreeBuffer)' => Past(b, "freeBuffer", AfterFreeBuffer)
<1>1. b \in Nat
  BY BoardsAreIntegers
<1>2. CASE ConnectToBoard
  <2>1. /\ UNCHANGED <<ReadoutBuffers, CurrentEvents>> /\ at = "connect"
        /\ at' = at \/ at' \in {"configured", "exit"}
    BY <1>2 DEF ConnectToBoard, Loop
  <2> QED
    BY <1>1, <2>1 DEF Past
<1>3. CASE InitializeBoard
  <2>1. /\ UNCHANGED <<ReadoutBuffers, CurrentEvents>> /\ at = "initialize"
        /\ at' = at \/ (at' \in {"malloc"} /\ board' = 0)
    BY <1>3 DEF InitializeBoard, Loop
  <2> QED
    BY <1>1, <2>1 DEF Past
<1>4. CASE ProgramSynchronization
  <2>1. /\ UNCHANGED <<ReadoutBuffers, CurrentEvents>> /\ at = "synchronize"
        /\ at' = at \/ (at' \in {"allocate"} /\ board' = 0)
    BY <1>4 DEF ProgramSynchronization, Loop
  <2> QED
    BY <1>1, <2>1 DEF Past
<1>5. CASE StartAcquisition
  <2>1. /\ UNCHANGED <<ReadoutBuffers, CurrentEvents>> /\ at = "start"
        /\ at' = at \/ (at' \in {"running"} /\ board' = 0)
    BY <1>5 DEF StartAcquisition, Loop
  <2> QED
    BY <1>1, <2>1 DEF Past
<1>6. CASE ReadStep
  <2>1. UNCHANGED <<ReadoutBuffers, CurrentEvents>> /\ at \in Acquiring /\ at' \in Acquiring
    <3>1. CASE SendSWTriggers \/ ReadEventBuffer
      BY <3>1 DEF SendSWTriggers, ReadEventBuffer, Loop
    <3>2. CASE DecodeEvent \/ SkipBuffer \/ BufferDone
      BY <3>2 DEF Decoding, DecodeEvent, SkipBuffer, BufferDone, Loop
    <3> QED
      BY <1>6, <3>1, <3>2 DEF ReadStep
  <2> QED
    BY <2>1 DEF Past
<1>7. CASE StopAcquisition
  <2>1. /\ UNCHANGED <<ReadoutBuffers, CurrentEvents>> /\ at = "stop"
        /\ at' = at \/ (at' \in {"freeEvent"} /\ board' = 0)
    BY <1>7 DEF StopAcquisition, Loop
  <2> QED
    BY <1>1, <2>1 DEF Past
<1>8. CASE CloseDigitizer
  <2>1. /\ UNCHANGED <<ReadoutBuffers, CurrentEvents>> /\ at = "close"
        /\ at' = at \/ (at' \in {"closed"} /\ board' = 0)
    BY <1>8 DEF CloseDigitizer, Loop
  <2> QED
    BY <1>1, <2>1 DEF Past
<1>9. CASE Trigger \/ ReadConfiguration \/ \E quit \in BOOLEAN : Stop(quit)
  BY <1>9 DEF Trigger, ReadConfiguration, Stop, Past
<1>10. CASE UNCHANGED vars
  BY <1>10 DEF Past
<1> QED
  BY <1>2, <1>3, <1>4, <1>5, <1>6, <1>7, <1>8, <1>9, <1>10
  DEF Next, Reader, ConfigurationStep, StartStep, StopStep

LEMMA AllocatedStep ==
  ASSUME ReadoutInv, [Next]_vars
  PROVE  Allocated'
<1> SUFFICES ASSUME NEW b \in Boards
             PROVE  IsAllocated(b)'
  BY AllocatedMeans DEF Allocated, IsAllocated, HasBuffer, HasEvent, NoEvent, NoBuffer
<1>1. CASE InitializeBoards
  BY <1>1 DEF InitializeBoards, IsAllocated, Past
<1>2. CASE MallocReadoutBuffer \/ AllocateEvent \/ FreeEvent \/ FreeReadoutBuffer
  BY <1>2, AllocatedByMalloc, AllocatedByAllocate, AllocatedByFreeEvent,
     AllocatedByFreeBuffer
<1>3. CASE ~(InitializeBoards \/ MallocReadoutBuffer \/ AllocateEvent \/ FreeEvent
               \/ FreeReadoutBuffer)
  <2>1. IsAllocated(b)
    BY AllocatedMeans DEF ReadoutInv
  <2>2. TypeOK
    BY DEF ReadoutInv
  <2> QED
    BY <1>3, <2>1, <2>2, AllocatedElse, FaultsGrow
    DEF IsAllocated, HasBuffer, HasEvent, NoEvent, NoBuffer
<1> QED
  BY <1>1, <1>2, <1>3

-----------------------------------------------------------------------------
(* What is armed.                                                            *)

NothingArmed ==
  {"connect", "configured", "malloc", "synchronize", "allocate", "freeEvent", "freeBuffer",
   "stopped", "close", "closed"}
AfterSynchronize ==
  {"allocate", "start", "stop", "freeEvent", "freeBuffer", "stopped"} \cup Acquiring

ArmedAre ==
  /\ at \in NothingArmed => armed = {}
  /\ at = "initialize" => \A b \in armed : b >= board
  /\ at = "start" => armed = 1..board
  /\ at \in Acquiring => armed = Boards
  /\ at = "stop" => armed = {} \/ armed = {b \in Boards : b >= board}

SlavesFollow ==
  \A b \in Boards \ {Master} :
    Past(b, "synchronize", AfterSynchronize) => startMode[b] = "lvds"

LEMMA ArmedMeans == Armed <=> (faults = {} => ArmedAre /\ SlavesFollow)
BY DEF Armed, ArmedAre, SlavesFollow, NothingArmed, AfterSynchronize

USE DEF NothingArmed, AfterSynchronize

LEMMA FaultsWere ==
  ASSUME TypeOK, [Next]_vars, ~InitializeBoards, faults' = {}
  PROVE  faults = {}
<1>1. ASSUME NEW f \in faults PROVE f \in faults'
  BY <1>1
  DEF Next, Reader, ConfigurationStep, StartStep, ReadStep, StopStep, Try, ConnectToBoard,
      InitializeBoard, MallocReadoutBuffer, ProgramSynchronization, AllocateEvent,
      StartAcquisition, SendSWTriggers, ReadEventBuffer, DecodeEvent, SkipBuffer,
      BufferDone, StopAcquisition, FreeEvent, FreeReadoutBuffer, CloseDigitizer, Trigger,
      ReadConfiguration, Stop
<1> QED
  BY <1>1

LEMMA ArmedByInitialize ==
  ASSUME ReadoutInv, faults = {}, faults' = {}, InitializeBoard
  PROVE  ArmedAre' /\ SlavesFollow'
<1> USE DEF ReadoutInv, TypeOK
<1>1. at = "initialize" /\ board \in Nat /\ armed \subseteq Nat /\ armed \subseteq Boards
  BY BoardsAreIntegers DEF InitializeBoard, MethodOK, ControlOK
<1>2. armed' = armed \ {board}
  <2>1. PICK failed \in SUBSET (Settings \cup {"Reset", "BoardFailStatus"}) :
          /\ faults' = faults \cup {<<call, board>> : call \in failed}
          /\ IF "Reset" \in failed THEN UNCHANGED <<armed, memory, givenUp>> ELSE Reset
    BY DEF InitializeBoard
  <2>2. "Reset" \in failed => <<"Reset", board>> \in faults'
    BY <2>1
  <2> QED
    BY <2>1, <2>2 DEF Reset
<1>3. \A b \in armed : b >= board
  BY <1>1, ArmedMeans DEF ArmedAre
<1>4. \/ at' = "initialize" /\ board' = board + 1
      \/ at' = "malloc" /\ board' = 0 /\ \A b \in Boards : b <= board
  BY <1>1, LoopStep DEF InitializeBoard, Places
<1>5. \A b \in armed' : b \in Boards /\ b >= board + 1
  BY <1>1, <1>2, <1>3
<1>6. at' = "malloc" => armed' = {}
  <2>1. ASSUME NEW b \in armed', \A c \in Boards : c <= board PROVE FALSE
    <3>1. b \in Boards /\ b >= board + 1 /\ b <= board
      BY <1>5, <2>1
    <3>2. b \in Nat
      BY <3>1, BoardsAreIntegers
    <3> QED
      BY <1>1, <3>1, <3>2
  <2> QED
    BY <1>4, <2>1
<1> QED
  BY <1>4, <1>5, <1>6 DEF ArmedAre, SlavesFollow, Past

LEMMA ArmedBySynchronization ==
  ASSUME ReadoutInv, faults = {}, faults' = {}, ProgramSynchronization
  PROVE  ArmedAre' /\ SlavesFollow'
<1> USE DEF ReadoutInv, TypeOK
<1>1. at = "synchronize" /\ board \in Boards /\ at' \in {"synchronize", "allocate"}
  BY DEF ProgramSynchronization, MethodOK, Loop
<1>2. armed' = {}
  BY <1>1, ArmedMeans DEF ArmedAre, ProgramSynchronization
<1>3. startMode' = [startMode EXCEPT ![board] = IF board = Master THEN "software" ELSE "lvds"]
  <2>1. PICK ok \in BOOLEAN :
          /\ Try("ProgramSynchronization", board, TRUE, ok)
          /\ startMode' = [startMode EXCEPT ![board] =
               IF ~ok THEN @ ELSE IF board = Master THEN "software" ELSE "lvds"]
    BY DEF ProgramSynchronization
  <2>2. ok
    BY <2>1 DEF Try
  <2> QED
    BY <2>1, <2>2
<1>4. ASSUME NEW b \in Boards \ {Master}, Past(b, "synchronize", AfterSynchronize)'
      PROVE  startMode'[b] = "lvds"
  <2>1. b = board \/ Past(b, "synchronize", AfterSynchronize)
    BY <1>1, <1>4, Passed DEF ProgramSynchronization, Places
  <2>2. Past(b, "synchronize", AfterSynchronize) => startMode[b] = "lvds"
    BY ArmedMeans DEF SlavesFollow
  <2> QED
    BY <1>1, <1>3, <2>1, <2>2 DEF ControlOK
<1> QED
  BY <1>1, <1>2, <1>4 DEF ArmedAre, SlavesFollow

LEMMA ArmedByStart ==
  ASSUME ReadoutInv, faults = {}, faults' = {}, StartAcquisition
  PROVE  ArmedAre' /\ SlavesFollow'
<1> USE DEF ReadoutInv, TypeOK
<1>1. at = "start" /\ board \in Boards /\ board \in Nat /\ startMode' = startMode
  BY BoardsAreIntegers DEF StartAcquisition, MethodOK
<1>2. armed = 1..board
  BY <1>1, ArmedMeans DEF ArmedAre
<1>3. armed' = armed \cup {IF board + 1 < nDigitizers THEN board + 1 ELSE Master}
  BY DEF StartAcquisition, Try, With
<1>4. \/ board + 1 < nDigitizers /\ at' = "start" /\ board' = board + 1
      \/ board + 1 = nDigitizers /\ at' = "running" /\ board' = 0
  BY <1>1, ReadoutAssumption DEF StartAcquisition, Loop, Boards
<1>5. at' = "start" => armed' = 1..board'
  BY <1>1, <1>2, <1>3, <1>4
<1>6. at' = "running" => armed' = Boards
  BY <1>1, <1>2, <1>3, <1>4, ReadoutAssumption DEF Boards, Master
<1>7. SlavesFollow'
  BY <1>1, <1>4, ArmedMeans DEF SlavesFollow, Past
<1> QED
  BY <1>4, <1>5, <1>6, <1>7 DEF ArmedAre

LEMMA ArmedByStop ==
  ASSUME ReadoutInv, faults = {}, faults' = {}, StopAcquisition
  PROVE  ArmedAre' /\ SlavesFollow'
<1> USE DEF ReadoutInv, TypeOK
<1>1. at = "stop" /\ board \in Boards /\ board \in Nat /\ startMode' = startMode
  BY BoardsAreIntegers DEF StopAcquisition, MethodOK
<1>2. armed = {} \/ armed = {b \in Boards : b >= board}
  BY <1>1, ArmedMeans DEF ArmedAre
<1>3. armed' = armed \ {board}
  <2>1. PICK failed \in SUBSET {"SWStopAcquisition", "ClearData"} :
          /\ faults' = faults \cup {<<call, board>> : call \in failed}
          /\ armed' = Without(armed, board, "SWStopAcquisition" \notin failed)
    BY DEF StopAcquisition
  <2>2. "SWStopAcquisition" \in failed => <<"SWStopAcquisition", board>> \in faults'
    BY <2>1
  <2> QED
    BY <2>1, <2>2 DEF Without
<1>4. \/ at' = "stop" /\ board' = board + 1
      \/ at' = "freeEvent" /\ board' = 0 /\ \A b \in Boards : b <= board
  BY <1>1, LoopStep DEF StopAcquisition, Places
<1>5. armed' = {} \/ armed' = {b \in Boards : b >= board + 1}
  <2>1. CASE armed = {}
    BY <1>3, <2>1
  <2>2. CASE armed = {b \in Boards : b >= board}
    <3>1. \A b \in Boards : b >= board /\ b # board <=> b >= board + 1
      BY <1>1, BoardsAreIntegers
    <3> QED
      BY <1>3, <2>2, <3>1
  <2> QED
    BY <1>2, <2>1, <2>2
<1>6. at' = "freeEvent" => armed' = {}
  <2>1. ASSUME NEW b \in Boards, b >= board + 1, \A c \in Boards : c <= board PROVE FALSE
    BY <1>1, <2>1, BoardsAreIntegers
  <2> QED
    BY <1>4, <1>5, <2>1
<1>7. SlavesFollow'
  BY <1>1, <1>4, ArmedMeans DEF SlavesFollow, Past
<1> QED
  BY <1>4, <1>5, <1>6, <1>7 DEF ArmedAre

LEMMA ArmedElse ==
  ASSUME ReadoutInv, [Next]_vars, faults = {}, ~InitializeBoards, ~InitializeBoard,
         ~ProgramSynchronization, ~StartAcquisition, ~StopAcquisition
  PROVE  ArmedAre' /\ SlavesFollow'
<1> USE DEF ReadoutInv
<1>1. ArmedAre /\ SlavesFollow
  BY ArmedMeans
<1>2. CASE ConnectToBoard \/ MallocReadoutBuffer
  <2>1. /\ UNCHANGED <<armed, startMode>> /\ at \in {"connect", "malloc"}
        /\ at' \in {at, "configured", "exit"} \/ (at' = "synchronize" /\ board' = 0)
    <3>1. CASE ConnectToBoard
      BY <3>1 DEF ConnectToBoard, Loop
    <3>2. CASE MallocReadoutBuffer
      BY <3>2 DEF MallocReadoutBuffer, Loop
    <3> QED
      BY <1>2, <3>1, <3>2
  <2> QED
    BY <1>1, <2>1, BoardsAreIntegers DEF ArmedAre, SlavesFollow, Past
<1>3. CASE AllocateEvent
  <2>1. /\ UNCHANGED <<armed, startMode>> /\ at = "allocate"
        /\ at' = "allocate" \/ (at' = "start" /\ board' = 0)
    BY <1>3 DEF AllocateEvent, Loop
  <2>2. armed' = {} /\ 1..0 = {}
    BY <1>1, <2>1 DEF ArmedAre
  <2> QED
    BY <1>1, <2>1, <2>2 DEF ArmedAre, SlavesFollow, Past
<1>4. CASE ReadStep
  <2>1. /\ UNCHANGED <<armed, startMode>> /\ at \in Acquiring /\ at' \in Acquiring
    <3>1. CASE SendSWTriggers \/ ReadEventBuffer
      BY <3>1 DEF SendSWTriggers, ReadEventBuffer, Loop
    <3>2. CASE DecodeEvent \/ SkipBuffer \/ BufferDone
      BY <3>2 DEF Decoding, DecodeEvent, SkipBuffer, BufferDone, Loop
    <3> QED
      BY <1>4, <3>1, <3>2 DEF ReadStep
  <2> QED
    BY <1>1, <2>1 DEF ArmedAre, SlavesFollow, Past
<1>5. CASE FreeEvent \/ FreeReadoutBuffer \/ CloseDigitizer
  <2>1. /\ UNCHANGED <<armed, startMode>>
        /\ at \in {"freeEvent", "freeBuffer"} \/ (at = "close" /\ at' \in {"close", "closed"})
        /\ at' \in {"freeEvent", "freeBuffer", "stopped", "close", "closed"}
    BY <1>5 DEF FreeEvent, FreeReadoutBuffer, CloseDigitizer, Loop
  <2> QED
    BY <1>1, <2>1 DEF ArmedAre, SlavesFollow, Past
<1>6. CASE \E quit \in BOOLEAN : Stop(quit)
  <2>1. /\ UNCHANGED <<armed, startMode, board>> /\ at' = "stop" /\ board = 0
        /\ at \in {"running", "stopped"}
    BY <1>6 DEF Stop, LoopsBegin
  <2>2. {b \in Boards : b >= 0} = Boards
    BY BoardsAreIntegers
  <2> QED
    BY <1>1, <2>1, <2>2 DEF ArmedAre, SlavesFollow, Past
<1>7. CASE ReadConfiguration \/ Trigger
  <2>1. /\ UNCHANGED <<armed, startMode, board>>
        /\ at' = at \/ (at = "stopped" /\ at' = "configured")
    BY <1>7 DEF ReadConfiguration, Trigger
  <2> QED
    BY <1>1, <2>1 DEF ArmedAre, SlavesFollow, Past
<1>8. CASE UNCHANGED vars
  BY <1>1, <1>8 DEF ArmedAre, SlavesFollow, Past
<1> QED
  BY <1>2, <1>3, <1>4, <1>5, <1>6, <1>7, <1>8
  DEF Next, Reader, ConfigurationStep, StartStep, StopStep

LEMMA ArmedStep ==
  ASSUME ReadoutInv, [Next]_vars
  PROVE  Armed'
<1> SUFFICES ASSUME faults' = {}
             PROVE  ArmedAre' /\ SlavesFollow'
  BY DEF Armed, ArmedAre, SlavesFollow
<1>1. CASE InitializeBoards
  <2>1. at' = "initialize" /\ board' = 0 /\ armed' = armed /\ armed \subseteq Boards
    BY <1>1 DEF InitializeBoards, ReadoutInv, TypeOK, LoopsBegin, ControlOK
  <2> QED
    BY <2>1, BoardsAreIntegers DEF ArmedAre, SlavesFollow, Past
<1>2. CASE ~InitializeBoards
  <2>1. faults = {}
    BY <1>2, FaultsWere DEF ReadoutInv
  <2> QED
    BY <1>2, <2>1, ArmedByInitialize, ArmedBySynchronization, ArmedByStart, ArmedByStop,
       ArmedElse
<1> QED
  BY <1>1, <1>2

-----------------------------------------------------------------------------
(* Theorems.                                                                 *)

LEMMA InvInit == Init => ReadoutInv
<1> SUFFICES ASSUME Init PROVE ReadoutInv
  OBVIOUS
<1>1. at = "connect" /\ board = 0 /\ armed = {}
  BY DEF Init
<1>2. LoopsBegin /\ Configured
  BY <1>1 DEF LoopsBegin, Configured, Past
<1>3. Allocated
  BY <1>1 DEF Allocated, Past
<1>4. Armed
  BY <1>1 DEF Armed, Past
<1> QED
  BY <1>2, <1>3, <1>4, TypeInit DEF ReadoutInv

LEMMA InvStep == ReadoutInv /\ [Next]_vars => ReadoutInv'
BY TypeStep, LoopsBeginStep, ConfiguredStep, AllocatedStep, ArmedStep DEF ReadoutInv

(* However many boards there are and whichever library calls fail, what is   *)
(* configured, allocated and armed follows the loops of mdaq::DAQ.           *)
THEOREM ReadoutInvariant == Spec => []ReadoutInv
BY InvInit, InvStep, PTL DEF Spec

(* The reader finds the buffers and events it uses, and StopRun() has freed  *)
(* them before they are allocated again, unless the library refused.         *)
THEOREM BuffersFollowRunTheorem == Spec => []BuffersFollowRun
<1>1. ReadoutInv => BuffersFollowRun
  BY DEF ReadoutInv, Allocated, Past, BuffersFollowRun
<1> QED
  BY <1>1, ReadoutInvariant, PTL

(* A run is taken under the configuration read last, and software triggers   *)
(* are sent only if it asks for them, unless InitializeBoard() gave up.      *)
THEOREM RunsAsConfiguredTheorem == Spec => []RunsAsConfigured
<1>1. ReadoutInv => RunsAsConfigured
  BY DEF ReadoutInv, Configured, Past, RunsAsConfigured
<1> QED
  BY <1>1, ReadoutInvariant, PTL

(* If no call failed, the boards run together or not at all. *)
LEMMA AllRunOrNone ==
  ASSUME ReadoutInv, faults = {}, NEW b \in Boards, Running(b),
         at \in {"synchronize", "allocate", "start", "running", "read", "decode", "stop"}
  PROVE  \A c \in Boards : Running(c)
<1>1. ArmedAre /\ SlavesFollow
  BY ArmedMeans DEF ReadoutInv
<1>2. board \in Nat /\ Master = 0 /\ Boards \subseteq Nat
  BY BoardsAreIntegers DEF ReadoutInv, TypeOK, MethodOK, Master
<1>3. CASE at \in {"synchronize", "allocate"}
  BY <1>1, <1>3 DEF ArmedAre, Running
<1>4. CASE at = "start"
  <2>1. Master \notin armed /\ b \in armed /\ b # Master
    BY <1>1, <1>2, <1>4 DEF ArmedAre, Running
  <2>2. startMode[b] = "lvds"
    BY <1>1, <1>4, <2>1 DEF SlavesFollow, Past
  <2> QED
    BY <2>1, <2>2 DEF Running
<1>5. CASE at \in Acquiring
  BY <1>1, <1>2, <1>5, BoardsAreIntegers DEF ArmedAre, Running
<1>6. CASE at = "stop"
  <2>1. armed = {c \in Boards : c >= board}
    BY <1>1, <1>6 DEF ArmedAre, Running
  <2>2. CASE board = 0
    BY <1>2, <2>1, <2>2, BoardsAreIntegers DEF Running
  <2>3. CASE board # 0
    <3>1. Master \notin armed /\ b # Master
      BY <1>2, <2>1, <2>3 DEF Running
    <3>2. startMode[b] = "lvds"
      BY <1>1, <1>6, <3>1 DEF SlavesFollow, Past
    <3> QED
      BY <3>1, <3>2 DEF Running
  <2> QED
    BY <2>2, <2>3
<1> QED
  BY <1>3, <1>4, <1>5, <1>6

(* Between StartRun() and the end of StopRun() every trigger is recorded by  *)
(* all boards or by none, if no call failed in this run.                     *)
THEOREM RecordedTogetherTheorem == Spec => RecordedTogether
<1>1. ReadoutInv /\ [Next]_vars =>
        [triggers' > triggers /\ faults = {}
           /\ at \in {"synchronize", "allocate", "start", "running", "read", "decode", "stop"}
         => \A b \in Boards : \E n \in DOMAIN memory'[b] : memory'[b][n] = triggers']_vars
  <2> SUFFICES ASSUME ReadoutInv, [Next]_vars, triggers' > triggers, faults = {},
                      at \in {"synchronize", "allocate", "start", "running", "read",
                              "decode", "stop"},
                      NEW b \in Boards
               PROVE  \E n \in DOMAIN memory'[b] : memory'[b][n] = triggers'
    OBVIOUS
  <2>1. triggers \in Nat /\ memory[b] \in EventSeqs
    BY DEF ReadoutInv, TypeOK, DataOK
  <2>2. RecordTrigger /\ \E c \in Boards : Running(c)
    <3>1. triggers' # triggers
      BY <2>1
    <3>2. CASE Trigger
      BY <3>2 DEF Trigger
    <3>3. CASE SendSWTriggers
      <4>1. RecordTrigger /\ Running(SoftBoard) /\ SoftBoards # {}
        BY <3>1, <3>3 DEF SendSWTriggers
      <4>2. SoftBoard \in Boards
        <5>1. SoftBoard \in armed /\ armed \subseteq Boards
          BY <4>1 DEF Running, ReadoutInv, TypeOK, ControlOK
        <5> QED
          BY <5>1
      <4> QED
        BY <4>1, <4>2
    <3>4. CASE ~Trigger /\ ~SendSWTriggers
      BY <3>1, <3>4
      DEF Next, Reader, ConfigurationStep, StartStep, ReadStep, StopStep, ConnectToBoard,
          InitializeBoards, InitializeBoard, MallocReadoutBuffer, ProgramSynchronization,
          AllocateEvent, StartAcquisition, ReadEventBuffer, DecodeEvent, SkipBuffer,
          BufferDone, StopAcquisition, FreeEvent, FreeReadoutBuffer, CloseDigitizer,
          ReadConfiguration, Stop
    <3> QED
      BY <3>2, <3>3, <3>4
  <2>3. Running(b)
    BY <2>2, AllRunOrNone
  <2>4. memory'[b] = Append(memory[b], triggers + 1) /\ triggers' = triggers + 1
    BY <2>2, <2>3 DEF RecordTrigger
  <2>5. /\ Len(memory[b]) + 1 \in DOMAIN memory'[b]
        /\ memory'[b][Len(memory[b]) + 1] = triggers'
    <3>1. triggers + 1 \in Nat /\ memory[b] \in Seq(Nat)
      <4>1. \A n \in 1..Len(memory[b]) : memory[b][n] \in 1..MaxTriggers
        BY <2>1, ElementOfSeq DEF EventSeqs
      <4> QED
        BY <2>1, ReadoutAssumption DEF EventSeqs
    <3> QED
      BY <2>4, <3>1, AppendProperties
  <2> QED
    BY <2>5
<1> QED
  BY <1>1, ReadoutInvariant, PTL DEF Spec, RecordedTogether

-----------------------------------------------------------------------------
(* The order of the events.                                                  *)

(* What GetNumberOfEvents() finds, and where decoding it has got to. *)
FoundIn(b) == IF b \in ReadoutBuffers THEN buffer[b] ELSE <<>>
From(b) == IF at = "decode" /\ b = board THEN iEvt ELSE 1

(* Board b's buffer was read and is not decoded to its end. *)
Pending(b) == (at = "read" /\ b < board) \/ (at = "decode" /\ b >= board)

Cleared(b) == Past(b, "initialize", {"malloc", "synchronize", "allocate"})

Rising(seq, first) == \A m \in first..Len(seq) : \A n \in first..Len(seq) : m < n => seq[m] < seq[n]

(* Event e is of this run and later than all that board b's queue was given. *)
New(b, e) == e > began /\ \A p \in 1..Len(pushed[b]) : pushed[b][p] < e

MemoryInOrder(b) ==
  Rising(memory[b], 1) /\ \A n \in 1..Len(memory[b]) : New(b, memory[b][n])

BufferInOrder(b) ==
  /\ Rising(FoundIn(b), From(b))
  /\ \A n \in From(b)..Len(FoundIn(b)) :
       /\ New(b, FoundIn(b)[n])
       /\ \A m \in 1..Len(memory[b]) : FoundIn(b)[n] < memory[b][m]

EventsInOrder(b) ==
  /\ Cleared(b) => b \notin armed /\ memory[b] = <<>>
  /\ at \in {"start"} \cup Acquiring => MemoryInOrder(b)
  /\ Pending(b) => BufferInOrder(b)

(* No event has the number of a trigger to come. *)
Happened(seq) == \A n \in 1..Len(seq) : seq[n] <= triggers

AllHappened ==
  \A b \in Boards : Happened(memory[b]) /\ Happened(buffer[b]) /\ Happened(pushed[b])

OrderInv ==
  /\ AllHappened
  /\ \A b \in Boards : Faulty(b, {"ReadData", "Reset"}) \/ EventsInOrder(b)

LEMMA SubSeqElements ==
  ASSUME NEW seq \in EventSeqs, NEW m \in Nat \ {0}, NEW n \in Nat, n <= Len(seq), m <= n + 1
  PROVE  LET part == SubSeq(seq, m, n)
         IN  /\ Len(part) = n - m + 1
             /\ \A k \in 1..Len(part) : part[k] = seq[m + k - 1] /\ m + k - 1 \in m..n
<1>1. Len(seq) \in Nat
  BY LenProperties DEF EventSeqs
<1>2. \A k \in m..n : seq[k] \in 1..MaxTriggers
  <2> TAKE k \in m..n
  <2>1. k \in 1..Len(seq)
    BY <1>1
  <2> QED
    BY <2>1, ElementOfSeq DEF EventSeqs
<1> DEFINE part == SubSeq(seq, m, n)
<1>3. /\ Len(part) = IF m <= n THEN n - m + 1 ELSE 0
      /\ \A k \in 1..n - m + 1 : part[k] = seq[m + k - 1]
  BY ONLY <1>2, m \in Nat \ {0}, n \in Nat, SubSeqProperties
<1> HIDE DEF part
<1>4. Len(part) = n - m + 1
  BY <1>3
<1>5. \A k \in 1..Len(part) : part[k] = seq[m + k - 1] /\ m + k - 1 \in m..n
  BY <1>3, <1>4
<1> QED
  BY <1>4, <1>5 DEF part

LEMMA AppendElements ==
  ASSUME NEW seq \in EventSeqs, NEW e \in 1..MaxTriggers
  PROVE  LET more == Append(seq, e)
         IN  /\ Len(seq) \in Nat /\ Len(more) = Len(seq) + 1
             /\ \A n \in 1..Len(seq) : more[n] = seq[n]
             /\ more[Len(seq) + 1] = e
BY AppendProperties, LenProperties DEF EventSeqs

LEMMA EmptyInOrder ==
  /\ Len(<<>>) = 0
  /\ \A first \in Nat \ {0} : Rising(<<>>, first) /\ first..Len(<<>>) = {}
BY EmptySeq DEF Rising

LEMMA SequenceElements ==
  ASSUME NEW seq \in EventSeqs
  PROVE  Len(seq) \in Nat /\ \A n \in 1..Len(seq) : seq[n] \in 1..MaxTriggers
BY LenProperties, ElementOfSeq DEF EventSeqs

LEMMA SequencesType ==
  ASSUME TypeOK, NEW b \in Boards
  PROVE  /\ memory[b] \in EventSeqs /\ buffer[b] \in EventSeqs /\ pushed[b] \in EventSeqs
         /\ FoundIn(b) \in EventSeqs /\ From(b) \in Nat \ {0}
         /\ Len(memory[b]) \in Nat /\ Len(FoundIn(b)) \in Nat /\ Len(pushed[b]) \in Nat
         /\ \A n \in 1..Len(memory[b]) : memory[b][n] \in 1..MaxTriggers
         /\ \A n \in 1..Len(FoundIn(b)) : FoundIn(b)[n] \in 1..MaxTriggers
         /\ \A n \in 1..Len(pushed[b]) : pushed[b][n] \in 1..MaxTriggers
<1>1. memory[b] \in EventSeqs /\ buffer[b] \in EventSeqs /\ pushed[b] \in EventSeqs
  BY DEF TypeOK, DataOK, BuffersOK, OutcomeOK
<1>2. FoundIn(b) \in EventSeqs
  BY <1>1, EmptyType DEF FoundIn
<1>3. From(b) \in Nat \ {0}
  BY DEF From, TypeOK, MethodOK
<1> QED
  BY <1>1, <1>2, <1>3, SequenceElements

(* What a step that records a trigger does to the memory of a board. *)
LEMMA RecordElements ==
  ASSUME TypeOK, triggers < MaxTriggers, RecordTrigger, NEW b \in Boards
  PROVE  /\ triggers \in Nat /\ triggers' = triggers + 1 /\ began' = began /\ began <= triggers
         /\ \/ memory'[b] = memory[b]
            \/ /\ b \in armed
               /\ Len(memory'[b]) = Len(memory[b]) + 1
               /\ \A n \in 1..Len(memory[b]) : memory'[b][n] = memory[b][n]
               /\ memory'[b][Len(memory[b]) + 1] = triggers'
<1>1. triggers \in Nat /\ triggers' = triggers + 1 /\ triggers + 1 \in 1..MaxTriggers
      /\ began' = began /\ began <= triggers
  BY ReadoutAssumption DEF TypeOK, DataOK, RecordTrigger
<1>2. memory'[b] = IF Running(b) THEN Append(memory[b], triggers + 1) ELSE memory[b]
  BY DEF RecordTrigger
<1>3. memory[b] \in EventSeqs
  BY SequencesType
<1> QED
  BY <1>1, <1>2, <1>3, AppendElements DEF Running

-----------------------------------------------------------------------------

LEMMA HappenedRecord ==
  ASSUME TypeOK, AllHappened, triggers < MaxTriggers, RecordTrigger, UNCHANGED <<buffer, pushed>>
  PROVE  AllHappened'
<1> SUFFICES ASSUME NEW b \in Boards
             PROVE  Happened(memory[b])' /\ Happened(buffer[b])' /\ Happened(pushed[b])'
  BY DEF AllHappened
<1>1. /\ Happened(memory[b]) /\ Happened(buffer[b]) /\ Happened(pushed[b])
      /\ Len(memory[b]) \in Nat
      /\ \A n \in 1..Len(memory[b]) : memory[b][n] \in Nat
      /\ \A n \in 1..Len(pushed[b]) : pushed[b][n] \in Nat
  BY SequencesType DEF AllHappened
<1>2. \A n \in 1..Len(buffer[b]) : buffer[b][n] \in Nat
  <2>1. buffer[b] \in EventSeqs
    BY SequencesType
  <2> QED
    BY <2>1, SequenceElements
<1>3. triggers \in Nat /\ triggers' = triggers + 1
  BY RecordElements
<1>4. Happened(buffer[b])' /\ Happened(pushed[b])'
  BY <1>1, <1>2, <1>3 DEF Happened
<1>5. Happened(memory[b])'
  <2>1. \/ memory'[b] = memory[b]
        \/ /\ Len(memory'[b]) = Len(memory[b]) + 1
           /\ \A n \in 1..Len(memory[b]) : memory'[b][n] = memory[b][n]
           /\ memory'[b][Len(memory[b]) + 1] = triggers'
    BY RecordElements
  <2> SUFFICES ASSUME NEW n \in 1..Len(memory'[b])
               PROVE  memory'[b][n] <= triggers'
    BY DEF Happened
  <2> QED
    BY <1>1, <1>3, <2>1 DEF Happened
<1> QED
  BY <1>4, <1>5

(* The steps on which each of the sequences of a board becomes a part of one *)
(* that the board had.                                                       *)
LEMMA HappenedSteps ==
  ASSUME TypeOK, AllHappened, triggers' = triggers,
         \A b \in Boards : Happened(memory'[b]) /\ Happened(buffer'[b]) /\ Happened(pushed'[b])
  PROVE  AllHappened'
BY DEF AllHappened, Happened

LEMMA HappenedPart ==
  ASSUME NEW seq \in EventSeqs, Happened(seq), NEW m \in Nat \ {0}, NEW n \in Nat,
         n <= Len(seq), m <= n + 1
  PROVE  Happened(SubSeq(seq, m, n))
<1> DEFINE part == SubSeq(seq, m, n)
<1>1. \A k \in 1..Len(part) : part[k] = seq[m + k - 1] /\ m + k - 1 \in m..n
  BY SubSeqElements
<1>2. \A k \in m..n : k \in 1..Len(seq)
  BY LenProperties DEF EventSeqs
<1> HIDE DEF part
<1>3. Happened(part)
  BY <1>1, <1>2 DEF Happened
<1> QED
  BY <1>3 DEF part

LEMMA HappenedEmpty == Happened(<<>>)
BY EmptySeq DEF Happened

(* ReadEventBuffer() of one board. *)
LEMMA ReadSplits ==
  ASSUME TypeOK, ReadEventBuffer
  PROVE  LET seen == memory[board] IN
         /\ \A b \in Boards \ {board} : memory'[b] = memory[b] /\ buffer'[b] = buffer[b]
         /\ \/ \E n \in 0..Len(seen) :
                 /\ board \in ReadoutBuffers
                 /\ buffer'[board] = SubSeq(seen, 1, n)
                 /\ memory'[board] = SubSeq(seen, n + 1, Len(seen))
            \/ /\ board \notin ReadoutBuffers \/ <<"ReadData", board>> \in faults'
               /\ memory' = memory
               /\ buffer'[board] = buffer[board] \/ buffer'[board] = <<>>
<1> DEFINE seen == memory[board]
           n    == IF Len(seen) < MaxNumEventsBLT THEN Len(seen) ELSE MaxNumEventsBLT
<1>1. PICK ok \in BOOLEAN :
        /\ Try("ReadData", board, board \in ReadoutBuffers, ok)
        /\ IF ok
             THEN /\ buffer' = [buffer EXCEPT ![board] = SubSeq(seen, 1, n)]
                  /\ memory' = [memory EXCEPT ![board] = SubSeq(seen, n + 1, Len(seen))]
             ELSE /\ \E found \in {buffer[board], <<>>} :
                       buffer' = [buffer EXCEPT ![board] = found]
                  /\ UNCHANGED memory
  BY DEF ReadEventBuffer
<1>2. /\ board \in Boards /\ Len(seen) \in Nat /\ n \in 0..Len(seen)
      /\ memory = [b \in Boards |-> memory[b]] /\ buffer = [b \in Boards |-> buffer[b]]
  BY SequencesType, ReadoutAssumption DEF TypeOK, MethodOK, DataOK, BuffersOK
<1> HIDE DEF n
<1>3. CASE ok
  <2>1. board \in ReadoutBuffers
    BY <1>1, <1>3 DEF Try
  <2> QED
    BY <1>1, <1>2, <1>3, <2>1
<1>4. CASE ~ok
  <2>1. board \notin ReadoutBuffers \/ <<"ReadData", board>> \in faults'
    <3>1. failures \in 0..MaxFailures /\ (board \in ReadoutBuffers) \in BOOLEAN
      BY DEF TypeOK
    <3>2. (board \in ReadoutBuffers) /\ ~ok => <<"ReadData", board>> \in faults'
      BY ONLY <1>1, <3>1, TryStep
    <3> QED
      BY <1>4, <3>2
  <2> QED
    BY <1>1, <1>2, <1>4, <2>1
<1> QED
  BY <1>3, <1>4

LEMMA HappenedRead ==
  ASSUME TypeOK, AllHappened, ReadEventBuffer
  PROVE  AllHappened'
<1>1. triggers' = triggers /\ pushed' = pushed
  BY DEF ReadEventBuffer
<1>2. ASSUME NEW b \in Boards
      PROVE  Happened(memory'[b]) /\ Happened(buffer'[b])
  <2>1. Happened(memory[b]) /\ Happened(buffer[b]) /\ memory[b] \in EventSeqs
        /\ Len(memory[b]) \in Nat
    BY SequencesType DEF AllHappened
  <2>2. CASE memory'[b] = memory[b] /\ (buffer'[b] = buffer[b] \/ buffer'[b] = <<>>)
    BY <2>1, <2>2, HappenedEmpty
  <2>3. CASE \E n \in 0..Len(memory[b]) :
               /\ buffer'[b] = SubSeq(memory[b], 1, n)
               /\ memory'[b] = SubSeq(memory[b], n + 1, Len(memory[b]))
    <3>1. PICK n \in 0..Len(memory[b]) :
               /\ buffer'[b] = SubSeq(memory[b], 1, n)
               /\ memory'[b] = SubSeq(memory[b], n + 1, Len(memory[b]))
      BY <2>3
    <3>2. Happened(SubSeq(memory[b], 1, n))
      <4>1. n \in Nat /\ n <= Len(memory[b]) /\ 1 <= n + 1 /\ 1 \in Nat \ {0}
        BY <2>1
      <4> QED
        BY ONLY <2>1, <4>1, HappenedPart
    <3>3. Happened(SubSeq(memory[b], n + 1, Len(memory[b])))
      <4>1. n + 1 \in Nat \ {0} /\ n + 1 <= Len(memory[b]) + 1 /\ Len(memory[b]) <= Len(memory[b])
        BY <2>1
      <4> QED
        BY ONLY <2>1, <4>1, HappenedPart
    <3> QED
      BY <3>1, <3>2, <3>3
  <2> QED
    BY <2>2, <2>3, ReadSplits
<1> QED
  BY <1>1, <1>2, HappenedSteps DEF AllHappened

LEMMA HappenedDecode ==
  ASSUME TypeOK, AllHappened, DecodeEvent
  PROVE  AllHappened'
<1>1. /\ UNCHANGED <<memory, buffer, triggers>> /\ board \in Boards
      /\ iEvt \in 1..Len(FoundIn(board))
      /\ pushed' = [pushed EXCEPT ![board] = Append(@, FoundIn(board)[iEvt])]
  <2>1. Found = FoundIn(board)
    BY DEF Found, FoundIn
  <2> QED
    BY <2>1, SequencesType DEF DecodeEvent, Decoding, TypeOK, MethodOK
<1>2. FoundIn(board)[iEvt] \in 1..MaxTriggers /\ FoundIn(board)[iEvt] <= triggers
  BY <1>1, SequencesType, EmptyInOrder DEF AllHappened, Happened, FoundIn
<1>3. ASSUME NEW b \in Boards
      PROVE  Happened(pushed'[b])
  <2>1. Happened(pushed[b]) /\ pushed[b] \in EventSeqs
    BY SequencesType DEF AllHappened
  <2>2. pushed'[b] = pushed[b] \/ pushed'[b] = Append(pushed[b], FoundIn(board)[iEvt])
    BY <1>1 DEF TypeOK, OutcomeOK
  <2>3. LET more == Append(pushed[b], FoundIn(board)[iEvt])
        IN  /\ Len(pushed[b]) \in Nat /\ Len(more) = Len(pushed[b]) + 1
            /\ \A n \in 1..Len(pushed[b]) : more[n] = pushed[b][n]
            /\ more[Len(pushed[b]) + 1] = FoundIn(board)[iEvt]
    BY <1>2, <2>1, AppendElements
  <2>4. Happened(Append(pushed[b], FoundIn(board)[iEvt]))
    BY <1>2, <2>1, <2>3 DEF Happened
  <2> QED
    BY <2>1, <2>2, <2>4
<1> QED
  BY <1>1, <1>3, HappenedSteps DEF AllHappened

LEMMA HappenedStep ==
  ASSUME TypeOK, AllHappened, [Next]_vars
  PROVE  AllHappened'
<1>1. CASE Trigger \/ (SendSWTriggers /\ triggers' # triggers)
  <2>1. triggers < MaxTriggers /\ RecordTrigger /\ UNCHANGED <<buffer, pushed>>
    BY <1>1 DEF Trigger, SendSWTriggers
  <2> QED
    BY <2>1, HappenedRecord
<1>2. CASE SendSWTriggers /\ triggers' = triggers
  <2>1. UNCHANGED <<memory, buffer, pushed, triggers>>
    <3>1. ~RecordTrigger
      <4>1. triggers \in Nat
        BY ReadoutAssumption DEF TypeOK, DataOK
      <4> QED
        BY <1>2, <4>1 DEF RecordTrigger
    <3> QED
      BY <1>2, <3>1 DEF SendSWTriggers
  <2> QED
    BY <2>1 DEF AllHappened, Happened
<1>3. CASE InitializeBoard \/ StopAcquisition
  <2>1. /\ UNCHANGED <<buffer, pushed, triggers>>
        /\ memory' = memory \/ memory' = [memory EXCEPT ![board] = <<>>]
    BY <1>3 DEF InitializeBoard, StopAcquisition, Reset, ClearData
  <2>2. \A b \in Boards : memory'[b] = memory[b] \/ memory'[b] = <<>>
    BY <2>1 DEF TypeOK, DataOK
  <2>3. \A b \in Boards : Happened(memory'[b]) /\ Happened(buffer'[b]) /\ Happened(pushed'[b])
    BY <2>1, <2>2, HappenedEmpty DEF AllHappened
  <2> QED
    BY <2>1, <2>3, HappenedSteps
<1>4. CASE MallocReadoutBuffer
  <2>1. UNCHANGED <<memory, pushed, triggers>>
        /\ \A b \in Boards : buffer'[b] = buffer[b] \/ buffer'[b] = <<>>
    BY <1>4 DEF MallocReadoutBuffer, TypeOK, BuffersOK
  <2>2. \A b \in Boards : Happened(memory'[b]) /\ Happened(buffer'[b]) /\ Happened(pushed'[b])
    BY <2>1, HappenedEmpty DEF AllHappened
  <2> QED
    BY <2>1, <2>2, HappenedSteps
<1>5. CASE ~(\/ Trigger \/ SendSWTriggers \/ InitializeBoard \/ StopAcquisition
             \/ MallocReadoutBuffer \/ ReadEventBuffer \/ DecodeEvent)
  <2>1. UNCHANGED <<memory, buffer, pushed, triggers>>
    BY <1>5
    DEF Next, Reader, ConfigurationStep, StartStep, ReadStep, StopStep, ConnectToBoard,
        InitializeBoards, ProgramSynchronization, AllocateEvent, StartAcquisition, SkipBuffer,
        BufferDone, FreeEvent, FreeReadoutBuffer, CloseDigitizer, ReadConfiguration, Stop
  <2> QED
    BY <2>1 DEF AllHappened, Happened
<1> QED
  BY <1>1, <1>2, <1>3, <1>4, <1>5, HappenedRead, HappenedDecode

-----------------------------------------------------------------------------
(* The order on one board b.                                                 *)

Ordered == {"initialize", "malloc", "synchronize", "allocate", "start"} \cup Acquiring

(* A step that leaves the board's events alone, and begins no stage of the   *)
(* run that asks more of them.                                               *)
LEMMA OrderKept ==
  ASSUME TypeOK, NEW b \in Boards, EventsInOrder(b),
         memory'[b] = memory[b], pushed'[b] = pushed[b],
         Cleared(b)' => Cleared(b) /\ b \notin armed',
         at' \in {"start"} \cup Acquiring =>
           began' = began /\ (Cleared(b) \/ at \in {"start"} \cup Acquiring),
         Pending(b)' => /\ Pending(b) /\ From(b)' = From(b) /\ FoundIn(b)' = FoundIn(b)
                        /\ began' = began
  PROVE  EventsInOrder(b)'
<1>1. Cleared(b)' => b \notin armed' /\ memory'[b] = <<>>
  BY DEF EventsInOrder
<1>2. ASSUME at' \in {"start"} \cup Acquiring
      PROVE  MemoryInOrder(b)'
  <2>1. began' = began /\ (memory[b] = <<>> \/ MemoryInOrder(b))
    BY <1>2 DEF EventsInOrder
  <2>2. CASE memory[b] = <<>>
    BY <2>2, EmptyInOrder DEF MemoryInOrder, Rising
  <2>3. CASE MemoryInOrder(b)
    BY <2>1, <2>3 DEF MemoryInOrder, Rising, New
  <2> QED
    BY <2>1, <2>2, <2>3
<1>3. ASSUME Pending(b)'
      PROVE  BufferInOrder(b)'
  <2>1. /\ BufferInOrder(b) /\ From(b)' = From(b) /\ FoundIn(b)' = FoundIn(b)
        /\ began' = began
    BY <1>3 DEF EventsInOrder
  <2> DEFINE found == FoundIn(b)
             first == From(b)
  <2>2. found' = found /\ first' = first
    BY <2>1
  <2>3. /\ Rising(found, first)
        /\ \A n \in first..Len(found) :
             /\ New(b, found[n])
             /\ \A m \in 1..Len(memory[b]) : found[n] < memory[b][m]
    BY <2>1 DEF BufferInOrder
  <2>4. SUFFICES /\ Rising(found, first)'
                 /\ \A n \in (first..Len(found))' :
                      /\ New(b, found[n])'
                      /\ \A m \in 1..Len(memory'[b]) : (found[n])' < memory'[b][m]
    BY DEF BufferInOrder
  <2> HIDE DEF found, first
  <2> QED
    BY <2>1, <2>2, <2>3 DEF Rising, New
<1> QED
  BY <1>1, <1>2, <1>3 DEF EventsInOrder

(* The steps of the stages in which nothing is asked of the board's events.  *)
LEMMA OrderElsewhere ==
  ASSUME NEW b \in Boards, at' \notin Ordered
  PROVE  EventsInOrder(b)'
BY DEF EventsInOrder, Ordered, Cleared, Past, Pending, Acquiring

(* A trigger has the greatest number of all, and comes after StartRun().     *)
LEMMA OrderRecord ==
  ASSUME TypeOK, AllHappened, NEW b \in Boards, EventsInOrder(b),
         triggers < MaxTriggers, RecordTrigger,
         UNCHANGED <<board, iEvt, armed, buffers, pushed>>,
         at' = at \/ (at = "running" /\ at' = "read" /\ board = 0)
  PROVE  EventsInOrder(b)'
<1>1. /\ triggers \in Nat /\ triggers' = triggers + 1 /\ began' = began /\ began <= triggers
      /\ \/ memory'[b] = memory[b]
         \/ /\ b \in armed
            /\ Len(memory'[b]) = Len(memory[b]) + 1
            /\ \A n \in 1..Len(memory[b]) : memory'[b][n] = memory[b][n]
            /\ memory'[b][Len(memory[b]) + 1] = triggers'
  BY RecordElements
<1>2. /\ Len(memory[b]) \in Nat /\ Len(FoundIn(b)) \in Nat /\ Len(pushed[b]) \in Nat
      /\ From(b) \in Nat \ {0}
      /\ \A n \in 1..Len(memory[b]) : memory[b][n] \in 1..MaxTriggers
      /\ \A n \in 1..Len(FoundIn(b)) : FoundIn(b)[n] \in 1..MaxTriggers
      /\ \A n \in 1..Len(pushed[b]) : pushed[b][n] \in 1..MaxTriggers
  BY SequencesType
<1>3. began \in Nat
  BY ReadoutAssumption DEF TypeOK, DataOK
<1>4. /\ \A n \in 1..Len(memory[b]) : memory[b][n] <= triggers
      /\ \A n \in 1..Len(pushed[b]) : pushed[b][n] <= triggers
      /\ \A n \in 1..Len(FoundIn(b)) : FoundIn(b)[n] <= triggers
  BY EmptyInOrder DEF AllHappened, Happened, FoundIn
<1>5. Cleared(b)' => Cleared(b)
  BY DEF Cleared, Past
<1>6. Pending(b)' => Pending(b) /\ From(b)' = From(b) /\ FoundIn(b)' = FoundIn(b)
  <2>1. b >= 0 /\ b \in Nat
    BY BoardsAreIntegers
  <2> QED
    BY <2>1 DEF Pending, From, FoundIn
<1>7. CASE memory'[b] = memory[b]
  <2>1. Cleared(b)' => Cleared(b) /\ b \notin armed'
    BY <1>5 DEF EventsInOrder
  <2>2. at' \in {"start"} \cup Acquiring => at \in {"start"} \cup Acquiring
    BY DEF Acquiring
  <2> QED
    BY <1>1, <1>6, <1>7, <2>1, <2>2, OrderKept
<1>8. CASE /\ b \in armed
           /\ Len(memory'[b]) = Len(memory[b]) + 1
           /\ \A n \in 1..Len(memory[b]) : memory'[b][n] = memory[b][n]
           /\ memory'[b][Len(memory[b]) + 1] = triggers'
  <2>1. ~Cleared(b)'
    BY <1>5, <1>8 DEF EventsInOrder
  <2>2. ASSUME at' \in {"start"} \cup Acquiring
        PROVE  MemoryInOrder(b)'
    <3>1. MemoryInOrder(b)
      BY <2>2 DEF EventsInOrder, Acquiring
    <3>2. Rising(memory[b], 1)'
      <4> SUFFICES ASSUME NEW m \in 1..Len(memory[b]) + 1, NEW n \in 1..Len(memory[b]) + 1,
                          m < n
                   PROVE  memory'[b][m] < memory'[b][n]
        BY <1>8 DEF Rising
      <4>1. m \in 1..Len(memory[b])
        BY <1>2
      <4>2. memory'[b][m] = memory[b][m] /\ memory[b][m] <= triggers /\ memory[b][m] \in Nat
        BY <1>2, <1>4, <1>8, <4>1
      <4>3. CASE n \in 1..Len(memory[b])
        <5>1. memory'[b][n] = memory[b][n]
          BY <1>8, <4>3
        <5>2. memory[b][m] < memory[b][n]
          BY <3>1, <4>1, <4>3 DEF MemoryInOrder, Rising
        <5> QED
          BY <4>2, <5>1, <5>2
      <4>4. CASE n = Len(memory[b]) + 1
        <5>1. memory'[b][n] = triggers + 1
          BY <1>1, <1>8, <4>4
        <5>2. triggers \in Nat
          BY <1>1
        <5> QED
          BY <4>2, <5>1, <5>2
      <4>5. n \in 1..Len(memory[b]) \/ n = Len(memory[b]) + 1
        <5>1. Len(memory[b]) \in Nat
          BY <1>2
        <5> QED
          BY <5>1
      <4> QED
        BY <4>3, <4>4, <4>5
    <3>3. ASSUME NEW n \in 1..Len(memory[b]) + 1
          PROVE  New(b, memory'[b][n])
      <4>1. CASE n \in 1..Len(memory[b])
        BY <1>8, <3>1, <4>1 DEF MemoryInOrder
      <4>2. CASE n = Len(memory[b]) + 1
        BY <1>1, <1>2, <1>3, <1>4, <1>8, <4>2 DEF New
      <4> QED
        BY <1>2, <4>1, <4>2
    <3> QED
      BY <1>1, <1>8, <3>2, <3>3 DEF MemoryInOrder, New
  <2>3. ASSUME Pending(b)'
        PROVE  BufferInOrder(b)'
    <3> DEFINE found == FoundIn(b)
               first == From(b)
    <3>1. found' = found /\ first' = first /\ BufferInOrder(b)
      BY <1>6, <2>3 DEF EventsInOrder
    <3>2. /\ Rising(found, first)
          /\ \A n \in first..Len(found) :
               /\ New(b, found[n])
               /\ \A m \in 1..Len(memory[b]) : found[n] < memory[b][m]
      BY <3>1 DEF BufferInOrder
    <3>3. \A n \in first..Len(found) : n \in 1..Len(found) /\ found[n] \in Nat /\ found[n] <= triggers
      BY <1>2, <1>4
    <3>4. SUFFICES /\ Rising(found, first)'
                   /\ \A n \in (first..Len(found))' :
                        /\ New(b, found[n])'
                        /\ \A m \in 1..Len(memory'[b]) : (found[n])' < memory'[b][m]
      BY DEF BufferInOrder
    <3> HIDE DEF found, first
    <3>5. ASSUME NEW n \in first..Len(found), NEW m \in 1..Len(memory[b]) + 1
          PROVE  found[n] < memory'[b][m]
      <4>1. CASE m \in 1..Len(memory[b])
        BY <1>8, <3>2, <4>1
      <4>2. CASE m = Len(memory[b]) + 1
        BY <1>1, <1>8, <3>3, <4>2
      <4> QED
        BY <1>2, <4>1, <4>2
    <3> QED
      BY <1>1, <1>8, <3>1, <3>2, <3>5 DEF Rising, New
  <2> QED
    BY <2>1, <2>2, <2>3 DEF EventsInOrder
<1> QED
  BY <1>1, <1>7, <1>8

-----------------------------------------------------------------------------

LEMMA OrderInitialize ==
  ASSUME TypeOK, NEW b \in Boards, InitializeBoard, EventsInOrder(b), ~Faulty(b, {"Reset"})'
  PROVE  EventsInOrder(b)'
<1>1. PICK failed \in SUBSET (Settings \cup {"Reset", "BoardFailStatus"}) :
        /\ faults' = faults \cup {<<call, board>> : call \in failed}
        /\ IF "Reset" \in failed THEN UNCHANGED <<armed, memory, givenUp>> ELSE Reset
  BY DEF InitializeBoard
<1>2. /\ at = "initialize" /\ at' \in {"initialize", "malloc"}
      /\ \/ at' = at /\ board' = board + 1
         \/ at' = "malloc" /\ \A c \in Boards : c <= board
  BY LoopStep DEF InitializeBoard, Places, TypeOK
<1>3. board \in Boards /\ board \in Nat /\ b \in Nat
  BY BoardsAreIntegers DEF TypeOK, MethodOK
<1>4. CASE b = board
  <2>1. "Reset" \notin failed
    BY <1>1, <1>4 DEF Faulty
  <2>2. b \notin armed' /\ memory'[b] = <<>>
    BY <1>1, <1>3, <1>4, <2>1 DEF Reset, ClearData, TypeOK, DataOK
  <2> QED
    BY <1>2, <2>2 DEF EventsInOrder, Acquiring, Pending
<1>5. CASE b # board
  <2>1. Cleared(b)' => Cleared(b)
    BY <1>2, <1>3, <1>5 DEF Cleared, Past
  <2>2. memory'[b] = memory[b] /\ armed' \subseteq armed
    BY <1>1, <1>3, <1>5 DEF Reset, ClearData, TypeOK, DataOK
  <2> QED
    BY <1>2, <2>1, <2>2 DEF EventsInOrder, Acquiring, Pending
<1> QED
  BY <1>4, <1>5

LEMMA OrderStart ==
  ASSUME TypeOK, NEW b \in Boards, EventsInOrder(b),
         MallocReadoutBuffer \/ ProgramSynchronization \/ AllocateEvent \/ StartAcquisition
  PROVE  EventsInOrder(b)'
<1>1. UNCHANGED <<memory, pushed>> /\ board \in Boards
  BY DEF MallocReadoutBuffer, ProgramSynchronization, AllocateEvent, StartAcquisition, TypeOK,
         MethodOK
<1>2. CASE MallocReadoutBuffer
  <2>1. at = "malloc" /\ at' \in {"malloc", "synchronize"} /\ armed' = armed
    BY <1>2, LoopStep DEF MallocReadoutBuffer, Places, TypeOK
  <2> QED
    BY <1>1, <2>1 DEF EventsInOrder, Cleared, Past, Acquiring, Pending
<1>3. CASE ProgramSynchronization
  <2>1. at = "synchronize" /\ at' \in {"synchronize", "allocate"} /\ armed' = armed
    BY <1>3, LoopStep DEF ProgramSynchronization, Places, TypeOK
  <2> QED
    BY <1>1, <2>1 DEF EventsInOrder, Cleared, Past, Acquiring, Pending
<1>4. CASE AllocateEvent
  <2>1. at = "allocate" /\ at' \in {"allocate", "start"} /\ armed' = armed /\ began' = began
    BY <1>4, LoopStep DEF AllocateEvent, Places, TypeOK
  <2>2. Cleared(b) /\ memory[b] = <<>> /\ b \notin armed
    BY <2>1 DEF EventsInOrder, Cleared, Past
  <2>3. ~Pending(b)'
    BY <2>1 DEF Pending
  <2> QED
    BY <1>1, <2>1, <2>2, <2>3, OrderKept
<1>5. CASE StartAcquisition
  <2>1. at = "start" /\ at' \in {"start", "running"} /\ began' = began
    BY <1>5, LoopStep DEF StartAcquisition, Places, TypeOK
  <2>2. ~Pending(b)' /\ ~Cleared(b)'
    BY <2>1 DEF Pending, Cleared, Past
  <2> QED
    BY <1>1, <2>1, <2>2, OrderKept
<1> QED
  BY <1>2, <1>3, <1>4, <1>5

(* SendSWTriggers() without a trigger, and the ends of the buffers.          *)
LEMMA OrderLoop ==
  ASSUME TypeOK, LoopsBegin, NEW b \in Boards, EventsInOrder(b),
         (SendSWTriggers /\ memory' = memory /\ began' = began) \/ SkipBuffer \/ BufferDone
  PROVE  EventsInOrder(b)'
<1>1. /\ memory' = memory /\ pushed' = pushed /\ began' = began
      /\ UNCHANGED <<ReadoutBuffers, buffer>> /\ board \in Nat /\ b \in Nat /\ b >= 0
  BY BoardsAreIntegers DEF SendSWTriggers, SkipBuffer, BufferDone, TypeOK, MethodOK
<1>2. FoundIn(b)' = FoundIn(b)
  BY <1>1 DEF FoundIn
<1>3. CASE SendSWTriggers
  <2>1. at = "running" /\ at' = "read" /\ board = 0 /\ board' = board
    BY <1>3 DEF SendSWTriggers, LoopsBegin
  <2>2. ~Pending(b)' /\ ~Cleared(b)'
    BY <1>1, <2>1 DEF Pending, Cleared, Past
  <2> QED
    BY <1>1, <2>1, <2>2, OrderKept DEF Acquiring
<1>4. CASE SkipBuffer \/ BufferDone
  <2>1. /\ at = "decode" /\ iEvt' = 1
        /\ \/ at' = at /\ board' = board + 1
           \/ at' = "running"
    BY <1>4, LoopStep DEF SkipBuffer, BufferDone, Decoding, Places, TypeOK
  <2>2. Pending(b)' => Pending(b) /\ From(b)' = From(b)
    BY <1>1, <2>1 DEF Pending, From
  <2>3. ~Cleared(b)' /\ at \in Acquiring
    BY <2>1 DEF Cleared, Past, Acquiring
  <2> QED
    BY <1>1, <1>2, <2>2, <2>3, OrderKept
<1> QED
  BY <1>3, <1>4

(* A read moves the first events of the memory to the buffer.                *)
LEMMA OrderRead ==
  ASSUME TypeOK, NEW b \in Boards, EventsInOrder(b), ReadEventBuffer,
         ~Faulty(b, {"ReadData"})'
  PROVE  EventsInOrder(b)'
<1> DEFINE seen == memory[b]
<1>1. /\ at = "read" /\ iEvt' = 1 /\ UNCHANGED <<began, pushed, ReadoutBuffers>>
      /\ board \in Boards /\ board \in Nat /\ b \in Nat
  BY BoardsAreIntegers DEF ReadEventBuffer, TypeOK, MethodOK
<1>2. \/ at' = "read" /\ board' = board + 1
      \/ /\ at' \in {"decode", "running"} /\ board' = 0
         /\ \A c \in Boards : c <= board
  BY <1>1, LoopStep DEF ReadEventBuffer, Places, TypeOK
<1>3. CASE b # board
  <2>1. memory'[b] = memory[b] /\ buffer'[b] = buffer[b]
    BY <1>3, ReadSplits
  <2>2. Pending(b)' => Pending(b) /\ From(b)' = From(b)
    BY <1>1, <1>2, <1>3 DEF Pending, From
  <2>3. FoundIn(b)' = FoundIn(b)
    BY <1>1, <2>1 DEF FoundIn
  <2>4. ~Cleared(b)' /\ at \in Acquiring
    BY <1>1, <1>2 DEF Cleared, Past, Acquiring
  <2> QED
    BY <1>1, <2>1, <2>2, <2>3, <2>4, OrderKept
<1>4. CASE b = board
  <2>1. MemoryInOrder(b) /\ seen \in EventSeqs /\ Len(seen) \in Nat
    BY <1>1, SequencesType DEF EventsInOrder, Acquiring
  <2>2. Rising(seen, 1) /\ \A k \in 1..Len(seen) : New(b, seen[k])
    BY <2>1 DEF MemoryInOrder
  <2>3. From(b)' = 1 /\ ~Cleared(b)' /\ began' = began /\ pushed'[b] = pushed[b]
    BY <1>1, <1>2 DEF From, Cleared, Past
  <2>4. CASE /\ b \notin ReadoutBuffers \/ <<"ReadData", b>> \in faults'
             /\ memory'[b] = seen
    <3>1. b \notin ReadoutBuffers
      BY <2>4 DEF Faulty
    <3>2. FoundIn(b)' = <<>>
      BY <1>1, <3>1 DEF FoundIn
    <3>3. BufferInOrder(b)'
      BY <2>3, <3>2, EmptyInOrder DEF BufferInOrder, Rising
    <3>4. MemoryInOrder(b)'
      BY <2>2, <2>3, <2>4 DEF MemoryInOrder, Rising, New
    <3> QED
      BY <2>3, <3>3, <3>4 DEF EventsInOrder
  <2>5. CASE \E n \in 0..Len(seen) :
               /\ b \in ReadoutBuffers
               /\ buffer'[b] = SubSeq(seen, 1, n)
               /\ memory'[b] = SubSeq(seen, n + 1, Len(seen))
    <3>1. PICK n \in 0..Len(seen) :
               /\ b \in ReadoutBuffers
               /\ buffer'[b] = SubSeq(seen, 1, n)
               /\ memory'[b] = SubSeq(seen, n + 1, Len(seen))
      BY <2>5
    <3> DEFINE part == SubSeq(seen, 1, n)
               rest == SubSeq(seen, n + 1, Len(seen))
    <3>2. /\ n \in Nat /\ n <= Len(seen) /\ 1 <= n + 1 /\ 1 \in Nat \ {0}
          /\ n + 1 \in Nat \ {0} /\ n + 1 <= Len(seen) + 1 /\ Len(seen) <= Len(seen)
      BY <2>1
    <3> HIDE DEF seen
    <3>3. /\ Len(part) = n - 1 + 1
          /\ \A k \in 1..Len(part) : part[k] = seen[1 + k - 1] /\ 1 + k - 1 \in 1..n
      BY ONLY <2>1, <3>2, SubSeqElements
    <3>4. /\ Len(rest) = Len(seen) - (n + 1) + 1
          /\ \A k \in 1..Len(rest) : rest[k] = seen[n + 1 + k - 1] /\ n + 1 + k - 1 \in n + 1..Len(seen)
      BY ONLY <2>1, <3>2, SubSeqElements
    <3>5. buffer'[b] = part /\ memory'[b] = rest
      BY <3>1
    <3> HIDE DEF part, rest
    <3>6. \A k \in 1..Len(part) : part[k] = seen[k] /\ k \in 1..Len(seen) /\ k <= n
      BY <2>1, <3>2, <3>3
    <3>7. \A k \in 1..Len(rest) : rest[k] = seen[n + k] /\ n + k \in 1..Len(seen)
      <4> TAKE k \in 1..Len(rest)
      <4>1. n + 1 + k - 1 = n + k /\ \A x \in n + 1..Len(seen) : x \in 1..Len(seen)
        BY <2>1, <3>2
      <4> QED
        BY <3>4, <4>1
    <3>8. Rising(part, 1) /\ Rising(rest, 1)
      <4>1. Rising(part, 1)
        BY <2>2, <3>6 DEF Rising
      <4>2. ASSUME NEW k \in 1..Len(rest), NEW l \in 1..Len(rest), k < l
            PROVE  rest[k] < rest[l]
        <5>1. n + k < n + l
          BY <3>2, <4>2
        <5> QED
          BY <2>2, <3>7, <5>1 DEF Rising
      <4> QED
        BY <4>1, <4>2 DEF Rising
    <3>9. /\ \A k \in 1..Len(part) : New(b, part[k])
          /\ \A k \in 1..Len(rest) : New(b, rest[k])
      BY <2>2, <3>6, <3>7
    <3>10. ASSUME NEW k \in 1..Len(part), NEW l \in 1..Len(rest)
           PROVE  part[k] < rest[l]
      <4>1. part[k] = seen[k] /\ k \in 1..Len(seen) /\ k <= n
        BY <3>6
      <4>2. rest[l] = seen[n + l] /\ n + l \in 1..Len(seen)
        BY <3>7
      <4>3. k < n + l
        BY <3>2, <4>1
      <4>4. seen[k] < seen[n + l]
        BY <2>2, <4>1, <4>2, <4>3 DEF Rising
      <4> QED
        BY <4>1, <4>2, <4>4
    <3>11. FoundIn(b)' = part
      BY <1>1, <3>1, <3>5 DEF FoundIn
    <3>12. BufferInOrder(b)'
      BY <2>3, <3>5, <3>8, <3>9, <3>10, <3>11 DEF BufferInOrder, Rising, New
    <3>13. MemoryInOrder(b)'
      BY <2>3, <3>5, <3>8, <3>9 DEF MemoryInOrder, Rising, New
    <3> QED
      BY <2>3, <3>12, <3>13 DEF EventsInOrder
  <2> QED
    BY <1>4, <2>4, <2>5, ReadSplits
<1> QED
  BY <1>3, <1>4

(* DecodeEvent() pushes the first event of the buffer that is left. *)
LEMMA DecodeTakes ==
  ASSUME TypeOK, DecodeEvent
  PROVE  /\ at = "decode" /\ board \in Boards /\ board \in Nat
         /\ iEvt \in 1..Len(FoundIn(board)) /\ iEvt' = iEvt + 1
         /\ UNCHANGED <<at, board, memory, began, ReadoutBuffers, buffer>>
         /\ \A c \in Boards \ {board} : pushed'[c] = pushed[c]
         /\ pushed'[board] = Append(pushed[board], FoundIn(board)[iEvt])
<1>1. Found = FoundIn(board)
  BY DEF Found, FoundIn
<1>2. /\ board \in Boards /\ iEvt \in Nat \ {0} /\ Len(FoundIn(board)) \in Nat
      /\ pushed = [b \in Boards |-> pushed[b]]
  BY SequencesType DEF TypeOK, MethodOK, OutcomeOK
<1> QED
  BY <1>1, <1>2, BoardsAreIntegers DEF DecodeEvent, Decoding

LEMMA OrderDecode ==
  ASSUME TypeOK, NEW b \in Boards, EventsInOrder(b), DecodeEvent
  PROVE  EventsInOrder(b)'
<1>1. /\ at = "decode" /\ board \in Boards /\ board \in Nat /\ b \in Nat
      /\ iEvt \in 1..Len(FoundIn(board)) /\ iEvt' = iEvt + 1
      /\ UNCHANGED <<at, board, memory, began, ReadoutBuffers, buffer>>
      /\ \A c \in Boards \ {board} : pushed'[c] = pushed[c]
  BY DecodeTakes, BoardsAreIntegers
<1>2. FoundIn(b)' = FoundIn(b) /\ ~Cleared(b)' /\ at \in Acquiring
  BY <1>1 DEF FoundIn, Cleared, Past, Acquiring
<1>3. CASE b # board
  <2>1. Pending(b)' => Pending(b) /\ From(b)' = From(b)
    BY <1>1, <1>3 DEF Pending, From
  <2> QED
    BY <1>1, <1>2, <1>3, <2>1, OrderKept
<1>4. CASE b = board
  <2> DEFINE found == FoundIn(b)
             e == found[iEvt]
  <2>1. MemoryInOrder(b) /\ BufferInOrder(b) /\ From(b) = iEvt /\ From(b)' = iEvt + 1
    BY <1>1, <1>2, <1>4 DEF EventsInOrder, Pending, From
  <2>2. /\ Len(found) \in Nat /\ pushed[b] \in EventSeqs
        /\ found' = found /\ iEvt \in Nat /\ iEvt \in iEvt..Len(found)
        /\ \A n \in iEvt + 1..Len(found) : n \in iEvt..Len(found) /\ iEvt < n
        /\ e \in 1..MaxTriggers
    BY <1>1, <1>2, <1>4, SequencesType
  <2>3. /\ Rising(found, iEvt)
        /\ \A n \in iEvt..Len(found) :
             /\ New(b, found[n])
             /\ \A m \in 1..Len(memory[b]) : found[n] < memory[b][m]
    BY <2>1 DEF BufferInOrder
  <2>4. LET more == pushed'[b]
        IN  /\ Len(pushed[b]) \in Nat /\ Len(more) = Len(pushed[b]) + 1
            /\ \A n \in 1..Len(pushed[b]) : more[n] = pushed[b][n]
            /\ more[Len(pushed[b]) + 1] = e
    <3>1. pushed'[b] = Append(pushed[b], e)
      BY <1>4, DecodeTakes
    <3> HIDE DEF e
    <3> QED
      BY <2>2, <3>1, AppendElements
  <2>5. SUFFICES /\ \A n \in 1..Len(memory[b]) : New(b, memory[b][n])'
                 /\ Rising(found, iEvt + 1)
                 /\ \A n \in iEvt + 1..Len(found) :
                      /\ (New(b, found[n]))'
                      /\ \A m \in 1..Len(memory[b]) : found[n] < memory[b][m]
    BY <1>1, <1>2, <2>1, <2>2 DEF EventsInOrder, MemoryInOrder, BufferInOrder, Rising
  <2>6. \A x : New(b, x) /\ e < x => New(b, x)'
    <3> SUFFICES ASSUME NEW x, New(b, x), e < x, NEW p \in 1..Len(pushed[b]) + 1
                 PROVE  x > began /\ pushed'[b][p] < x
      BY <1>1, <2>4 DEF New
    <3>1. p \in 1..Len(pushed[b]) \/ p = Len(pushed[b]) + 1
      BY <2>4
    <3> HIDE DEF e
    <3> QED
      BY <2>4, <3>1 DEF New
  <2>7. \A n \in iEvt + 1..Len(found) : e < found[n]
    BY <2>2, <2>3 DEF Rising
  <2>8. \A m \in 1..Len(memory[b]) : e < memory[b][m] /\ New(b, memory[b][m])
    BY <2>1, <2>2, <2>3 DEF MemoryInOrder
  <2>9. Rising(found, iEvt + 1)
    BY <2>2, <2>3 DEF Rising
  <2> HIDE DEF found, e
  <2> QED
    BY <1>1, <2>2, <2>3, <2>6, <2>7, <2>8, <2>9
<1> QED
  BY <1>3, <1>4

LEMMA OrderStep ==
  ASSUME ReadoutInv, OrderInv, [Next]_vars
  PROVE  OrderInv'
<1>1. TypeOK /\ LoopsBegin /\ AllHappened
  BY DEF ReadoutInv, OrderInv
<1>2. AllHappened'
  BY <1>1, HappenedStep
<1> SUFFICES ASSUME NEW b \in Boards, ~Faulty(b, {"ReadData", "Reset"})'
             PROVE  EventsInOrder(b)'
  BY <1>2 DEF OrderInv
<1>3. ~Faulty(b, {"ReadData"})' /\ ~Faulty(b, {"Reset"})'
  BY DEF Faulty
<1>4. CASE InitializeBoards
  <2>1. at' = "initialize" /\ board' = 0 /\ b \in Nat
    BY <1>1, <1>4, BoardsAreIntegers DEF InitializeBoards, LoopsBegin
  <2> QED
    BY <2>1 DEF EventsInOrder, Cleared, Past, Pending, Acquiring
<1>5. CASE ~InitializeBoards
  <2>1. EventsInOrder(b)
    BY <1>1, <1>5, FaultsGrow DEF OrderInv
  <2>2. CASE InitializeBoard
    BY <1>1, <1>3, <2>1, <2>2, OrderInitialize
  <2>3. CASE MallocReadoutBuffer \/ ProgramSynchronization \/ AllocateEvent \/ StartAcquisition
    BY <1>1, <2>1, <2>3, OrderStart
  <2>4. CASE Trigger \/ (SendSWTriggers /\ triggers' # triggers)
    <3>1. /\ triggers < MaxTriggers /\ RecordTrigger
          /\ UNCHANGED <<board, iEvt, armed, buffers, pushed>>
          /\ at' = at \/ (at = "running" /\ at' = "read" /\ board = 0)
      BY <1>1, <2>4 DEF Trigger, SendSWTriggers, LoopsBegin
    <3> QED
      BY ONLY <1>1, <2>1, <3>1, OrderRecord, b \in Boards
  <2>5. CASE SendSWTriggers /\ triggers' = triggers
    <3>1. ~RecordTrigger
      <4>1. triggers \in Nat
        BY <1>1, ReadoutAssumption DEF TypeOK, DataOK
      <4> QED
        BY <2>5, <4>1 DEF RecordTrigger
    <3>2. memory' = memory /\ began' = began
      BY <2>5, <3>1 DEF SendSWTriggers
    <3> QED
      BY <1>1, <2>1, <2>5, <3>2, OrderLoop
  <2>6. CASE SkipBuffer \/ BufferDone
    BY <1>1, <2>1, <2>6, OrderLoop
  <2>7. CASE ReadEventBuffer
    BY <1>1, <1>3, <2>1, <2>7, OrderRead
  <2>8. CASE DecodeEvent
    BY <1>1, <2>1, <2>8, OrderDecode
  <2>9. CASE \/ ConnectToBoard \/ ReadConfiguration \/ StopStep
             \/ \E quit \in BOOLEAN : Stop(quit)
    <3>1. at' \in {"connect", "configured", "exit", "stop", "freeEvent", "freeBuffer",
                   "close", "stopped", "closed"}
      BY <2>9
      DEF ConnectToBoard, ReadConfiguration, StopStep, Stop, StopAcquisition, FreeEvent,
          FreeReadoutBuffer, CloseDigitizer, Loop
    <3>2. at' \notin Ordered
      BY <3>1 DEF Ordered, Acquiring
    <3> QED
      BY <3>2, OrderElsewhere
  <2>10. CASE UNCHANGED vars
    <3>1. /\ UNCHANGED <<at, board, iEvt, armed, ReadoutBuffers, buffer, memory, pushed, began>>
      BY <2>10
    <3>2. FoundIn(b)' = FoundIn(b) /\ From(b)' = From(b)
      BY <3>1 DEF FoundIn, From
    <3>3. (Cleared(b)' <=> Cleared(b)) /\ (Pending(b)' <=> Pending(b))
      BY <3>1 DEF Cleared, Past, Pending
    <3>4. Cleared(b) => b \notin armed
      BY <2>1 DEF EventsInOrder
    <3> QED
      BY <1>1, <2>1, <3>1, <3>2, <3>3, <3>4, OrderKept
  <2> QED
    BY <1>5, <2>2, <2>3, <2>4, <2>5, <2>6, <2>7, <2>8, <2>9, <2>10
    DEF Next, Reader, ConfigurationStep, StartStep, ReadStep
<1> QED
  BY <1>4, <1>5

LEMMA OrderInit == Init => OrderInv
<1> SUFFICES ASSUME Init PROVE OrderInv
  OBVIOUS
<1>1. \A b \in Boards : memory[b] = <<>> /\ buffer[b] = <<>> /\ pushed[b] = <<>>
  BY DEF Init
<1>2. AllHappened
  BY <1>1, HappenedEmpty DEF AllHappened
<1>3. \A b \in Boards : EventsInOrder(b)
  BY DEF Init, EventsInOrder, Cleared, Past, Pending, Acquiring
<1> QED
  BY <1>2, <1>3 DEF OrderInv

(* Each event goes to its queue at most once, in the order of the triggers   *)
(* and none of an earlier run, for any number of boards, runs and failures:  *)
(* only a read that fails or a board that is not reset can break it.         *)
THEOREM PushesAreNewTheorem == Spec => PushesAreNew
<1>1. ReadoutInv /\ OrderInv /\ [Next]_vars =>
        [\A b \in Boards : pushed'[b] # pushed[b] /\ ~Faulty(b, {"ReadData", "Reset"}) =>
           LET new == pushed'[b][Len(pushed'[b])]
           IN  new > began /\ \A n \in Events(pushed[b]) : n < new]_vars
  <2> SUFFICES ASSUME ReadoutInv, OrderInv, [Next]_vars, NEW b \in Boards,
                      pushed'[b] # pushed[b], ~Faulty(b, {"ReadData", "Reset"})
               PROVE  LET new == pushed'[b][Len(pushed'[b])]
                      IN  new > began /\ \A n \in Events(pushed[b]) : n < new
    OBVIOUS
  <2>1. TypeOK /\ EventsInOrder(b)
    BY DEF ReadoutInv, OrderInv
  <2>2. DecodeEvent
    BY DEF Next, Reader, ConfigurationStep, StartStep, ReadStep, StopStep, ConnectToBoard,
           InitializeBoards, InitializeBoard, MallocReadoutBuffer, ProgramSynchronization,
           AllocateEvent, StartAcquisition, SendSWTriggers, ReadEventBuffer, SkipBuffer,
           BufferDone, StopAcquisition, FreeEvent, FreeReadoutBuffer, CloseDigitizer, Trigger,
           ReadConfiguration, Stop
  <2> DEFINE e == FoundIn(b)[iEvt]
  <2>3. b = board
    BY <2>1, <2>2, DecodeTakes
  <2>4. /\ at = "decode" /\ b \in Nat /\ iEvt \in iEvt..Len(FoundIn(b))
        /\ iEvt \in 1..Len(FoundIn(b)) /\ pushed'[b] = Append(pushed[b], e)
    <3>1. Len(FoundIn(b)) \in Nat
      BY <2>1, SequencesType
    <3> QED
      BY <2>1, <2>2, <2>3, <3>1, DecodeTakes
  <2>5. New(b, e)
    <3>1. Pending(b) /\ From(b) = iEvt
      BY <2>3, <2>4 DEF Pending, From
    <3> QED
      BY <2>1, <2>4, <3>1 DEF EventsInOrder, BufferInOrder
  <2>6. e \in 1..MaxTriggers /\ pushed[b] \in EventSeqs
    BY <2>1, <2>4, SequencesType
  <2> HIDE DEF e
  <2>7. pushed'[b][Len(pushed'[b])] = e
    BY <2>4, <2>6, AppendElements
  <2> QED
    BY <2>5, <2>7 DEF New, Events
<1> QED
  BY <1>1, ReadoutInvariant, OrderInit, OrderStep, InvInit, InvStep, PTL DEF Spec, PushesAreNew

=============================================================================

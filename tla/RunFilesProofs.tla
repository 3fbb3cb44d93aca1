---------------------------- MODULE RunFilesProofs ----------------------------
(* Proofs about RunFiles, and about FileTransfer, which composes it with the *)
(* transfer script, for any number of configurations, runs, subruns, events, *)
(* scripts and crashes.                                                      *)
EXTENDS FileTransfer, SequenceTheorems, TLAPS

LEMMA LabelType ==
  ASSUME NEW r \in Nat, NEW s \in Nat, NEW c \in Configs
  PROVE  /\ Label(r, s, c) \in Labels
         /\ Label(r, s, c).run = r /\ Label(r, s, c).subrun = s
         /\ Label(r, s, c).cfg = c
BY DEF Label, Labels

LEMMA LastEntryType ==
  ASSUME runList \in Seq(Labels)
  PROVE  LastEntry \in Labels
<1>1. Label(0, 0, DefaultConfig) \in Labels
  BY LabelType, RunFilesAssumption
<1>2. runList # <<>> => Len(runList) \in 1..Len(runList)
  BY EmptySeq, LenProperties
<1>3. runList # <<>> => runList[Len(runList)] \in Labels
  BY <1>2, ElementOfSeq
<1> QED
  BY <1>1, <1>3 DEF LastEntry, NoEntry

LEMMA CurrentType == TypeOK => Current \in Labels
BY LabelType DEF TypeOK, Current

LEMMA BeforeTransitive ==
  ASSUME NEW a \in Labels, NEW b \in Labels, NEW c \in Labels,
         Before(a, b), Before(b, c)
  PROVE  Before(a, c)
BY DEF Before, Labels

LEMMA BeforeIrreflexive ==
  ASSUME NEW a \in Labels
  PROVE  ~Before(a, a)
BY DEF Before, Labels

-----------------------------------------------------------------------------
(* Types.                                                                  *)

LEMMA TypeInit == Init => TypeOK
<1> SUFFICES ASSUME Init PROVE TypeOK
  OBVIOUS
<1>1. EmptyFile \in Content
  BY DEF EmptyFile, Content
<1>2. runList \in Seq(Labels) /\ filled \in Seq(Labels)
  BY EmptySeq DEF Init
<1> QED
  BY <1>1, <1>2, RunFilesAssumption DEF Init, TypeOK

LEMMA TypeStep == TypeOK /\ [Next]_vars => TypeOK'
<1> SUFFICES ASSUME TypeOK, [Next]_vars
             PROVE  TypeOK'
  OBVIOUS
<1> USE DEF TypeOK, memory, disk, history
<1>1. LastEntry \in Labels /\ Current \in Labels
  BY LastEntryType, CurrentType
<1>2. EmptyFile \in Content
  BY DEF EmptyFile, Content
<1>3. CASE CreateFactory
  <2>1. NoEntry \in Labels
    BY LabelType, RunFilesAssumption DEF NoEntry
  <2>2. PICK last \in {LastEntry, NoEntry} :
          run' = last.run + 1 /\ cfg' = last.cfg
    BY <1>3 DEF CreateFactory
  <2>3. run' \in Nat /\ run' > 0 /\ cfg' \in Configs
    BY <1>1, <2>1, <2>2 DEF Labels
  <2>4. listFailed' \in BOOLEAN
    BY <1>3 DEF CreateFactory
  <2> QED
    BY <1>3, <2>3, <2>4 DEF CreateFactory, StartFile
<1>4. CASE DefineNewRun
  BY <1>4 DEF DefineNewRun, StartFile
<1>5. CASE Fill
  <2>1. Len(filled) \in Nat /\ Len(filled) + 1 \in 1..MaxEvents
    BY <1>5, RunFilesAssumption, LenProperties DEF Fill
  <2>2. filled' \in Seq(Labels)
    BY <1>1, <1>5, AppendProperties DEF Fill
  <2>3. /\ temp' \in Content
        /\ buffer' \subseteq 1..MaxEvents
    BY <1>5, <2>1 DEF Fill, Content
  <2>4. /\ at' \in {"open", "finishing"} /\ then' \in {"stop", "rotate", "quit"}
        /\ at = "open"
    BY <1>5 DEF Fill
  <2> QED
    BY <1>5, <2>2, <2>3, <2>4 DEF Fill
<1>6. ASSUME NEW why \in {"stop", "rotate", "quit"}, Finish(why)
      PROVE  TypeOK'
  BY <1>6 DEF Finish
<1>7. CASE WriteEvents
  BY <1>7 DEF WriteEvents, Content
<1>8. CASE WriteMetadata
  BY <1>1, <1>8 DEF WriteMetadata, Content
<1>9. CASE Rename
  <2>1. files' \in SUBSET [name : Labels, content : Content]
    BY <1>1, <1>9 DEF Rename
  <2> QED
    BY <1>2, <1>9, <2>1 DEF Rename
<1>10. CASE RenameFails
  BY <1>10 DEF RenameFails
<1>11. CASE RegisterFile
  <2>1. runList' \in Seq(Labels) /\ listFailed' \in BOOLEAN
    <3>1. Append(runList, Current) \in Seq(Labels)
      BY <1>1, AppendProperties
    <3> QED
      BY <1>11, <3>1 DEF RegisterFile
  <2>2. CASE then = "rotate"
    BY <1>11, <2>1, <2>2 DEF RegisterFile, Proceed, StartFile
  <2>3. CASE then # "rotate"
    BY <1>11, <2>1, <2>3 DEF RegisterFile, Proceed
  <2> QED
    BY <2>2, <2>3
<1>12. CASE QuitWhileStopped
  BY <1>12 DEF QuitWhileStopped
<1>13. CASE Crash
  BY <1>13 DEF Crash
<1>14. CASE UNCHANGED vars
  BY <1>14 DEF vars
<1> QED
  BY <1>3, <1>4, <1>5, <1>6, <1>7, <1>8, <1>9, <1>10, <1>11, <1>12, <1>13, <1>14
  DEF Next

(* Every variable stays in its type, and a run is numbered from 1.1. *)
THEOREM FilesTypeInvariant == Spec => []TypeOK
BY TypeInit, TypeStep, PTL DEF Spec

-----------------------------------------------------------------------------
(* The run list and the names of the files.                                *)

LEMMA FilesInvInit == Init => FilesInv
<1> SUFFICES ASSUME Init PROVE FilesInv
  OBVIOUS
<1>1. at = "down" /\ files = {} /\ Len(runList) = 0
  BY EmptySeq DEF Init
<1> QED
  BY <1>1, TypeInit DEF FilesInv, CurrentFollowsRunList, RunListSorted

(* What the run list did once stays with it. *)
LEMMA ListFailedStays == [Next]_vars /\ listFailed => listFailed'
BY DEF Next, vars, memory, disk, history, CreateFactory, DefineNewRun, Fill,
       Finish, WriteEvents, WriteMetadata, Rename, RenameFails, RegisterFile,
       QuitWhileStopped, Crash

(* A finished file is named before the label that is being written. *)
LEMMA NameIsFree ==
  ASSUME FilesInv, ~listFailed, at \notin {"down", "closed", "renamed"}, NEW f \in files
  PROVE  f.name # Current
<1>1. /\ Current \in Labels /\ runList \in Seq(Labels)
      /\ Before(LastEntry, Current)
  BY CurrentType DEF FilesInv, CurrentFollowsRunList, TypeOK
<1>2. PICK i \in 1..Len(runList) : runList[i] = f.name
  BY DEF FilesInv
<1>3. /\ Len(runList) \in Nat /\ Len(runList) \in 1..Len(runList)
      /\ LastEntry = runList[Len(runList)]
  BY <1>1, <1>2, LenProperties, EmptySeq DEF LastEntry
<1>4. f.name \in Labels /\ LastEntry \in Labels
  BY <1>1, <1>2, <1>3, ElementOfSeq
<1>5. CASE i = Len(runList)
  BY <1>1, <1>2, <1>3, <1>4, <1>5, BeforeIrreflexive
<1>6. CASE i # Len(runList)
  <2>1. Before(f.name, LastEntry)
    BY <1>2, <1>3, <1>6 DEF FilesInv, RunListSorted
  <2>2. Before(f.name, Current)
    BY <2>1, <1>1, <1>4, BeforeTransitive
  <2> QED
    BY <2>2, <1>1, BeforeIrreflexive
<1> QED
  BY <1>5, <1>6

(* Entering the file that was finished keeps the run list sorted, with     *)
(* that file as its last entry.                                            *)
LEMMA RegisterStep ==
  ASSUME FilesInv, ~listFailed, RegisterFile, ~listFailed'
  PROVE  /\ RunListSorted'
         /\ LastEntry' = Current
         /\ \A f \in files' : \E i \in 1..Len(runList') : runList'[i] = f.name
<1> DEFINE n == Len(runList)
<1>1. /\ Current \in Labels /\ runList \in Seq(Labels)
      /\ Before(LastEntry, Current)
      /\ runList' = Append(runList, Current) /\ files' = files
      /\ n \in Nat
  BY CurrentType, LenProperties
  DEF FilesInv, CurrentFollowsRunList, TypeOK, RegisterFile
<1>2. /\ Len(runList') = n + 1 /\ runList'[n + 1] = Current
      /\ \A i \in 1..n : runList'[i] = runList[i]
  BY <1>1, AppendProperties
<1>3. ASSUME NEW i \in 1..n
      PROVE  Before(runList[i], Current)
  <2>1. LastEntry = runList[n] /\ n \in 1..n
    BY <1>1, <1>3, EmptySeq DEF LastEntry
  <2>2. runList[i] \in Labels /\ LastEntry \in Labels
    BY <1>1, <2>1, ElementOfSeq
  <2>3. CASE i = n
    BY <1>1, <2>1, <2>3
  <2>4. CASE i # n
    <3>1. Before(runList[i], LastEntry)
      BY <1>1, <2>1, <2>4 DEF FilesInv, RunListSorted
    <3> QED
      BY <3>1, <1>1, <2>2, BeforeTransitive
  <2> QED
    BY <2>3, <2>4
<1>4. ASSUME NEW i \in 1..(n + 1), NEW j \in 1..(n + 1), i < j
      PROVE  Before(runList'[i], runList'[j])
  <2>1. i \in 1..n /\ (j = n + 1 \/ j \in 1..n)
    BY <1>1, <1>4
  <2>2. CASE j = n + 1
    BY <1>2, <1>3, <2>1, <2>2
  <2>3. CASE j \in 1..n
    <3>1. Before(runList[i], runList[j])
      BY <1>4, <2>1, <2>3 DEF FilesInv, RunListSorted
    <3> QED
      BY <3>1, <1>2, <2>1, <2>3
  <2> QED
    BY <2>1, <2>2, <2>3
<1>5. RunListSorted'
  <2> HIDE DEF n
  <2>1. \A i, j \in 1..Len(runList)' : i < j => Before(runList'[i], runList'[j])
    BY <1>2, <1>4
  <2> QED
    BY <2>1 DEF RunListSorted, Before
<1>6. LastEntry' = Current
  <2>1. runList' # <<>>
    BY <1>1, <1>2, EmptySeq
  <2> QED
    BY <1>2, <2>1 DEF LastEntry
<1>7. ASSUME NEW f \in files'
      PROVE  \E i \in 1..Len(runList') : runList'[i] = f.name
  <2>1. CASE f.name = Current
    <3>1. n + 1 \in 1..Len(runList')
      BY <1>1, <1>2
    <3> QED
      BY <1>2, <2>1, <3>1
  <2>2. CASE f.name # Current
    <3>1. PICK i \in 1..n : runList[i] = f.name
      BY <1>1, <2>2 DEF FilesInv
    <3>2. i \in 1..Len(runList')
      BY <1>1, <1>2
    <3> QED
      BY <1>2, <3>1, <3>2
  <2> QED
    BY <2>1, <2>2
<1> QED
  BY <1>5, <1>6, <1>7

LEMMA FilesInvStep ==
  ASSUME CrashAnywhere = FALSE
  PROVE  FilesInv /\ [Next]_vars => FilesInv'
<1> SUFFICES ASSUME FilesInv, [Next]_vars, ~listFailed'
             PROVE  FilesInv'
  BY TypeStep DEF FilesInv, RunListSorted
<1> USE DEF memory, disk, history
<1>1. TypeOK /\ TypeOK' /\ ~listFailed
  BY TypeStep, ListFailedStays DEF FilesInv
<1>2. /\ run \in Nat /\ subrun \in Nat
      /\ LastEntry \in Labels /\ Current \in Labels
  BY <1>1, LastEntryType, CurrentType DEF TypeOK
(* Steps that leave the run list and the finished files alone. *)
<1>3. ASSUME runList' = runList, files' = files, CurrentFollowsRunList',
             at = "renamed" => at' = "renamed" /\ Current' = Current
      PROVE  FilesInv'
  <2>1. RunListSorted'
    BY <1>1, <1>3 DEF FilesInv, RunListSorted, Before
  <2> QED
    BY <1>1, <1>3, <2>1 DEF FilesInv
(* Steps within the same subrun. *)
<1>4. ASSUME runList' = runList, run' = run, subrun' = subrun, cfg' = cfg
      PROVE  LastEntry' = LastEntry /\ Current' = Current
  BY <1>4 DEF LastEntry, Current
<1>5. ASSUME runList' = runList, run' = run, subrun' = subrun, cfg' = cfg,
             at \notin {"down", "closed"}, at' # "closed"
      PROVE  CurrentFollowsRunList'
  BY <1>1, <1>4, <1>5 DEF FilesInv, CurrentFollowsRunList, Before
<1>6. CASE CreateFactory
  <2>1. LastEntry' = LastEntry
    BY <1>6 DEF CreateFactory, LastEntry
  <2>2. /\ Current'.run = LastEntry.run + 1
        /\ LastEntry.run \in Nat
    BY <1>2, <1>6 DEF CreateFactory, Current, Label, Labels
  <2>3. CurrentFollowsRunList'
    BY <1>6, <2>1, <2>2 DEF CreateFactory, StartFile, CurrentFollowsRunList, Before
  <2> QED
    BY <1>3, <1>6, <2>3 DEF CreateFactory
<1>7. CASE DefineNewRun
  <2>1. LastEntry' = LastEntry /\ LastEntry = Current
    BY <1>1, <1>7 DEF DefineNewRun, LastEntry, FilesInv, CurrentFollowsRunList
  <2>2. Current'.run = run + 1 /\ Current.run = run
    BY <1>7 DEF DefineNewRun, Current, Label
  <2>3. CurrentFollowsRunList'
    BY <1>2, <1>7, <2>1, <2>2
    DEF DefineNewRun, StartFile, CurrentFollowsRunList, Before
  <2> QED
    BY <1>3, <1>7, <2>3 DEF DefineNewRun
<1>8. CASE Fill
  <2>1. at = "open" /\ at' \in {"open", "finishing"}
    BY <1>8 DEF Fill
  <2> QED
    BY <1>3, <1>5, <1>8, <2>1 DEF Fill
<1>9. ASSUME NEW why \in {"stop", "rotate", "quit"}, Finish(why)
      PROVE  FilesInv'
  BY <1>3, <1>5, <1>9 DEF Finish
<1>10. CASE WriteEvents
  BY <1>3, <1>5, <1>10 DEF WriteEvents
<1>11. CASE WriteMetadata
  BY <1>3, <1>5, <1>11 DEF WriteMetadata
<1>12. CASE Rename
  <2>1. CurrentFollowsRunList' /\ Current' = Current
    BY <1>4, <1>5, <1>12 DEF Rename
  <2>2. RunListSorted'
    BY <1>1, <1>12 DEF Rename, FilesInv, RunListSorted, Before
  <2>3. ASSUME NEW f \in files'
        PROVE  \/ \E i \in 1..Len(runList') : runList'[i] = f.name
               \/ at' = "renamed" /\ f.name = Current'
    <3>1. CASE f \in files
      BY <1>1, <1>12, <3>1 DEF Rename, FilesInv
    <3>2. CASE f \notin files
      BY <1>12, <2>1, <3>2 DEF Rename
    <3> QED
      BY <3>1, <3>2
  <2> QED
    BY <1>1, <2>1, <2>2, <2>3 DEF FilesInv
<1>13. CASE RenameFails
  BY <1>3, <1>5, <1>13 DEF RenameFails
<1>14. CASE RegisterFile
  <2>1. CurrentFollowsRunList'
    <3>1. LastEntry' = Current
      BY <1>1, <1>14, RegisterStep
    <3>2. CASE then = "rotate"
      <4>1. at' = "open" /\ run' = run /\ subrun' = subrun + 1
        BY <1>14, <3>2 DEF RegisterFile, Proceed, StartFile
      <4>2. Before(Current, Current')
        BY <1>2, <4>1 DEF Before, Current, Label
      <4> QED
        BY <3>1, <4>1, <4>2 DEF CurrentFollowsRunList, Before
    <3>3. CASE then # "rotate"
      <4>1. at' \in {"closed", "down"} /\ Current' = Current
        BY <1>14, <3>3 DEF RegisterFile, Proceed, Current
      <4> QED
        BY <3>1, <4>1 DEF CurrentFollowsRunList
    <3> QED
      BY <3>2, <3>3
  <2> QED
    BY <1>1, <1>14, <2>1, RegisterStep DEF FilesInv
<1>15. CASE QuitWhileStopped
  <2>1. CurrentFollowsRunList'
    BY <1>15 DEF QuitWhileStopped, CurrentFollowsRunList
  <2> QED
    BY <1>3, <1>15, <2>1 DEF QuitWhileStopped
<1>16. CASE Crash
  <2>1. CurrentFollowsRunList'
    BY <1>16 DEF Crash, CurrentFollowsRunList
  <2> QED
    BY <1>3, <1>16, <2>1 DEF Crash
<1>17. CASE UNCHANGED vars
  <2>1. CurrentFollowsRunList' /\ Current' = Current
    BY <1>1, <1>4, <1>17 DEF vars, FilesInv, CurrentFollowsRunList, Before
  <2> QED
    BY <1>3, <1>17, <2>1 DEF vars
<1> QED
  BY <1>6, <1>7, <1>8, <1>9, <1>10, <1>11, <1>12, <1>13, <1>14, <1>15, <1>16, <1>17
  DEF Next

-----------------------------------------------------------------------------
(* The theorems, as long as no crash falls between rename() and            *)
(* RegisterFile(), and while the run list can be read and written.         *)

(* The label being written always follows the whole run list. *)
THEOREM FilesInvariant ==
  ASSUME CrashAnywhere = FALSE
  PROVE  Spec => []FilesInv
BY FilesInvInit, FilesInvStep, PTL DEF Spec

(* The run list is sorted: no run and subrun is used twice. *)
THEOREM RunListStaysSorted ==
  ASSUME CrashAnywhere = FALSE
  PROVE  Spec => []RunListSorted
<1>1. FilesInv => RunListSorted
  BY DEF FilesInv
<1> QED
  BY <1>1, FilesInvariant, PTL

(* No finished file is missing in the run list. *)
THEOREM FinishedFilesRegistered ==
  ASSUME CrashAnywhere = FALSE
  PROVE  Spec => []FilesRegistered
<1>1. FilesInv => FilesRegistered
  BY DEF FilesInv, FilesRegistered
<1> QED
  BY <1>1, FilesInvariant, PTL

(* rename() never meets a file of the name it is given, so a finished file *)
(* stays as it is, whatever is started, stopped, rotated, crashed and      *)
(* started again.                                                          *)
THEOREM FilesStay ==
  ASSUME CrashAnywhere = FALSE
  PROVE  Spec => FilesNeverReplaced
<1>1. FilesInv /\ [Next]_vars => [~listFailed => files \subseteq files']_files
  <2> SUFFICES ASSUME FilesInv, [Next]_vars, ~listFailed
               PROVE  files \subseteq files'
    OBVIOUS
  <2>1. CASE Rename
    <3>1. \A f \in files : f.name # Current
      BY <2>1, NameIsFree DEF Rename
    <3> QED
      BY <2>1, <3>1 DEF Rename
  <2>2. CASE ~Rename
    BY <2>2
    DEF Next, vars, memory, disk, history, CreateFactory, DefineNewRun, Fill,
        Finish, WriteEvents, WriteMetadata, RenameFails, RegisterFile,
        QuitWhileStopped, Crash
  <2> QED
    BY <2>1, <2>2
<1> QED
  BY <1>1, FilesInvariant, PTL DEF Spec, FilesNeverReplaced

-----------------------------------------------------------------------------
(* Where the events are.                                                   *)

LEMMA AccountedInit == Init => EventsAccounted
<1> SUFFICES ASSUME Init PROVE EventsAccounted
  OBVIOUS
<1>1. filled = <<>> /\ Len(filled) = 0
  BY EmptySeq DEF Init
<1>2. OnDisk = {}
  BY DEF Init, OnDisk, EmptyFile
<1>3. 1..Len(filled) = {}
  BY <1>1
<1> QED
  BY <1>2, <1>3 DEF Init, EventsAccounted

(* Steps that keep the contents of the disk and what else is counted. *)
LEMMA AccountedUnchanged ==
  ASSUME EventsAccounted, ~listFailed, temp'.events = temp.events,
         files' = files, filled' = filled, buffer' = buffer, lost' = lost
  PROVE  EventsAccounted'
<1>1. OnDisk' = OnDisk
  BY DEF OnDisk
<1> QED
  BY <1>1 DEF EventsAccounted

(* Only a file that is open, or is being finished, has a buffer. *)
BufferInv == at \notin {"open", "finishing"} => buffer = {}

LEMMA BufferStep == BufferInv /\ [Next]_vars => BufferInv'
BY DEF BufferInv, Next, vars, memory, disk, history, CreateFactory, DefineNewRun,
       Fill, Finish, WriteEvents, WriteMetadata, Rename, RenameFails,
       RegisterFile, Proceed, StartFile, QuitWhileStopped, Crash

LEMMA AccountedStep ==
  FilesInv /\ BufferInv /\ EventsAccounted /\ [Next]_vars => EventsAccounted'
<1> SUFFICES ASSUME FilesInv, BufferInv, EventsAccounted, [Next]_vars,
                    ~listFailed'
             PROVE  EventsAccounted'
  BY DEF EventsAccounted
<1> USE DEF memory, disk, history
<1> ~listFailed
  BY ListFailedStays
<1>1. /\ TypeOK /\ temp \in Content
      /\ \A f \in files : f.content \in Content
  BY DEF FilesInv, TypeOK
<1>2. CASE CreateFactory
  BY <1>2, AccountedUnchanged DEF CreateFactory, StartFile, BufferInv
<1>3. CASE DefineNewRun
  BY <1>3, AccountedUnchanged DEF DefineNewRun, StartFile, BufferInv
<1>4. CASE Fill
  <2> DEFINE e == Len(filled) + 1
  <2>1. /\ filled \in Seq(Labels) /\ Len(filled) \in Nat /\ Current \in Labels
        /\ filled' = Append(filled, Current) /\ files' = files /\ lost' = lost
    BY <1>1, <1>4, CurrentType, LenProperties DEF Fill, TypeOK
  <2>2. Len(filled') = e
    BY <2>1, AppendProperties
  <2>3. 1..Len(filled') = (1..Len(filled)) \cup {e} /\ e \notin 1..Len(filled)
    BY <2>1, <2>2
  <2>4. e \notin buffer \cup OnDisk \cup lost
    BY <2>3 DEF EventsAccounted
  <2>5. \/ temp'.events = temp.events \cup buffer \cup {e} /\ buffer' = {}
        \/ temp'.events = temp.events /\ buffer' = buffer \cup {e}
    <3>1. CASE (Entries + 1) % AutoSaveEvery = 0
      BY <1>1, <1>4, <3>1 DEF Fill, Content
    <3>2. CASE (Entries + 1) % AutoSaveEvery # 0
      BY <1>4, <3>2 DEF Fill
    <3> QED
      BY <3>1, <3>2
  <2> HIDE DEF e
  <2>6. buffer' \cup OnDisk' \cup lost' = (buffer \cup OnDisk \cup lost) \cup {e}
    BY <2>1, <2>5 DEF OnDisk
  <2>7. 1..Len(filled)' = buffer' \cup OnDisk' \cup lost'
    BY <2>3, <2>6 DEF EventsAccounted
  <2>8. buffer' \cap (OnDisk' \cup lost') = {} /\ OnDisk' \cap lost' = {}
    BY <2>1, <2>4, <2>5 DEF OnDisk, EventsAccounted
  <2>9. \A f \in files' :
          /\ f.content.events \cap temp'.events = {}
          /\ \A g \in files' : f = g \/ f.content.events \cap g.content.events = {}
    BY <2>1, <2>4, <2>5 DEF OnDisk, EventsAccounted
  <2> QED
    BY <2>7, <2>8, <2>9 DEF EventsAccounted
<1>5. ASSUME NEW why \in {"stop", "rotate", "quit"}, Finish(why)
      PROVE  EventsAccounted'
  BY <1>5, AccountedUnchanged DEF Finish
<1>6. CASE WriteEvents
  <2>1. /\ temp'.events = temp.events \cup buffer /\ buffer' = {}
        /\ files' = files /\ filled' = filled /\ lost' = lost
    BY <1>1, <1>6 DEF WriteEvents, Content
  <2>2. OnDisk' = OnDisk \cup buffer
    BY <2>1 DEF OnDisk
  <2>3. \A f \in files : f.content.events \cap buffer = {}
    BY DEF EventsAccounted, OnDisk
  <2>4. 1..Len(filled)' = buffer' \cup OnDisk' \cup lost'
    BY <2>1, <2>2 DEF EventsAccounted
  <2>5. buffer' \cap (OnDisk' \cup lost') = {} /\ OnDisk' \cap lost' = {}
    BY <2>1, <2>2 DEF EventsAccounted
  <2>6. \A f \in files' :
          /\ f.content.events \cap temp'.events = {}
          /\ \A g \in files' : f = g \/ f.content.events \cap g.content.events = {}
    BY <2>1, <2>3 DEF EventsAccounted
  <2> QED
    BY <2>4, <2>5, <2>6 DEF EventsAccounted
<1>7. CASE WriteMetadata
  BY <1>1, <1>7, AccountedUnchanged DEF WriteMetadata, Content
<1>8. CASE Rename
  <2> DEFINE new == [name |-> Current, content |-> temp]
  <2>1. files' = files \cup {new}
    BY <1>8, NameIsFree DEF Rename
  <2>2. /\ temp'.events = {} /\ new.content = temp
        /\ filled' = filled /\ buffer' = buffer /\ lost' = lost
    BY <1>8 DEF Rename, EmptyFile
  <2> HIDE DEF new
  <2>3. OnDisk' = OnDisk
    BY <2>1, <2>2 DEF OnDisk
  <2>4. ASSUME NEW f \in files'
        PROVE  /\ f.content.events \cap temp'.events = {}
               /\ \A g \in files' : f = g \/ f.content.events \cap g.content.events = {}
    BY <2>1, <2>2 DEF EventsAccounted
  <2> QED
    BY <2>2, <2>3, <2>4 DEF EventsAccounted
<1>9. CASE RenameFails
  BY <1>9, AccountedUnchanged DEF RenameFails
<1>10. CASE RegisterFile
  BY <1>10, AccountedUnchanged DEF RegisterFile, Proceed, StartFile, BufferInv
<1>11. CASE QuitWhileStopped
  BY <1>11, AccountedUnchanged DEF QuitWhileStopped
<1>12. CASE Crash
  <2>1. /\ OnDisk' = OnDisk /\ temp' = temp /\ files' = files /\ filled' = filled
        /\ buffer' = {} /\ lost' = lost \cup buffer
    BY <1>12 DEF Crash, OnDisk
  <2> QED
    BY <2>1 DEF EventsAccounted
<1>13. CASE UNCHANGED vars
  BY <1>13, AccountedUnchanged DEF vars
<1> QED
  BY <1>2, <1>3, <1>4, <1>5, <1>6, <1>7, <1>8, <1>9, <1>10, <1>11, <1>12, <1>13
  DEF Next

(* Every event that was filled is in memory, in the temporary file or in   *)
(* one finished file, and only a crash takes one, from memory.             *)
THEOREM NoSavedEventIsLost ==
  ASSUME CrashAnywhere = FALSE
  PROVE  Spec => []EventsAccounted
<1>1. Init => BufferInv
  BY DEF Init, BufferInv
<1> QED
  BY <1>1, AccountedInit, BufferStep, AccountedStep, FilesInvariant, PTL DEF Spec

-----------------------------------------------------------------------------
(* Which labels a file has.                                                *)

Writing == at \in {"open", "finishing", "written"}

(* An event in the temporary file has its label there, unless it is of the *)
(* run and subrun whose label is still to be written.                      *)
LabelsInv ==
  crashes = 0 =>
    /\ at \notin {"open", "finishing"} => buffer = {}
    /\ \A e \in temp.events \cup buffer :
         /\ e \in 1..Len(filled)
         /\ filled[e] \in temp.metadata \/ (Writing /\ filled[e] = Current)
    /\ at = "saved" => Current \in temp.metadata
    /\ \A f \in files :
         /\ f.name \in f.content.metadata
         /\ \A e \in f.content.events :
              e \in 1..Len(filled) /\ filled[e] \in f.content.metadata

LEMMA LabelsInit == Init => LabelsInv
BY DEF Init, LabelsInv, EmptyFile

LEMMA LabelsStep == TypeOK /\ LabelsInv /\ [Next]_vars => LabelsInv'
<1> SUFFICES ASSUME TypeOK, LabelsInv, [Next]_vars, crashes' = 0
             PROVE  LabelsInv'
  BY DEF LabelsInv
<1> USE DEF memory, disk, history
<1>1. crashes = 0
  <2>1. CASE Crash
    BY <2>1 DEF Crash, TypeOK
  <2>2. CASE ~Crash
    BY <2>2 DEF Next, vars, CreateFactory, DefineNewRun, Fill, Finish, WriteEvents,
                WriteMetadata, Rename, RenameFails, RegisterFile, QuitWhileStopped
  <2> QED
    BY <2>1, <2>2
<1>2. /\ temp \in Content /\ filled \in Seq(Labels) /\ Len(filled) \in Nat
      /\ \A f \in files : f.content \in Content
  BY LenProperties DEF TypeOK
<1>3. CASE CreateFactory
  BY <1>1, <1>3 DEF CreateFactory, StartFile, LabelsInv, Writing
<1>4. CASE DefineNewRun
  BY <1>1, <1>4 DEF DefineNewRun, StartFile, LabelsInv, Writing
<1>5. CASE Fill
  <2> DEFINE n == Len(filled) + 1
  <2>1. /\ filled' = Append(filled, Current) /\ Current \in Labels /\ Current' = Current
        /\ files' = files /\ at = "open" /\ at' \in {"open", "finishing"}
    BY <1>5, CurrentType DEF Fill, Current
  <2>2. /\ Len(filled') = n /\ filled'[n] = Current
        /\ \A e \in 1..Len(filled) : e \in 1..n /\ filled'[e] = filled[e]
    BY <1>2, <2>1, AppendProperties
  <2>3. n \in 1..n
    BY <1>2
  <2>4. temp'.metadata = temp.metadata
    BY <1>2, <1>5 DEF Fill, Content
  <2>5. temp'.events \cup buffer' = temp.events \cup buffer \cup {n}
    <3>1. CASE (Entries + 1) % AutoSaveEvery = 0
      BY <1>2, <1>5, <3>1 DEF Fill, Content
    <3>2. CASE (Entries + 1) % AutoSaveEvery # 0
      BY <1>5, <3>2 DEF Fill
    <3> QED
      BY <3>1, <3>2
  <2> HIDE DEF n
  <2>6. \A e \in temp'.events \cup buffer' :
          /\ e \in 1..Len(filled')
          /\ filled'[e] \in temp'.metadata \/ filled'[e] = Current'
    BY <1>1, <2>1, <2>2, <2>3, <2>4, <2>5 DEF LabelsInv
  <2>7. \A f \in files' :
          /\ f.name \in f.content.metadata
          /\ \A e \in f.content.events :
               e \in 1..Len(filled') /\ filled'[e] \in f.content.metadata
    BY <1>1, <2>1, <2>2 DEF LabelsInv
  <2> QED
    BY <2>1, <2>6, <2>7 DEF LabelsInv, Writing
<1>6. ASSUME NEW why \in {"stop", "rotate", "quit"}, Finish(why)
      PROVE  LabelsInv'
  BY <1>1, <1>6 DEF Finish, LabelsInv, Writing, Current
<1>7. CASE WriteEvents
  <2>1. temp'.events = temp.events \cup buffer /\ temp'.metadata = temp.metadata
    BY <1>2, <1>7 DEF WriteEvents, Content
  <2> QED
    BY <1>1, <1>7, <2>1 DEF WriteEvents, LabelsInv, Writing, Current
<1>8. CASE WriteMetadata
  <2>1. temp'.events = temp.events /\ temp'.metadata = temp.metadata \cup {Current}
    BY <1>2, <1>8 DEF WriteMetadata, Content
  <2> QED
    BY <1>1, <1>8, <2>1 DEF WriteMetadata, LabelsInv, Writing, Current
<1>9. CASE Rename
  <2>1. /\ temp'.events = {} /\ buffer' = buffer /\ filled' = filled
        /\ at = "saved" /\ at' = "renamed"
    BY <1>9 DEF Rename, EmptyFile
  <2>2. \A f \in files' : f \in files \/ f = [name |-> Current, content |-> temp]
    BY <1>9 DEF Rename
  <2>3. \A f \in files' :
          /\ f.name \in f.content.metadata
          /\ \A e \in f.content.events :
               e \in 1..Len(filled') /\ filled'[e] \in f.content.metadata
    BY <1>1, <2>1, <2>2 DEF LabelsInv, Writing
  <2> QED
    BY <1>1, <2>1, <2>3 DEF LabelsInv
<1>10. CASE RenameFails
  BY <1>1, <1>10 DEF RenameFails, LabelsInv, Writing
<1>11. CASE RegisterFile
  BY <1>1, <1>11 DEF RegisterFile, Proceed, StartFile, LabelsInv, Writing
<1>12. CASE QuitWhileStopped
  BY <1>1, <1>12 DEF QuitWhileStopped, LabelsInv, Writing
<1>13. CASE Crash
  BY <1>1, <1>13 DEF Crash
<1>14. CASE UNCHANGED vars
  BY <1>1, <1>14 DEF vars, LabelsInv, Writing, Current
<1> QED
  BY <1>3, <1>4, <1>5, <1>6, <1>7, <1>8, <1>9, <1>10, <1>11, <1>12, <1>13, <1>14
  DEF Next

(* A finished file has the labels of all runs and subruns whose events it  *)
(* holds, its own and those of the files that could not be renamed.        *)
THEOREM FilesAreLabelled == Spec => []EventsLabelled
<1>1. LabelsInv => EventsLabelled
  BY DEF LabelsInv, EventsLabelled
<1> QED
  BY <1>1, TypeInit, TypeStep, LabelsInit, LabelsStep, PTL DEF Spec

-----------------------------------------------------------------------------
(* The transfer script.  It only reads the data directory, so what is proved *)
(* above carries over; what it copies stays true because a finished file is  *)
(* never replaced.                                                           *)

(* The program beside the script is the program alone. *)
LEMMA TransferStep == [TransferNext]_transferVars => [Next]_vars
BY DEF TransferNext, transferVars

LEMMA FilesInvStays ==
  ASSUME CrashAnywhere = FALSE, FilesInv, [TransferNext]_transferVars
  PROVE  FilesInv'
BY TransferStep, FilesInvStep

(* No step takes a file from the two directories. *)
LEMMA FilesGrow ==
  ASSUME FilesInv, ~listFailed, [TransferNext]_transferVars
  PROVE  files \subseteq files'
<1>1. [Next]_vars
  BY TransferStep
<1>2. CASE Rename
  <2>1. \A f \in files : f.name # Current
    BY <1>2, NameIsFree DEF Rename
  <2> QED
    BY <1>2, <2>1 DEF Rename
<1>3. CASE ~Rename
  BY <1>1, <1>3
  DEF Next, vars, memory, disk, history, CreateFactory, DefineNewRun, Fill,
      Finish, WriteEvents, WriteMetadata, RenameFails, RegisterFile,
      QuitWhileStopped, Crash
<1> QED
  BY <1>2, <1>3

(* And no name leaves them, even where a file is replaced. *)
LEMMA NamesGrow ==
  ASSUME FilesInv, [TransferNext]_transferVars
  PROVE  Names \subseteq Names'
<1>1. CASE Rename
  <2>1. ASSUME NEW f \in files
        PROVE  \E g \in files' : g.name = f.name
    <3>1. CASE f.name = Current
      <4> DEFINE new == [name |-> Current, content |-> temp]
      <4>1. new \in files' /\ new.name = f.name
        BY <1>1, <3>1 DEF Rename
      <4> QED
        BY <4>1
    <3>2. CASE f.name # Current
      BY <1>1, <3>2 DEF Rename
    <3> QED
      BY <3>1, <3>2
  <2> QED
    BY <2>1 DEF Names
<1>2. CASE ~Rename
  <2>1. files' = files
    BY <1>2, TransferStep
    DEF Next, vars, memory, disk, history, CreateFactory, DefineNewRun, Fill,
        Finish, WriteEvents, WriteMetadata, RenameFails, RegisterFile,
        QuitWhileStopped, Crash
  <2> QED
    BY <2>1 DEF Names
<1> QED
  BY <1>1, <1>2

LEMMA NamesType == FilesInv => Names \subseteq Labels
BY DEF FilesInv, TypeOK, Names

-----------------------------------------------------------------------------
(* The script.                                                               *)

LEMMA TransferInvInit == TransferInit => TransfersComplete
<1> SUFFICES ASSUME TransferInit PROVE TransfersComplete
  OBVIOUS
<1>1. MaxScripts \in Nat
  BY TransferAssumption
<1> QED
  BY <1>1 DEF TransferInit, TransfersComplete, TransferTypeOK

(* A step of the program. *)
LEMMA ProgramStep ==
  ASSUME FilesInv, TransfersComplete, [TransferNext]_transferVars, UNCHANGED script
  PROVE  TransfersComplete'
<1>1. Names \subseteq Names'
  BY NamesGrow
<1>2. ~listFailed' => ~listFailed /\ files \subseteq files'
  BY FilesGrow, TransferStep, ListFailedStays
<1> QED
  BY <1>1, <1>2 DEF TransfersComplete, TransferTypeOK, script

LEMMA StartScriptStep ==
  ASSUME FilesInv, TransfersComplete, StartScript, UNCHANGED vars
  PROVE  TransfersComplete'
<1>1. Names' = Names /\ files' = files /\ listFailed' = listFailed
  BY DEF Names, vars, disk, history
<1>2. scripts' \in 0..MaxScripts
  BY TransferAssumption DEF StartScript, TransfersComplete, TransferTypeOK
<1> QED
  BY <1>1, <1>2, NamesType DEF TransfersComplete, TransferTypeOK, StartScript

LEMMA NextFileStep ==
  ASSUME FilesInv, TransfersComplete, NextFile, UNCHANGED vars
  PROVE  TransfersComplete'
<1>1. Names' = Names /\ files' = files /\ listFailed' = listFailed
  BY DEF Names, vars, disk, history
<1>2. PICK n \in todo :
        /\ todo' = todo \ {n}
        /\ \/ scriptAt' = "rsync" /\ file' = n
           \/ UNCHANGED <<scriptAt, file>>
  BY DEF NextFile
<1>3. n \in Names /\ n \in Labels
  BY DEF TransfersComplete, TransferTypeOK
<1> QED
  BY <1>1, <1>2, <1>3 DEF TransfersComplete, TransferTypeOK, NextFile

LEMMA RsyncStep ==
  ASSUME FilesInv, TransfersComplete, Rsync, UNCHANGED vars
  PROVE  TransfersComplete'
<1> DEFINE remoteNames == {r.name : r \in remote}
<1>1. Names' = Names /\ files' = files /\ listFailed' = listFailed
  BY DEF Names, vars, disk, history
<1>2. scriptAt = "rsync" /\ scriptAt' = "mv" /\ file \in Names
  BY DEF Rsync, TransfersComplete
<1>3. UNCHANGED <<todo, file, moved, scripts>>
  BY DEF Rsync
<1>4. CASE /\ remote' = {r \in remote : r.name # file} \cup {r \in files : r.name = file}
           /\ UNCHANGED notCopied
  <2>1. ~listFailed' => remote' \subseteq files'
    BY <1>1, <1>4 DEF TransfersComplete
  <2>2. file \in {r.name : r \in remote'}
    BY <1>2, <1>4 DEF Names
  <2>3. remoteNames \subseteq {r.name : r \in remote'}
    BY <1>4, <2>2
  <2>4. remote' \subseteq [name : Labels, content : Content]
    BY <1>4 DEF FilesInv, TypeOK, TransfersComplete, TransferTypeOK
  <2> QED
    BY <1>1, <1>2, <1>3, <1>4, <2>1, <2>2, <2>3, <2>4
    DEF TransfersComplete, TransferTypeOK
<1>5. CASE notCopied' = notCopied \cup {file} /\ UNCHANGED remote
  <2>1. file \in Labels
    BY <1>2, NamesType
  <2> QED
    BY <1>1, <1>2, <1>3, <1>5, <2>1 DEF TransfersComplete, TransferTypeOK
<1> QED
  BY <1>4, <1>5 DEF Rsync

LEMMA MoveStep ==
  ASSUME FilesInv, TransfersComplete, Move, UNCHANGED vars
  PROVE  TransfersComplete'
<1>1. Names' = Names /\ files' = files /\ listFailed' = listFailed
  BY DEF Names, vars, disk, history
<1>2. file \in Names /\ file \in Labels
  BY NamesType DEF Move, TransfersComplete
<1>3. moved' \subseteq {r.name : r \in remote} \cup (Names \cap notCopied)
  BY <1>2 DEF Move, TransfersComplete
<1> QED
  BY <1>1, <1>2, <1>3 DEF TransfersComplete, TransferTypeOK, Move

LEMMA EndScriptStep ==
  ASSUME FilesInv, TransfersComplete, EndScript, UNCHANGED vars
  PROVE  TransfersComplete'
<1>1. Names' = Names /\ files' = files /\ listFailed' = listFailed
  BY DEF Names, vars, disk, history
<1> QED
  BY <1>1 DEF TransfersComplete, TransferTypeOK, EndScript

LEMMA TransferInvStep ==
  ASSUME FilesInv, TransfersComplete, [TransferNext]_transferVars
  PROVE  TransfersComplete'
<1>1. CASE UNCHANGED script
  BY <1>1, ProgramStep
<1>2. CASE Script /\ UNCHANGED vars
  BY <1>2, StartScriptStep, NextFileStep, RsyncStep, MoveStep, EndScriptStep
  DEF Script
<1> QED
  BY <1>1, <1>2 DEF TransferNext, transferVars

-----------------------------------------------------------------------------
(* Theorems.                                                                 *)

(* transferFiles.py takes nothing from the program and gives it nothing: the *)
(* files are written as if it was never started.                             *)
THEOREM TransferImplementsFiles == TransferSpec => Spec
<1>1. TransferInit => Init
  BY DEF TransferInit
<1> QED
  BY <1>1, TransferStep, PTL DEF TransferSpec, Spec

(* Whatever the script and the program do at the same time, the label being  *)
(* written follows the whole run list, which names every finished file.      *)
THEOREM FilesInvWithScript ==
  ASSUME CrashAnywhere = FALSE
  PROVE  TransferSpec => []FilesInv
BY TransferImplementsFiles, FilesInvariant, PTL

(* While the run list can be read and written, what the storage site has is  *)
(* the finished file, and always what was moved is at the site unless its rsync failed, however the copy, the move, the end of  *)
(* a script, the end of a file and a crash of the program interleave.        *)
THEOREM TransfersStayComplete ==
  ASSUME CrashAnywhere = FALSE
  PROVE  TransferSpec => []TransfersComplete
BY TransferInvInit, TransferInvStep, FilesInvWithScript, PTL DEF TransferSpec

=============================================================================

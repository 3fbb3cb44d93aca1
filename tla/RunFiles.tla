------------------------------- MODULE RunFiles -------------------------------
(* The files of mdaq::EventFactory (src/EventFactory.cc): events are filled *)
(* into one temporary file, which is renamed to its run, subrun and         *)
(* configuration when it is finished, and entered in the run list, from     *)
(* which the next start of the program takes its run number and its         *)
(* configuration.                                                           *)
(*                                                                          *)
(* The disk (temp, files, runList) survives a crash, the rest does not.     *)
(* FinishFile() is split where a crash leaves a different disk.             *)
EXTENDS Integers, Sequences, FiniteSets

CONSTANTS
  Configs, DefaultConfig,
  AutoSaveEvery, MaxNumberEventsPerFile,
  MaxEvents, MaxRuns, MaxSubruns,      (* bounds                             *)
  MaxFiles,          (* bound: a run is started with fewer in the run list   *)
  MaxFailures,       (* bound: crashes and a run list that fails, together   *)
  CrashAnywhere      (* a crash can also fall between rename() and           *)
                     (* RegisterFile()                                       *)

ASSUME RunFilesAssumption ==
  /\ DefaultConfig \in Configs
  /\ AutoSaveEvery \in Nat \ {0} /\ MaxNumberEventsPerFile \in Nat \ {0}
  /\ MaxEvents \in Nat /\ MaxRuns \in Nat /\ MaxSubruns \in Nat
  /\ MaxFiles \in Nat /\ MaxFailures \in Nat
  /\ CrashAnywhere \in BOOLEAN

VARIABLES
  at,          (* where the program is between two steps of the EventFactory *)
  then,        (* why the file is being finished                             *)
  run, subrun, cfg,       (* meta_runNumber, meta_subrunNumber, the          *)
                          (* configuration                                   *)
  buffer,      (* entries of the tree that only memory has                   *)
  temp,        (* the temporary file                                         *)
  files,       (* the files in the destination directory                     *)
  runList,     (* /var/log/MilliDAQ_RunList.log                              *)
  filled,      (* filled[e]: the label under which event e was recorded      *)
  lost,        (* events a crash took from memory                            *)
  crashes,
  listFailed   (* the run list could not be opened or written once           *)

memory == <<at, then, run, subrun, cfg, buffer>>
disk == <<temp, files, runList>>
history == <<filled, lost, crashes, listFailed>>
vars == <<memory, disk, history>>

Label(r, s, c) == [run |-> r, subrun |-> s, cfg |-> c]

Labels == [run : Nat, subrun : Nat, cfg : Configs]

(* The label of the file being written: it becomes the name of the file,   *)
(* the entry of the run list and the entry of the metadata tree.           *)
Current == Label(run, subrun, cfg)

(* What is in a file: the events of its tree and the labels of its         *)
(* metadata tree.  A file without trees is like no file to StartFile().    *)
EmptyFile == [events |-> {}, metadata |-> {}]

(* What GetPreviousRunNumber() and GetPreviousConfigurationFile() find in  *)
(* the run list: its last entry, or nothing, also if it cannot be opened.  *)
NoEntry == Label(0, 0, DefaultConfig)

LastEntry == IF runList = <<>> THEN NoEntry ELSE runList[Len(runList)]

Entries == Cardinality(temp.events \cup buffer)

Init ==
  /\ at = "down" /\ then = "stop"
  /\ run = 0 /\ subrun = 0 /\ cfg = DefaultConfig
  /\ buffer = {}
  /\ temp = EmptyFile /\ files = {} /\ runList = <<>>
  /\ filled = <<>> /\ lost = {} /\ crashes = 0 /\ listFailed = FALSE

(* The run list fails once, the program crashes; the bound is on both.     *)
Failures == crashes + (IF listFailed THEN 1 ELSE 0)

ListMayFail == ~listFailed /\ Failures < MaxFailures

-----------------------------------------------------------------------------
(* Opening a file.                                                         *)

(* Mutant: TFile is opened with "RECREATE". *)
StartFileAnew ==
  /\ at' = "open"
  /\ buffer' = {}
  /\ temp' = EmptyFile

(* TFile "UPDATE": what is left in the temporary file stays in it. *)
StartFile ==
  /\ at' = "open"
  /\ buffer' = {}
  /\ UNCHANGED temp

(* Mutant: the constructor without IterateRunNumber(). *)
CreateFactoryInSameRun ==
  /\ at = "down"
  /\ run' = LastEntry.run /\ subrun' = 1 /\ cfg' = LastEntry.cfg
  /\ StartFile
  /\ UNCHANGED <<then, files, runList, history>>

(* The list is read twice, for the configuration and for the number.       *)
CreateFactory ==
  /\ at = "down" /\ Len(runList) < MaxFiles
  /\ \E last \in {LastEntry, NoEntry} :
       /\ last # LastEntry => ListMayFail
       /\ last.run < MaxRuns
       /\ run' = last.run + 1 /\ subrun' = 1
       /\ listFailed' = (listFailed \/ last # LastEntry)
       /\ cfg' = last.cfg
  /\ StartFile
  /\ UNCHANGED <<then, files, runList, filled, lost, crashes>>

(* The run goes on after a stop, with the configuration of the DAQ. *)
DefineNewRun ==
  /\ at = "closed" /\ run < MaxRuns /\ Len(runList) < MaxFiles
  /\ cfg' \in Configs
  /\ run' = run + 1 /\ subrun' = 1
  /\ StartFile
  /\ UNCHANGED <<then, files, runList, history>>

-----------------------------------------------------------------------------
(* Filling events.                                                         *)

(* An event that passed the filters: TTree::Fill() saves the tree every    *)
(* AutoSaveEvery entries, and a full file is rotated.                      *)
Fill ==
  LET e == Len(filled) + 1 IN
  /\ at = "open" /\ e <= MaxEvents
  /\ filled' = Append(filled, Current)
  /\ IF (Entries + 1) % AutoSaveEvery = 0
       THEN /\ temp' = [temp EXCEPT !.events = @ \cup buffer \cup {e}]
            /\ buffer' = {}
       ELSE /\ buffer' = buffer \cup {e}
            /\ UNCHANGED temp
  /\ IF Entries + 1 >= MaxNumberEventsPerFile
       THEN subrun < MaxSubruns /\ at' = "finishing" /\ then' = "rotate"
       ELSE UNCHANGED <<at, then>>
  /\ UNCHANGED <<run, subrun, cfg, files, runList, lost, crashes, listFailed>>

(* A stop of the run, a rotate command or a quit finishes the open file. *)
Finish(why) ==
  /\ at = "open" /\ at' = "finishing"
  /\ why = "rotate" => subrun < MaxSubruns
  /\ then' = why
  /\ UNCHANGED <<run, subrun, cfg, buffer, disk, history>>

-----------------------------------------------------------------------------
(* FinishFile().                                                           *)

(* The events in memory are written to the file. *)
WriteEvents ==
  /\ at = "finishing" /\ at' = "written"
  /\ temp' = [temp EXCEPT !.events = @ \cup buffer]
  /\ buffer' = {}
  /\ UNCHANGED <<then, run, subrun, cfg, files, runList, history>>

(* Mutant: the subrun is advanced before the file is finished. *)
WriteMetadataOfNextSubrun ==
  /\ at = "written" /\ at' = "saved"
  /\ subrun' = IF then = "rotate" THEN subrun + 1 ELSE subrun
  /\ temp' = [temp EXCEPT !.metadata = @ \cup {Label(run, subrun', cfg)}]
  /\ UNCHANGED <<then, run, cfg, buffer, files, runList, history>>

(* The label is added to the metadata tree and the file is closed. *)
WriteMetadata ==
  /\ at = "written" /\ at' = "saved"
  /\ temp' = [temp EXCEPT !.metadata = @ \cup {Current}]
  /\ UNCHANGED <<then, run, subrun, cfg, buffer, files, runList, history>>

(* rename() replaces a file that has the name already.  Two configurations *)
(* have different names here, as their files do in config/.                *)
Rename ==
  /\ at = "saved" /\ at' = "renamed"
  /\ files' = {f \in files : f.name # Current}
                \cup {[name |-> Current, content |-> temp]}
  /\ temp' = EmptyFile
  /\ UNCHANGED <<then, run, subrun, cfg, buffer, runList, history>>

(* "continuing with temporary file" *)
RenameFails ==
  /\ at = "saved" /\ at' = "renamed"
  /\ UNCHANGED <<then, run, subrun, cfg, buffer, disk, history>>

(* What follows FinishFile(): RotateFile() opens the next subrun, the      *)
(* writer waits for the next run, or the program ends.                     *)
Proceed ==
  IF then = "rotate"
    THEN subrun' = subrun + 1 /\ StartFile
    ELSE /\ at' = IF then = "stop" THEN "closed" ELSE "down"
         /\ UNCHANGED <<subrun, buffer, temp>>

(* The file is registered also when it was not renamed.  Whether the list  *)
(* could be opened and written is not looked at.                           *)
RegisterFile ==
  /\ at = "renamed"
  /\ \/ runList' = Append(runList, Current) /\ UNCHANGED listFailed
     \/ ListMayFail /\ UNCHANGED runList /\ listFailed' = TRUE
  /\ Proceed
  /\ UNCHANGED <<then, run, cfg, files, filled, lost, crashes>>

-----------------------------------------------------------------------------
(* The end of the program.                                                 *)

(* ~EventFactory() when the file is finished already. *)
QuitWhileStopped ==
  /\ at = "closed" /\ at' = "down"
  /\ UNCHANGED <<then, run, subrun, cfg, buffer, disk, history>>

(* The process is killed or the machine goes down. *)
Crash ==
  /\ at # "down" /\ at' = "down"
  /\ Failures < MaxFailures /\ crashes' = crashes + 1
  /\ at = "renamed" => CrashAnywhere
  /\ lost' = lost \cup buffer
  /\ buffer' = {}
  /\ UNCHANGED <<then, run, subrun, cfg, disk, filled, listFailed>>

-----------------------------------------------------------------------------
Next ==
  \/ CreateFactory \/ DefineNewRun
  \/ Fill
  \/ \E why \in {"stop", "rotate", "quit"} : Finish(why)
  \/ WriteEvents \/ WriteMetadata \/ Rename \/ RenameFails \/ RegisterFile
  \/ QuitWhileStopped
  \/ Crash

Spec == Init /\ [][Next]_vars

-----------------------------------------------------------------------------
(* Properties.                                                             *)

Content == [events : SUBSET (1..MaxEvents), metadata : SUBSET Labels]

(* Every variable stays in its type; a run that has a factory is numbered  *)
(* from 1.1.                                                               *)
TypeOK ==
  /\ at \in {"down", "open", "finishing", "written", "saved", "renamed", "closed"}
  /\ then \in {"stop", "rotate", "quit"}
  /\ run \in Nat /\ subrun \in Nat /\ cfg \in Configs
  /\ at # "down" => run > 0 /\ subrun > 0
  /\ buffer \subseteq 1..MaxEvents
  /\ temp \in Content
  /\ files \in SUBSET [name : Labels, content : Content]
  /\ runList \in Seq(Labels)
  /\ filled \in Seq(Labels)
  /\ lost \subseteq 1..MaxEvents
  /\ crashes \in Nat
  /\ listFailed \in BOOLEAN

(* "after 7.3 the next would be 8.1" (EventFactory.cc:15): while the run   *)
(* list can be read and written, a finished file is never replaced by a    *)
(* later one, also after a crash.                                          *)
FilesNeverReplaced == [][~listFailed => files \subseteq files']_files

Before(a, b) == a.run < b.run \/ (a.run = b.run /\ a.subrun < b.subrun)

(* The run list is in the order of the runs and names no subrun twice, so  *)
(* its last entry is the one the next start has to follow.                 *)
RunListSorted ==
  ~listFailed =>
    \A i, j \in 1..Len(runList) : i < j => Before(runList[i], runList[j])

(* Every finished file is in the run list. *)
FilesRegistered ==
  ~listFailed /\ at # "renamed" =>
    \A f \in files : \E i \in 1..Len(runList) : runList[i] = f.name

(* The inductive invariant.  The label being written follows every entry   *)
(* of the run list: that is what keeps rename() from meeting a file of its *)
(* name.  It needs every finished file to be in the list, up to the one    *)
(* that was renamed a moment ago.                                          *)
CurrentFollowsRunList ==
  /\ at \notin {"down", "closed"} => Before(LastEntry, Current)
  /\ at = "closed" => LastEntry = Current

FilesInv ==
  /\ TypeOK
  /\ RunListSorted
  /\ ~listFailed =>
       /\ CurrentFollowsRunList
       /\ \A f \in files :
            \/ \E i \in 1..Len(runList) : runList[i] = f.name
            \/ at = "renamed" /\ f.name = Current

(* Every event that was filled is in exactly one place: the memory, the    *)
(* temporary file or one finished file, unless a crash took it from memory *)
(* or a run list that failed let a file be replaced.                       *)
OnDisk == temp.events \cup UNION {f.content.events : f \in files}

EventsAccounted ==
  ~listFailed =>
    /\ 1..Len(filled) = buffer \cup OnDisk \cup lost
    /\ buffer \cap (OnDisk \cup lost) = {} /\ OnDisk \cap lost = {}
    /\ \A f \in files :
         /\ f.content.events \cap temp.events = {}
         /\ \A g \in files : f = g \/ f.content.events \cap g.content.events = {}

(* A finished file has the metadata of every run and subrun whose events   *)
(* it holds, its own and those of the files that could not be renamed.     *)
EventsLabelled ==
  crashes = 0 =>
    \A f \in files :
      /\ f.name \in f.content.metadata
      /\ \A e \in f.content.events : filled[e] \in f.content.metadata
=============================================================================

# MilliDAQ in TLA+

A verification project for MilliDAQ, the data acquisition program of the
milliQan demonstrator: two CAEN V1743 digitizers are read into queues, matched
into events and written to ROOT files, under operator commands from a FIFO.

Paths are relative to the repository. Check a module with
`tlc -config <cfg> <module>`, a proof with `tlapm <module>.tla`;
`PROJECT.json` lists every run, what it expects, and which source lines each
definition translates.

## The system

| component | source | state | operations |
|---|---|---|---|
| Run control | `MilliDAQ.cc`, `interface/MilliDAQ.h` | the `User...` flags, the messages `digitizerReady`, `digitizerIsStopped`, `safeToQuit`, `currentConfigFile`, where each of three threads is | `main()` handles commands, `ReadAction()` drives the boards, `WriteAction()` drives the files |
| Interactive DAQ | `InteractiveDAQ.cc` | the same flags and messages in a program of its own | keyboard commands, the same two threads |
| Digitizer readout | `src/DAQ.cc` | handles, readout buffers, the configuration, what each board is set to | connect, configure, initialize, start, stop, read, trigger, close |
| Event queue | `interface/Queue.h`, `src/Queue.cc` | a circular buffer per board: `data`, `readIndex`, `writeIndex` | `push`, `pull`, `Destroy`, `SetEvent` |
| Event matching | `src/EventFactory.cc` | `BoardEvents`, `CurrentEvent`, the entries of the open tree | `FlushQueuesToDisk`, `PassHLT`, `PassCosmicPrescale` |
| Event time | `src/Queue.cc`, `interface/V1743Event.h` | `previousTTT`, rollover counts | `SetEvent`, `GetTTTNanoseconds` |
| Run files | `src/EventFactory.cc` | the open tree, the temporary file, the data directory, the run list | constructor, `StartFile`, `FinishFile`, `RotateFile`, `DefineNewRun`, `RegisterFile`, destructor |
| File transfer | `scripts/transferFiles.py` | a lock, the data and cool-off directories, the storage site | copy, move aside |
| Driver | `caen/A2818Drv-1.20/a2818.c` | per slave: `il_buf`, `il_buf_p`, `rx_ready`; per card: the DMA, the lists | `open`, `ioctl`, `release`, the interrupt handler, module load and unload |
| Configuration, Synchronize, DQM, Logger, HV, DAQCommand, templates | | see "Not modelled" | |

**How they interact.** `main()` stores flags; the other two threads poll them
every 5 ms to 1 s. `ReadAction()` announces "ready" and "stopped" with a flag, a
mutex and a condition variable; the writer and `main()` wait for them.
`ReadAction()` owns `theDAQ`, whose library calls reach the boards through the
driver, and pushes decoded events on one queue per board. `WriteAction()` owns
the `EventFactory`, which pulls the queues, matches, and puts events without a
match *back on the same queues*. The factory takes its configuration from
`theDAQ` and its run number from the run list, into which it enters every file
it finishes; the next start of the program reads it. `transferFiles.py` takes
finished files away while the program runs.

**What is hard.** Polled flags can be raised and lowered before a thread looks.
The messages are lowered and raised in four places. The queue is built for one
producer and is given two. A pulled event is a pointer into a slot that is free
already. A library call that fails is logged and the program goes on. A crash,
which systemd answers with a restart, can fall between two steps of finishing a
file. The driver drops its lock while a call waits, and its answers come by
polling, by interrupt or by DMA. `PROJECT.json` lists every such hazard at its
line ("hazards"), with the properties that cover it.

**What makes each component correct.**
Run control and Interactive DAQ: every command completes; commands do not fall
into a configuration; one run number and one configuration per acquisition;
boards are read only while they acquire; stop reaches the disk; quit ends the
program. Readout: a trigger is recorded by all boards or none; every event is
pushed once; boards run as configured; buffers are there when used and freed
once. Queue: it is a bounded FIFO. Matching: every event pulled is recorded,
rejected, put back or known to be lost; events recorded together are of triggers
within the matching window. Files: no saved event is lost or stored twice, no finished
file is replaced, every file says which runs its events are from. Transfer: the site
only ever has finished files. Driver: an answer reaches the call it belongs to,
nobody waits for an answer that has come, nobody waits for another's answer,
and nothing of a card is leaked. Where the code does not do all of this, the
property says when it does: see "What the code does not ensure".

## Modules

| module | is | state and actions |
|---|---|---|
| `RunControl` | the three threads of `MilliDAQ.cc` | `mainAt`, `readAt`, `writeAt` say where each thread is; one action per stretch of code between two accesses of a flag another thread writes |
| `InteractiveDAQ` | the three threads of `InteractiveDAQ.cc` | as `RunControl`; `paced` says which operator types the commands |
| `DataTaking` | what both programs promise of the boards and of the file | `acquiring`, `acquisition`, `cfg` are the boards, `file`, `run`, `label`, `recorded` the file, `pending` the events between; `inTurn` says whether the operator leaves the threads their time |
| `Readout` | `mdaq::DAQ` under the reader thread | `at` and `board` are the loop the reader is in; one action per board's share of a method, with the calls that may fail in it |
| `BoundedFIFO` | what a queue promises | `Push`, `Pull`, `Discard` |
| `EventQueue` | `mdaq::Queue` and its two users | one action per access of shared memory; the copy of an event takes time; `held` is `BoardEvents` |
| `EventMatching` | `FlushQueuesToDisk()` over two queues and two boards | `at`, `i` and `BoardEvents` are the writer; triggers, the reader and time are its environment |
| `RunFiles` | the files of `EventFactory` | `temp`, `files`, `runList` are the disk; `FinishFile()` is cut wherever a crash leaves another disk |
| `FileTransfer` | `transferFiles.py` beside `RunFiles` | `remote`, `moved` and where the script is; it may end anywhere |
| `A2818` | calls, interrupts and DMA of the driver | `pc` of each calling thread, `reply` of each slave, the card's FIFO and DMA |
| `A2818Load` | loading and unloading the driver | what is held of each card, the driver's list, `/proc` |

`MC...` modules give model values for TLC, `...Proofs` modules hold theorems.

`RunControl` and `InteractiveDAQ` implement `DataTaking` (`ImplementsDataTaking`), which has
no threads, flags or messages: no acquisition is started over another, no run opened
over another, only an open file is filled, and configurations change in
between only. With a paced operator (`inTurn`) acquisitions and runs begin in turns, one
run for each acquisition, under its configuration. The boards' configuration is `daqCfg` in
the one program and `boardCfg` in the other (where `main()` changes the one of `theDAQ` at any time); the
file's state, run and label are `factory`, `runNumber` and `factoryCfg`.

`EventQueue` implements `BoundedFIFO` (`ImplementsFIFO`), with the contents of
the slots between the indices as the abstract queue. `EventMatching` uses a
queue only as that bounded FIFO. `FileTransfer` extends `RunFiles` and implements
it: the script's steps leave what the program knows alone
(`TransferImplementsFiles`).

Definitions under a comment that begins "Mutant" are not part of the model: each
is a definition with a plausible bug, kept to show that a property
would notice it (`PROJECT.json`, "mutants").

### RunControl and InteractiveDAQ

An event is only what the properties tell apart: the acquisition that triggered
it and the configuration the boards had. `theDAQMutex` sections that touch no
flag are one action. A wait with a predicate is a guard on the predicate, since
every store that makes it true is made under the mutex and notified; the one
wait without a predicate, restart's, is a state `parked` that only a later
`notify_all` (or a spurious wake-up) ends. Commands that the handlers refuse
change nothing and are no steps.

`Paced` states what is assumed of time: the operator sends a command when both
threads have polled the flags of the last one, the two 3 s sleeps outlast those
polls (50 ms when stopped), and a timed run outlasts the threads' wake-up. It is
off in `run_control`: the safety of the messages, the boards and the files does
not depend on time. It is on in `run_control_paced`, where the properties that
need it are checked, and in `restart_hang`, which is therefore not due to an
operator in a hurry. `interactive` has both operators in one run: the variable
`paced` is chosen at the start and kept.

`InteractiveDAQ.cc` is not a copy of `MilliDAQ.cc`: `main()` reads the
configuration itself, without `theDAQMutex` (684), its reader deletes `theDAQ`
without waiting for the writer (186), and a run ends by itself after a time or a
count.

### Readout

`Try()` logs a failed call and goes on, so failure is an alternative of every
action that makes a call; `faults` keeps which call failed on which board in this
run, and the properties say what holds in spite of the faults. A board's settings
are three groups, each with the configuration it is from, or "partly" when
`InitializeBoard()` gave up in the middle. The boards are triggered between any
two actions.

### EventQueue and EventMatching

The atomics are acquire/release and no thread relies on an index read earlier
than its last release, so interleaving the accesses shows every outcome.
`Overlap` says whether the writer may put an event back while the reader pushes.
The code does nothing against it; with `Overlap = FALSE` the module shows
what the queue would guarantee, with `TRUE` what it does not.
`Destroy()` is part of the class; `MilliDAQ.cc` has its only call commented out,
so in `EventMatching` the events of one run stay queued for the next.

Trigger times are a 31 bit tag modulo `Rollover`: `SetEvent()` means to count
rollovers, but `previousTTT` starts at 0 and is stored only when the tag is below
it, so none is ever counted. Of the time an event waits only whether it has reached
`maxQueueTime` is kept (`old`). What pulses make of the filters is open; which of the
filters' results count is as in `EventFactory.cc:342`, where a filter that is disabled
lets everything pass.

`StartFile()` opens the temporary file with "UPDATE" and takes the tree it finds: after a
failed `rename()` or a crash a file is begun with the entries of the last one.
`begunWith` is their number (`LeftOver` at the start of the program). Such a file may be
at its number of events or above from its beginning, and then each further event finishes it again and
rotates, which `TypeOK` says of no other file.

### RunFiles and FileTransfer

A file is the set of events in its tree and the set of labels in its metadata
tree. Opening with "UPDATE" keeps what is left in the temporary file. A crash
takes what only memory has. `CrashAnywhere = FALSE` excludes
the crash between `rename()` and `RegisterFile()`, and nothing else. That the run list
cannot be opened, for reading (run 0.0 then, `EventFactory.cc:200`) or for writing, is not
looked at in the code; `listFailed` remembers it. Run numbers then start again or a file is in
no list, so the properties of the run list, of file names and of the events on disk hold until
it happens (`~listFailed`); `EventsLabelled` holds all the same. The
configurations are taken to have different file names without
their directories, as those of `config/` do. The result of `rsync` is not looked at
in the script, so a copy may fail and the file is moved all the same (`notCopied`); nor is
that of `mv`, so a file may stay and be transferred again.

### A2818 and A2818Load

The `SAFE_MODE` code for kernels from 2.6.11 on. What is done under `ioctl_lock` or
`Alock` without a wait is one action, except the stores of `err_comm`
that clear a buffer without `Alock`, which are three. `A2818_IOCTL_COMM` may send and receive,
only send (`in_count` is 0) or only receive, which without anything to send receives nothing
(986); every copy from or to the caller may fail. A packet is the call it answers and
its part of the answer; a slave answers when it likes, a DMA ends when it likes, and the
FIFO may be looked at too early. `spoiled` marks the slaves on which an answer may go
to another call than its own: a call on it gave up waiting (the late
answer stays for the next), used SEND, or overlapped another.
The card's count of its packets may be more than fits, and is then ignored (1214); a
packet with a wrong header ends the handling of a transfer, and what followed it is lost, which
spoils its slaves (1291).
`dmaLost` marks what `a2818_reset()` leaves behind when it ends a DMA: `DMAInProgress`
stays set and nothing is received any more.

`A2818Load` has the eight things the driver takes for a card, in order, and the error
labels that give them back. A failure on one card releases the cards before it
and the search goes on (1990). The `/proc` entry survives a failed `il_buf`, a failed
`register_chrdev()` leaves the cards held, and `ioremap()` is not checked: the
module has all three, and its properties say what holds in spite of them. `il_buf`, which
the interrupt handler writes to (1263, 1277), is allocated (1807) after the interrupt line is
requested (1778) and freed (1849) before the line is (1872): `HandlerHasWhatItUses` has that as its exception, and says that the
handler has everything else it uses, and `il_buf` too once a card is set up.

## Runs

| run | expects | shows |
|---|---|---|
| `run_control` | pass | safety of the three threads for any three commands at any moment, with spurious wake-ups, the inductive invariant of the proofs, and that the threads implement `DataTaking` |
| `run_control_paced` | pass | with a paced operator: commands complete, one number and configuration per run, stop reaches the disk, quit ends the program |
| `interactive` | pass | the other program: threads, boards, messages and file stay in step for any operator; the program implements `DataTaking`; runs carry their number and configuration, and commands complete, for a paced one |
| `readout` | pass | boards armed, read, stopped and freed together over two runs with any one call failing |
| `event_queue` | pass | the circular buffer implements a bounded FIFO, and events leave it |
| `event_matching` | pass | no event is forgotten or doubled by matching, put-back, filters and rotation; pairs are of triggers within the window |
| `run_files` | pass | files under failing renames and a crash or a run list that fails, beside two instances of the transfer script |
| `driver` | pass | answers reach their calls, no wake-up is lost, one slave does not hold up another |
| `driver_load` | pass | nothing of a card is leaked, whatever fails on whichever card; the handler has what it uses, except `il_buf` while a card is set up or given up |
| `restart_hang` | violation | restart can block `main()` for ever |
| `queue_two_producers` | violation | a put-back during a push moves `readIndex` past `writeIndex` (the effect noted at `Queue.h:120`) |
| `run_files_crash` | violation | a crash between `rename()` and `RegisterFile()` gets a finished file replaced |

Each violation is described, with the line of the repository it contradicts, in
`PROJECT.json`, "findings".

**Bounds.**

* `run_control*`: `MaxCommands = 3`: stop or an automatic stop, a start of any
  kind and one more command during it, which is every pair of consecutive
  handshakes. Two configurations: an old and a new one. `NeventsTarget = 1`, with
  the count saturating above it: below, at and above the target.
* `interactive`: the first run and three more commands of a paced operator, two of
  another; one event kind in the queues, a target of one event.
* `readout`: a master and a slave, two runs of two configurations (the slave is
  triggered by software in one of them), two triggers, one failing call: a fault
  of one run meets the next one.
* `event_queue`: `PoolSize = 3` and five events: the indices wrap, the queue is
  full and empty with every offset, and two put-backs pass each other.
* `event_matching`: two triggers in two runs, a rollover of 6 ticks, a window of 2 and
  gaps of 1, 3 and 5: both boards, one or neither have rolled over, two triggers fall into
  one window, and two look alike a rollover apart. Queues and memories of one event are full at once;
  a file of two events rotates inside a flush, and the next one is begun new or with what a
  failed `rename()` left; a start after a crash (`LeftOver`) is left to the proofs.
* `run_files`: two events, two per file, two files (`MaxFiles`), two runs of two subruns, a crash
  or a run list that fails (`MaxFailures = 1`) and two scripts: a leftover temporary file meets a rotation, a failed rename
  and a restart while a script that was cut off is followed by another.
* `driver`: two threads, one with a slave of its own choice, two calls of any kind,
  answers of one and of two packets, one failing link, count or header (`MaxLinkFails`), one
  VME interrupt.
  Three calls show nothing a pair of calls does not: a buffer is shared by two.
* `driver_load`: four cards on the bus and room for three; loaded twice.

The two limits of 10000 events are equal in the code and in the runs.

**Deadlock.** The program stops when it has quit, and the models stop when a
bound is used up, so only `event_queue` and `event_matching`, whose writer runs for ever, check it;
that nobody waits for ever is `CommandsComplete`, `StopReachesDisk`,
`QuitEndsProgram`, `EventsReadOut`, `OthersProceed` and `WaitersWake` instead.

**Fairness.** Each thread of `RunControl` and `InteractiveDAQ` is weakly fair as
a whole: it is an operating-system thread that is scheduled again. The operator
is not: taking a command is in no fairness condition. Nothing is assumed of a
wait that is never notified. The reader of `Readout` is weakly fair; that boards are
triggered is not. In `EventQueue` a push under way is finished and
the writer flushes every 50 ms (`MilliDAQ.cc:362`); nobody has to push.
In `EventMatching` the writer flushes and time passes. In `A2818` threads
that can run do and interrupts come; slaves need not answer, and the
15 s of a time-out need not pass: `WaitersWake` holds without its help.

## What the code does not ensure

Some hazards bite, and the properties are stated with the exception the code makes. They are
listed in `PROJECT.json` ("hazards") with a note; the main ones:

* commands in quick succession (`MilliDAQ.cc:671`, 769, 504): the handshakes are checked for an
  operator who leaves the threads the time to poll; for another one only the safety properties hold;
* two producers on one queue (`EventFactory.cc:298`), and a slot given back before it is read;
* events dropped by a rotation inside a flush, and those of a full temporary file that could not
  be renamed (counted as `lost` in `EventsAccounted`);
* events of one run recorded under the next (pairs of different runs);
* two triggers within the matching window are not told apart;
* a board whose own call failed is used all the same (`faults`);
* a late answer of the driver reaches the next call (`spoiled`), a DMA stopped by a reset stays
  "in progress" (`dmaLost`), and `il_buf` is missing for part of the time the interrupt line is held;
* one filter alone, HLT or cosmic prescale, filters nothing, where the comment at
  `EventFactory.cc:341` says "if enabled, apply the HLT and cosmic prescale".

## Proofs

All proofs are checked by TLAPS from the modules and the library's theorems
about sequences, functions and finite sets; the only assumptions are the named
ones about constants and the ones a theorem states itself. They hold for any sets of
commands and configurations, any number of boards and cards, any `POOL_SIZE` of two
or more, any number of events, runs, failures and crashes.

* **`RunControlProofs`**, for `Spec` without any timing: `RunControlInv` is
  inductive, and from it follow `NeverReadyAndStopped`, `ReadsOnlyWhileAcquiring`,
  `DAQOutlivesFactory`, `FileOpenWhenUsed` and `ConfigurationStable`. None of these
  is inductive alone: each needs to know where
  the threads are when a message is up (`MessagesInv`), when the boards acquire
  (`AcquiringInv`), which objects live (`LifetimeInv`), and what `main()` can be doing
  meanwhile (`HandshakeInv`). `NoCommandDuringConfiguration` needs one assumption more,
  `RestartWaitsForStop`: restart's wait returns early only spuriously,
  and then the operator's commands do overlap a configuration. Runs and acquisitions
  need an operator who leaves the threads their time and does not use `restart`
  (`PacedOperator`); then `PacedInv` is inductive: reader and writer enter the stages of a
  run together (`StagesInv`), `main()` acts between stages (`MainInv`), the acquisition is the
  run's or, while a run is being started, one ahead of it (`NumbersInv`), and the newest
  events carry the configuration held (`LabelsInv`): `RunsLabelled`.
  `ImplementsDataTaking` is a theorem without any assumption: every step is a step of `DataTaking` or
  leaves its variables alone because `RunControlInv` says where the boards and the file
  are (`AcquiringInv`, `LifetimeInv`, `FileOpenWhenUsed`), and, when the operator is paced, because `PacedInv` has the acquisition at
  the run's number or one ahead.
* **`InteractiveDAQProofs`**: `ThreadsInStep` is inductive once it says for the
  reader, the writer and the messages which stage of a run each is in
  (`ReaderInStep`, `WriterInStep`, `MessagesInStep`): it holds for the unpaced operator too.
  For the paced one `PacedInv`, the counterpart of the one in `RunControlProofs`, is
  inductive and gives `RunsLabelled`. `ImplementsDataTaking` holds for both operators, from
  `ThreadsInStep`, `PacedInv` and two small invariants more: when the boards acquire (`BoardsInv`) and
  when the file is open (`FileInv`).
* **`ReadoutProofs`**: `ReadoutInv` is inductive: for each of the loops over the boards it
  says what the boards before `board` have behind them (`Configured`, `Allocated`,
  `Armed`), with each failed call as an exception of its own board. It gives
  `BuffersFollowRun`, `RunsAsConfigured` and, as an action property, `RecordedTogether`.
  `PushesAreNew` needs `OrderInv`: what a board's memory and the undecoded buffer hold is in trigger order,
  newer than what was pushed and than the run's beginning, unless a call failed.
* **`EventQueueProofs`**, for one producer at a time (`OneProducer`: nothing is put back, or
  never during a push), which the code does not ensure: `QueueInv` is inductive (the one
  thread that pushes owns the slot at `writeIndex`, which is never the last free one),
  hence `PublishedSlotsComplete`, and every step maps to a step of `BoundedFIFO` or
  leaves its queue alone: `ImplementsFIFO`.
* **`EventMatchingProofs`**: `EventsAccounted` with what it rests on (`AccountInv`:
  no event has the number of a trigger to come, and there is an event in hand only at
  the filters) is inductive for any number of triggers and runs and any clocks:
  pulling, pairing, putting back, rotating and ending a run only move an event from one
  place to another. `MatchInv` adds that what is paired had tags in the window:
  two such tags belong to triggers closer than the window and the skew, or to times almost a
  rollover apart (`CloseTags`), hence `PairsAreOneTrigger`, with nothing assumed of the times
  between triggers; and a trigger's own tags are in the window
  unless only one clock has rolled over (`TagsOfOneTrigger`), hence `NoPartnerMissed`.
  `TypeOK` is proved too, with files begun with whatever was left over.
* **`RunFilesProofs`**, with `CrashAnywhere = FALSE`: `FilesInv` is inductive. The label being
  written comes after every entry of the run list, and every finished file is in the
  list, so `rename()` finds no file of its name: `FilesNeverReplaced`,
  `RunListSorted`, `FilesRegistered`; and so no step takes an event from the disk:
  `EventsAccounted`. These are conditional on a run list that works. `EventsLabelled` is not: it holds because a file's label is written before its name is given
  and after its events (`LabelsInv`). `TypeOK` holds with crashes anywhere.
  The composition with the script implements `RunFiles` (it only reads the data
  directory), so all this holds beside it, and `TransfersComplete` follows from
  `FilesNeverReplaced`: a name the script has copied keeps its content.
* **`A2818Proofs`**: `IInv` is inductive and gives `TypeOK` and `AnswerIsOwn`. `AnswerIsOwn` is
  about the last steps of a call; to get there one must know, for a slave that is not
  spoiled, where its answer is all the while: at most one call is on the slave (`SlaveInv`), and
  its place in the code says how far it is (`Progress`). Before the packet is sent, nothing
  of the slave is on the link (`Idle`). While it waits (`Underway`) the first packets of
  the answer are in its reply, the next ones follow in order in `i_buf` and `RXFIFO`, and the
  slave will send the others (`Coming`). When `rx_ready` is set nothing more is to come (`Arrived`),
  so the three stores that clear the buffer meet no packet. Every step of the link
  keeps that for every slave (`Kept`). The heart is `dispatch_pkt()`: delivering a transfer
  cut anywhere continues each slave's answer where it was (`Follows`, by packets:
  `DeliverFollows`, `FollowsTransitive`, `DispatchFollows`). That argument is an induction over
  the transfer, and the library's theorems on induction cannot be used (see below); it goes by
  the least packet at which it fails (`LeastIn`), from the well-foundedness of the numbers.
* **`A2818LoadProofs`**: `LoadInv` is inductive: a card being set up holds what precedes
  its step, one being given up what the error labels have not reached, the others
  all or nothing. `NothingLeaks`, `ListedSinceFailure` and `HandlerHasWhatItUses`, with its exception of `il_buf`, follow.

Only model-checked: the liveness properties (`CommandsComplete`,
`StopReachesDisk`, `QuitEndsProgram`, `EventsLeaveQueue`, `EventsLeaveQueues`,
`EventsReadOut`, `OthersProceed`, `WaitersWake`), which are outside the prover's
reach. So is induction with a library theorem whose parameter is an operator.
Every invariant and action property of a passing run is a theorem.

## Plan

Every component with state of its own and more than one actor is modelled. What is left:

The operations left out of the components marked "partly" in `PROJECT.json`, above all
`PeekFile()` beside rotation.

## Not modelled

The components without state that others read: `Configuration` (parsing and printing; that
reading one fails or succeeds, and which is in use, is in `RunControl`, `Readout` and
`InteractiveDAQ`), `Synchronize` (one thread from start to end, over the calls of
`Readout`), DQM and `Logger` (output), the high-voltage wrapper (unused), `DAQCommand.py`
(checks a line and writes it to the FIFO), the configuration templates and macros.

Within the modelled ones: PeekFile, the print, plot and DQM flags and what they draw; the
text of the FIFO, of configurations and of the run list; memory allocation in the
programs; the TDC's rollovers, which nothing reads; the data race on `previousTTT`;
that the writer uses an event after its slot is free (`Queue.h:116`); the
emergency close at `exit()`; failures of the FIFO and of `select()`; ROOT beyond what a
tree and a file keep; the driver's code for other kernels and for `SAFE_MODE 0`, its
register reads, `/proc` output and `poll()`; the firmware of the boards.

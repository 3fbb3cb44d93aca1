------------------------------ MODULE A2818Load ------------------------------
(* Loading and unloading of the A2818 driver (caen/A2818Drv-1.20/a2818.c):   *)
(* a2818_init() sets up the cards one after the other, a2818_init_board()    *)
(* gives back what it holds of a card when it fails, a failure of one card   *)
(* makes a2818_init() release the cards before it, and a2818_cleanup()       *)
(* releases them all.  The handler of a card may run whenever its line is    *)
(* requested.                                                                *)
EXTENDS Naturals, Sequences, FiniteSets, Functions

CONSTANTS
  NumBoards,     (* cards on the bus                                         *)
  MAX_MINOR,     (* cards the driver takes at most                           *)
  MaxLoads       (* bound: times the module is loaded                        *)

ASSUME LoadAssumption == NumBoards \in Nat /\ MAX_MINOR \in Nat /\ MaxLoads \in Nat

Boards == 1..NumBoards

(* What the driver takes of a card or for it, in the order it does; "maps"   *)
(* are the two ioremap(), "irq" comes with the reset of the card and the     *)
(* enabling of its interrupts.                                               *)
Resources == {"s", "o_buf", "i_buf", "region", "plx_region", "maps", "irq", "il_buf"}

First == "s"

After(r) ==
  CASE r = "s"          -> "o_buf"
    [] r = "o_buf"      -> "i_buf"
    [] r = "i_buf"      -> "region"
    [] r = "region"     -> "plx_region"
    [] r = "plx_region" -> "maps"
    [] r = "maps"       -> "irq"
    [] r = "irq"        -> "il_buf"
    [] OTHER            -> "done"

(* Mutant: the line is given back after what its handler uses. *)
UnwoundIrqLate(r) ==
  CASE r = "il_buf"     -> "maps"
    [] r = "maps"       -> "irq"
    [] r = "irq"        -> "plx_region"
    [] r = "plx_region" -> "region"
    [] r = "region"     -> "i_buf"
    [] r = "i_buf"      -> "o_buf"
    [] r = "o_buf"      -> "s"
    [] OTHER            -> "done"

(* The order of the error labels of a2818_init_board(), from err_vmalloc_... *)
(* to the end: what is given back after r.                                   *)
UnwoundAfter(r) ==
  CASE r = "il_buf"     -> "irq"
    [] r = "irq"        -> "maps"
    [] r = "maps"       -> "plx_region"
    [] r = "plx_region" -> "region"
    [] r = "region"     -> "i_buf"
    [] r = "i_buf"      -> "o_buf"
    [] r = "o_buf"      -> "s"
    [] OTHER            -> "done"

(* Mutant: the label after the right one. *)
ErrorLabelTooLate(r) ==
  IF r \in {"o_buf", "il_buf"} THEN r ELSE UnwoundAfter(UnwoundAfter(r))

(* The label a failure to take r jumps to, by what it gives back first; of   *)
(* o_buf and il_buf some of the eight buffers may have been taken.           *)
ErrorLabel(r) == IF r \in {"o_buf", "il_buf"} THEN r ELSE UnwoundAfter(r)

(* The order of ReleaseBoards(). *)
ReleasedAfter(r) ==
  CASE r = "irq"        -> "maps"
    [] r = "maps"       -> "region"
    [] r = "region"     -> "plx_region"
    [] r = "plx_region" -> "i_buf"
    [] r = "i_buf"      -> "o_buf"
    [] r = "o_buf"      -> "il_buf"
    [] r = "il_buf"     -> "s"
    [] OTHER            -> "proc"

VARIABLES
  pc,            (* where the thread that loads or unloads the module is     *)
  at,            (* the resource it takes or gives back next                 *)
  index,         (* cards found so far; the card being set up                *)
  released,      (* the card being released                                  *)
  devs,          (* the list of the cards that are set up, last one first    *)
  held,          (* what the driver holds of each card                       *)
  proc,          (* /proc/a2818 exists                                       *)
  proc_left,     (* a failure has left it behind                             *)
  chrdev,        (* the character device is registered                       *)
  unloading,     (* the cards are released by a2818_cleanup()                *)
  lastFailure,   (* the last card, in this load, that could not be set up    *)
  loads

vars == <<pc, at, index, released, devs, held, proc, proc_left, chrdev, unloading,
          lastFailure, loads>>

Init ==
  /\ pc = "unloaded" /\ at = "done"
  /\ index = 0 /\ released = 0 /\ devs = <<>>
  /\ held = [b \in Boards |-> {}]
  /\ proc = FALSE /\ proc_left = FALSE /\ chrdev = FALSE /\ unloading = FALSE
  /\ lastFailure = 0 /\ loads = 0

Take(b, r) == held' = [held EXCEPT ![b] = @ \cup {r}]

GiveBack(b, r) == held' = [held EXCEPT ![b] = @ \ {r}]

(* insmod: devs is NULL in a module that has just been loaded.               *)
Load ==
  /\ pc = "unloaded" /\ loads < MaxLoads
  /\ pc' = "find" /\ loads' = loads + 1
  /\ index' = 0 /\ devs' = <<>> /\ lastFailure' = 0
  /\ UNCHANGED <<at, released, held, proc, proc_left, chrdev, unloading>>

(* Mutant: one card too many. *)
FindBoardTooMany ==
  /\ pc = "find" /\ index < NumBoards /\ index <= MAX_MINOR
  /\ index' = index + 1
  /\ pc' = "init" /\ at' = First
  /\ UNCHANGED <<released, devs, held, proc, proc_left, chrdev, unloading, lastFailure,
                 loads>>

(* pci_get_subsys() finds the next card, which is enabled; s is taken next.  *)
FindBoard ==
  /\ pc = "find" /\ index < NumBoards /\ index < MAX_MINOR
  /\ index' = index + 1
  /\ pc' = "init" /\ at' = First
  /\ UNCHANGED <<released, devs, held, proc, proc_left, chrdev, unloading, lastFailure,
                 loads>>

(* A step of a2818_init_board() succeeds.  proc_create() does nothing when   *)
(* the entry exists.                                                         *)
InitBoard ==
  /\ pc = "init" /\ at # "done"
  /\ Take(index, at)
  /\ at' = After(at)
  /\ proc' = (proc \/ at = "irq")
  /\ UNCHANGED <<pc, index, released, devs, proc_left, chrdev, unloading, lastFailure,
                 loads>>

(* ... and the card is set up. *)
ListBoard ==
  /\ pc = "init" /\ at = "done"
  /\ devs' = <<index>> \o devs
  /\ pc' = "find"
  /\ UNCHANGED <<at, index, released, held, proc, proc_left, chrdev, unloading,
                 lastFailure, loads>>

(* A step fails: nothing is held yet when it is the card's enabling or s;    *)
(* the result of ioremap() is not looked at.                                 *)
InitFails ==
  /\ pc = "init" /\ at \notin {"done", "maps"}
  /\ pc' = "unwind" /\ at' = ErrorLabel(at)
  /\ \/ at \in {"o_buf", "il_buf"} /\ Take(index, at)
     \/ UNCHANGED held
  /\ proc_left' = (proc_left \/ at = "il_buf")
  /\ lastFailure' = index
  /\ UNCHANGED <<index, released, devs, proc, chrdev, unloading, loads>>

(* The next statement after an error label; /proc/a2818 stays.               *)
Unwind ==
  /\ pc = "unwind" /\ at # "done"
  /\ GiveBack(index, at)
  /\ at' = UnwoundAfter(at)
  /\ UNCHANGED <<pc, index, released, devs, proc, proc_left, chrdev, unloading,
                 lastFailure, loads>>

(* Mutant: the cards before are kept. *)
UnwindReturnsOnly ==
  /\ pc = "unwind" /\ at = "done"
  /\ pc' = "find"
  /\ UNCHANGED <<at, index, released, devs, held, proc, proc_left, chrdev, unloading,
                 lastFailure, loads>>

UnwindReturns ==
  /\ pc = "unwind" /\ at = "done"
  /\ pc' = "release"
  /\ UNCHANGED <<at, index, released, devs, held, proc, proc_left, chrdev, unloading,
                 lastFailure, loads>>

(* ReleaseBoards() takes the next card off the list before it releases it.   *)
ReleaseNext ==
  /\ pc = "release" /\ devs # <<>>
  /\ released' = Head(devs) /\ devs' = Tail(devs)
  /\ pc' = "releasing" /\ at' = "irq"
  /\ UNCHANGED <<index, held, proc, proc_left, chrdev, unloading, lastFailure, loads>>

Release ==
  /\ pc = "releasing" /\ at # "proc"
  /\ GiveBack(released, at)
  /\ at' = ReleasedAfter(at)
  /\ UNCHANGED <<pc, index, released, devs, proc, proc_left, chrdev, unloading,
                 lastFailure, loads>>

(* a2818_unregister_proc(), once for each card. *)
ReleaseProc ==
  /\ pc = "releasing" /\ at = "proc"
  /\ proc' = FALSE /\ proc_left' = FALSE
  /\ pc' = "release" /\ at' = "done"
  /\ UNCHANGED <<index, released, devs, held, chrdev, unloading, lastFailure, loads>>

(* The list is empty: a2818_init() looks for the next card, a2818_cleanup()  *)
(* unregisters the device.                                                   *)
ReleaseReturns ==
  /\ pc = "release" /\ devs = <<>>
  /\ pc' = IF unloading THEN "unloaded" ELSE "find"
  /\ chrdev' = (chrdev /\ ~unloading)
  /\ unloading' = FALSE
  /\ UNCHANGED <<at, index, released, devs, held, proc, proc_left, lastFailure, loads>>

(* No card is left: -ENODEV when none was found; otherwise the device is     *)
(* registered, though no card may have been set up.  When that fails the     *)
(* module is not loaded and the cards are not released.                      *)
Register ==
  /\ pc = "find" /\ (index = NumBoards \/ index >= MAX_MINOR)
  /\ \/ index = 0 /\ pc' = "unloaded" /\ UNCHANGED chrdev
     \/ index > 0 /\ pc' = "loaded" /\ chrdev' = TRUE
     \/ index > 0 /\ pc' = "abandoned" /\ UNCHANGED chrdev
  /\ UNCHANGED <<at, index, released, devs, held, proc, proc_left, unloading,
                 lastFailure, loads>>

(* rmmod, when no file is open. *)
Unload ==
  /\ pc = "loaded"
  /\ pc' = "release" /\ unloading' = TRUE
  /\ UNCHANGED <<at, index, released, devs, held, proc, proc_left, chrdev, lastFailure,
                 loads>>

Next ==
  \/ Load \/ FindBoard \/ InitBoard \/ ListBoard \/ InitFails \/ Unwind \/ UnwindReturns
  \/ ReleaseNext \/ Release \/ ReleaseProc \/ ReleaseReturns \/ Register \/ Unload

Spec == Init /\ [][Next]_vars

-----------------------------------------------------------------------------
(* Properties.                                                               *)

(* Every variable keeps its type. *)
TypeOK ==
  /\ pc \in {"unloaded", "find", "init", "unwind", "release", "releasing", "loaded",
             "abandoned"}
  /\ at \in Resources \cup {"done", "proc"}
  /\ index \in 0..NumBoards /\ index <= MAX_MINOR
  /\ released \in 0..NumBoards
  /\ devs \in Seq(Boards)
  /\ held \in [Boards -> SUBSET Resources]
  /\ proc \in BOOLEAN /\ proc_left \in BOOLEAN /\ chrdev \in BOOLEAN
  /\ unloading \in BOOLEAN /\ lastFailure \in 0..NumBoards /\ loads \in 0..MaxLoads

(* While the interrupt line of a card is requested, all that               *)
(* a2818_interrupt() uses is there: the state, the mapped registers and    *)
(* their regions, the DMA buffers, and il_buf, into which the packets of   *)
(* the slaves are copied.  The one exception is il_buf before it is        *)
(* allocated, which is the last step of setting a card up, and when it is  *)
(* freed because that step failed: the line is given back after it.        *)
HandlerHasWhatItUses ==
  \A b \in Boards : "irq" \in held[b] =>
    \/ Resources \subseteq held[b]
    \/ /\ b = index /\ <<pc, at>> \in {<<"init", "il_buf">>, <<"unwind", "il_buf">>,
                                       <<"unwind", "irq">>}
       /\ Resources \ {"il_buf"} \subseteq held[b]

(* The card that is being set up or released. *)
InWork ==
  CASE pc \in {"init", "unwind"} -> {index}
    [] pc = "releasing"          -> {released}
    [] OTHER                     -> {}

(* Nothing leaks: a card on the list has everything, and one that is neither *)
(* on the list nor being set up or released has nothing, however many steps  *)
(* failed.  /proc/a2818 is there while a card is listed, and gone with the    *)
(* driver, unless a failure of the last allocation has left it behind.       *)
NothingLeaks ==
  /\ \A b \in Boards \ InWork : held[b] = IF b \in Range(devs) THEN Resources ELSE {}
  /\ devs # <<>> /\ pc \notin {"release", "releasing"} => proc
  /\ pc = "unloaded" /\ proc => proc_left

(* Once loaded, the driver has the cards found after the last one that       *)
(* failed, each once, the last found first, and no other: by these open()    *)
(* looks for a minor number.                                                 *)
ListedSinceFailure ==
  pc = "loaded" =>
    devs = [i \in 1..(index - lastFailure) |-> index + 1 - i]

(* The inductive invariant.  What is held of the card in hand goes by the    *)
(* step that comes next.                                                     *)
Taken(next) ==
  CASE next = "s"          -> {}
    [] next = "o_buf"      -> {"s"}
    [] next = "i_buf"      -> {"s", "o_buf"}
    [] next = "region"     -> {"s", "o_buf", "i_buf"}
    [] next = "plx_region" -> {"s", "o_buf", "i_buf", "region"}
    [] next = "maps"       -> Resources \ {"maps", "irq", "il_buf"}
    [] next = "irq"        -> Resources \ {"irq", "il_buf"}
    [] next = "il_buf"     -> Resources \ {"il_buf"}
    [] OTHER               -> Resources

ToRelease(next) ==
  CASE next = "irq"        -> Resources
    [] next = "maps"       -> Resources \ {"irq"}
    [] next = "region"     -> Resources \ {"irq", "maps"}
    [] next = "plx_region" -> Resources \ {"irq", "maps", "region"}
    [] next = "i_buf"      -> {"i_buf", "o_buf", "il_buf", "s"}
    [] next = "o_buf"      -> {"o_buf", "il_buf", "s"}
    [] next = "il_buf"     -> {"il_buf", "s"}
    [] next = "s"          -> {"s"}
    [] OTHER               -> {}

WorkOK ==
  /\ pc = "init" => index \in Boards /\ at # "proc" /\ held[index] = Taken(at)
  /\ pc = "unwind" =>
       /\ index \in Boards /\ at # "proc"
       /\ held[index] \ {at} = IF at = "done" THEN {} ELSE Taken(at)
  /\ pc = "releasing" =>
       released \in Boards /\ at # "done" /\ held[released] = ToRelease(at)

(* The list has the cards after the k-th up to the m-th, the last one first. *)
Down(m, k) == [i \in 1..(m - k) |-> m + 1 - i]

ListIs(m, k) ==
  /\ devs = Down(m, k)
  /\ pc \in {"find", "loaded", "abandoned"} => m = index /\ k = lastFailure
  /\ pc = "init" => m + 1 = index /\ k = lastFailure
  /\ pc = "unwind" => m + 1 = index /\ lastFailure = index
  /\ pc = "release" => unloading \/ (m < index /\ lastFailure = index)
  /\ pc = "releasing" => released = m + 1 /\ (unloading \/ lastFailure = index)
  /\ pc = "releasing" => m < index
  /\ pc = "unloaded" => m = k

ListOK ==
  /\ \E m, k \in 0..index : k <= m /\ ListIs(m, k)
  /\ unloading => pc \in {"release", "releasing"}

ProcOK ==
  /\ pc = "init" /\ at \in {"il_buf", "done"} => proc
  /\ proc => \/ proc_left \/ devs # <<>> \/ pc = "releasing"
             \/ pc = "init" /\ at \in {"il_buf", "done"}

(* Every variable has its type, and what is held of each card, the list and  *)
(* /proc/a2818 follow the steps of loading, of its failures and of           *)
(* unloading.                                                                *)
LoadInv == TypeOK /\ WorkOK /\ ListOK /\ ProcOK /\ NothingLeaks

=============================================================================

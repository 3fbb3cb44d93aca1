------------------------------ MODULE DataTaking ------------------------------
(* What the two programs that take data promise of the boards and of the file *)
(* they write, whatever their commands and threads do: no acquisition is      *)
(* started over another, no run opened over another, and configurations       *)
(* change in between.  When their operator leaves the threads the time they   *)
(* need (inTurn), acquisitions and runs begin in turns, one run for each      *)
(* acquisition, under the configuration of the boards.                        *)
EXTENDS Naturals

CONSTANT Configs

VARIABLES
  inTurn,
  acquiring, acquisition, cfg,  (* the boards: they accept triggers; starts so  *)
                                (* far; their configuration                     *)
  pending,                      (* kinds of events between boards and file      *)
  file, run, label, recorded    (* "none", "open", "closed" or "deleted"; the   *)
                                (* number of its run, the configuration written *)
                                (* in it, kinds of events in it                 *)

boards == <<acquiring, acquisition, cfg>>
output == <<file, run, label, recorded>>
vars == <<inTurn, boards, pending, output>>

Init ==
  /\ inTurn \in BOOLEAN
  /\ acquiring = FALSE /\ acquisition = 0 /\ cfg \in Configs
  /\ pending = {}
  /\ file = "none" /\ run = 0 /\ label \in Configs /\ recorded = {}

-----------------------------------------------------------------------------
(* The boards. *)

StartAcquisition ==
  /\ ~acquiring
  /\ inTurn => file \in {"none", "closed"} /\ acquisition = run
  /\ acquiring' = TRUE /\ acquisition' = acquisition + 1 /\ cfg' \in Configs
  /\ UNCHANGED <<inTurn, pending, output>>

StopAcquisition ==
  /\ acquiring
  /\ inTurn => acquisition = run
  /\ acquiring' = FALSE
  /\ UNCHANGED <<inTurn, acquisition, cfg, pending, output>>

Trigger ==
  /\ acquiring
  /\ pending' = pending \cup {[acq |-> acquisition, cfg |-> cfg]}
  /\ UNCHANGED <<inTurn, boards, output>>

-----------------------------------------------------------------------------
(* The file. *)

OpenRun ==
  /\ file \in {"none", "closed"}
  /\ file' = "open" /\ run' = run + 1 /\ label' \in Configs /\ recorded' = {}
  /\ inTurn => acquiring /\ run' = acquisition /\ label' = cfg
  /\ UNCHANGED <<inTurn, boards, pending>>

(* Some events are filled into the open file, some are dropped, the others   *)
(* stay.                                                                     *)
Flush ==
  /\ file = "open"
  /\ \E kept \in SUBSET pending : \E filled \in SUBSET (pending \ kept) :
       pending' = kept /\ recorded' = recorded \cup filled
  /\ UNCHANGED <<inTurn, boards, run, label>>

Record == Flush /\ UNCHANGED file

FinishRun == Flush /\ file' = "closed" /\ (inTurn => acquisition = run)

(* The file is finished and the next one of the run opened. *)
Rotate ==
  /\ file = "open"
  /\ recorded' = {}
  /\ UNCHANGED <<inTurn, boards, pending, file, run, label>>

(* The program ends, and the file if it is open. *)
End ==
  /\ file \in {"open", "closed"}
  /\ inTurn => acquisition = run
  /\ file' = "deleted"
  /\ UNCHANGED <<inTurn, boards, pending, run, label, recorded>>

-----------------------------------------------------------------------------
Next ==
  \/ StartAcquisition \/ StopAcquisition \/ Trigger
  \/ OpenRun \/ Record \/ FinishRun \/ Rotate \/ End

Spec == Init /\ [][Next]_vars
=============================================================================

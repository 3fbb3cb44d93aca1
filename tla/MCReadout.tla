------------------------------ MODULE MCReadout ------------------------------
(* Two configurations: the slave takes software triggers or none. *)
EXTENDS Readout

MCTriggerType ==
  [c \in Configs |-> [b \in Boards |-> IF b = Master THEN "normal"
                                      ELSE IF c = "soft" THEN "soft" ELSE "none"]]

=============================================================================

---------------------------- MODULE MCInteractiveDAQ ----------------------------
(* Model values for checking InteractiveDAQ. *)
EXTENDS InteractiveDAQ

CONSTANTS cfgA, cfgB

MCConfigs == {cfgA, cfgB}

MCMaxCommands == [p \in BOOLEAN |-> IF p THEN 3 ELSE 2]

=============================================================================

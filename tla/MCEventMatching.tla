--------------------------- MODULE MCEventMatching ---------------------------
(* EventMatching with both filters enabled: an event may be recorded and   *)
(* may be dropped.                                                         *)
EXTENDS EventMatching

MCConfigurations == {[HLTEnabled |-> TRUE, CosmicPrescaleEnabled |-> TRUE]}
=============================================================================

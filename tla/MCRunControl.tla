---------------------------- MODULE MCRunControl ----------------------------
(* Model values and bounds for checking RunControl. *)
EXTENDS RunControl

CONSTANTS cfgA, cfgB

MCConfigs == {cfgA, cfgB}

(* Without restart, and without a run that the writer ends on its own.     *)
MCPacedCommands ==
  {"quit", "pause", "unpause", "start", "timedStart", "stop", "reconfigure"}

OnlyRestart == {"restart"}
=============================================================================

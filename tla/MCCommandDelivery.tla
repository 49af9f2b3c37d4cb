------------------------- MODULE MCCommandDelivery -------------------------
(* A screenshot (fast), an installation (slow, stamped) and a sync (slow,  *)
(* without a timestamp).                                                   *)
EXTENDS CommandDelivery

CONSTANTS shot, install, sync

MCFast == Commands \cap {shot}
MCStamped == Commands \cap {shot, install}
(* Crashes as the only faults: enough for two commands to meet in a full   *)
(* lane and in a restart.                                                  *)
CrashSpec ==
  Init /\ [][Next /\ (faults' # faults => Restart)]_vars /\ Fairness
=============================================================================

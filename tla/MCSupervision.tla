--------------------------- MODULE MCSupervision ---------------------------
(* One entry, the monitor loop and one thread for commands.                *)
EXTENDS Supervision

CONSTANTS worker, p1, p2
=============================================================================

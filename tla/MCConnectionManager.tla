------------------------ MODULE MCConnectionManager ------------------------
(***************************************************************************)
(* Small instances of ConnectionManager.                                   *)
(***************************************************************************)
EXTENDS ConnectionManager

CONSTANTS commands, l1, l2, l3, l4
=============================================================================

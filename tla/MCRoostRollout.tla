--------------------------- MODULE MCRoostRollout ---------------------------
(***************************************************************************)
(* Small instances of RoostRollout.  Machines are numbered, so that their  *)
(* numbers can serve as the ranks that order a fleet into waves.           *)
(***************************************************************************)
EXTENDS RoostRollout

CONSTANTS v1, v2

MCHashRank ==
  [v \in Versions |-> IF v = v1 THEN [m \in Machines |-> m]
                                ELSE [m \in Machines |-> 9 - m]]
MCNameRank == [m \in Machines |-> m]

AllMachines == {Machines}
NoDeploys   == {}
=============================================================================

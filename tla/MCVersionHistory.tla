-------------------------- MODULE MCVersionHistory --------------------------
(***************************************************************************)
(* Small instances of VersionHistory.  Versions, texts and requests are    *)
(* interchangeable.                                                        *)
(***************************************************************************)
EXTENDS VersionHistory, TLC

Symmetry ==
  Permutations(Versions) \cup Permutations(Texts) \cup Permutations(Requests)
=============================================================================

------------------------------ MODULE RoostLog ------------------------------
(***************************************************************************)
(* What a roost's version history promises whoever reads it: versions are  *)
(* numbered in the order they were published, none twice and none skipped, *)
(* and a head that moves leaves the old one behind as the previous one.    *)
(***************************************************************************)
EXTENDS Sequences

CONSTANTS Versions, NoVersion

VARIABLES log, head, previous

vars == <<log, head, previous>>

Published == {log[i] : i \in DOMAIN log}

Init ==
  /\ log = <<>>
  /\ head = NoVersion
  /\ previous = NoVersion

MoveTo(v) ==
  /\ head # v
  /\ head' = v
  /\ previous' = head

Publish(v) ==
  /\ v \notin Published
  /\ log' = Append(log, v)
  /\ MoveTo(v)

(* A rollback, or a publish of content that was published before.          *)
Return(v) ==
  /\ v \in Published
  /\ MoveTo(v)
  /\ UNCHANGED log

Next == \E v \in Versions : Publish(v) \/ Return(v)

Spec == Init /\ [][Next]_vars
=============================================================================

---------------------------- MODULE RoostFolder ----------------------------
(***************************************************************************)
(* What a sync promises the program that plays from the folder: a version  *)
(* is put in place file by file and only then are the files of others      *)
(* taken away, so that the folder always holds one whole version, or more. *)
(***************************************************************************)
CONSTANTS Versions, NoVersion,
          Paths, NoContent,
          Files,    \* Files[v][p]: what v has at p, or NoContent
          SizeOf    \* the agent compares files by their size

VARIABLES folder, goal, cut

vars == <<folder, goal, cut>>

(* A file is taken for the wanted one when its size is right.              *)
Fits(have, want) == have # NoContent /\ SizeOf[have] = SizeOf[want]

PathsOf(v) == {p \in Paths : Files[v][p] # NoContent}

Complete(v) == \A p \in PathsOf(v) : Fits(folder[p], Files[v][p])

Init ==
  /\ folder = [p \in Paths |-> NoContent]
  /\ goal = NoVersion
  /\ cut = FALSE

Begin(v) ==
  /\ goal = NoVersion
  /\ goal' = v
  /\ cut' = FALSE
  /\ UNCHANGED folder

Install(p) ==
  /\ goal # NoVersion
  /\ p \in PathsOf(goal)
  /\ folder' = [folder EXCEPT ![p] = Files[goal][p]]
  /\ UNCHANGED <<goal, cut>>

(* The operator cancels while files are being put in place.                *)
CutShort ==
  /\ goal # NoVersion
  /\ cut' = TRUE
  /\ UNCHANGED <<folder, goal>>

Remove(p) ==
  /\ goal # NoVersion
  /\ p \notin PathsOf(goal)
  /\ Complete(goal) \/ cut
  /\ folder' = [folder EXCEPT ![p] = NoContent]
  /\ UNCHANGED <<goal, cut>>

End ==
  /\ goal' = NoVersion
  /\ cut' = FALSE
  /\ UNCHANGED folder

Next ==
  \/ \E v \in Versions : Begin(v)
  \/ \E p \in Paths : Install(p) \/ Remove(p)
  \/ CutShort \/ End

Spec == Init /\ [][Next]_vars
=============================================================================

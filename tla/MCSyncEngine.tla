---------------------------- MODULE MCSyncEngine ----------------------------
(***************************************************************************)
(* Small instances of SyncEngine: the second version replaces one file of  *)
(* the first, drops one and adds one that shares a chunk with it.          *)
(***************************************************************************)
EXTENDS SyncEngine

CONSTANTS v1, v2, p1, p2, p3, a, b, c, d, k1, k2, k3

MCFiles ==
  [v \in Versions |->
    [p \in Paths |-> CASE v = v1 /\ p = p1 -> a
                       [] v = v1 /\ p = p2 -> b
                       [] v = v2 /\ p = p1 -> c
                       [] v = v2 /\ p = p3 -> d
                       [] OTHER -> NoContent]]

(* Four files of four sizes; and an edit that keeps the size of a file.    *)
MCSizes == [x \in Contents |-> CASE x = a -> 1 [] x = b -> 2
                                 [] x = c -> 3 [] x = d -> 4]
MCSameSizes == [x \in Contents |-> IF x \in {a, c} THEN 1 ELSE 2]

MCChunksOf == [x \in Contents |-> CASE x = a -> {k1} [] x = c -> {k3}
                                    [] OTHER -> {k2}]
=============================================================================

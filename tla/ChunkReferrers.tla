--------------------------- MODULE ChunkReferrers ---------------------------
(***************************************************************************)
(* POST /chunks/{digest}/mount against the collector: a mount records that *)
(* another roost refers to a chunk, and copies nothing.                    *)
(***************************************************************************)
EXTENDS MCChunkGc

VARIABLES mounting,   \* mounts that have found their chunk in storage
          referrers,  \* referrers[s]: chunks with a mount entry
          known       \* history: referrers when the current run started

mountVars == <<mounting, referrers, known>>

MountInit ==
  /\ Init
  /\ mounting = {}
  /\ referrers = [s \in Sites |-> {}]
  /\ known = [s \in Sites |-> {}]

MountFinds(s, c) ==
  /\ c \in stored[s]
  /\ mounting' = mounting \cup {<<s, c>>}
  /\ UNCHANGED <<vars, referrers, known>>

MountRecords(s, c) ==
  /\ <<s, c>> \in mounting
  /\ mounting' = mounting \ {<<s, c>>}
  /\ referrers' = [referrers EXCEPT ![s] = @ \cup {c}]
  /\ UNCHANGED <<vars, known>>

Observed ==
  /\ Next
  /\ known' = IF phase = "idle" /\ phase' = "scan" THEN referrers ELSE known
  /\ UNCHANGED <<mounting, referrers>>

MountNext ==
  \/ Observed
  \/ \E s \in Sites, c \in Chunks : MountFinds(s, c) \/ MountRecords(s, c)

MountSpec == MountInit /\ [][MountNext]_<<vars, mountVars>>

(* chunks.mdx: "a chunk with zero referrers across all roosts in a site    *)
(* becomes eligible for deletion after the gc grace period. during that    *)
(* window, a mount can still resurrect it."  A run deletes no chunk that   *)
(* had a mount entry before the run started.                               *)
MountResurrects ==
  [][\A s \in Sites :
       (stored[s] \ stored'[s]) \cap known[s] = {}]_<<vars, mountVars>>
=============================================================================

----------------------------- MODULE MCChunkGc -----------------------------
(***************************************************************************)
(* Small instances of ChunkGc: two versions that share a chunk.            *)
(***************************************************************************)
EXTENDS ChunkGc

CONSTANTS v1, v2, c1, c2, s1, s2

MCChunksOf == [v \in Versions |-> IF v = v1 THEN {c1} ELSE {c1, c2}]

(* The second site has nothing stored: all it can do is fail to scan.      *)
MCCatalog == [s \in Sites |-> IF s = s1 THEN Versions ELSE {}]
=============================================================================

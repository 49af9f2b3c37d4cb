-------------------------- MODULE SyncEngineProofs --------------------------
(***************************************************************************)
(* Proofs about SyncEngine: types, what a committed row means, that the    *)
(* engine implements RoostFolder, and why an assembly lacks a chunk.       *)
(***************************************************************************)
EXTENDS SyncEngine, TLAPS

(* Provenance comes before the bytes: a path that holds something has a    *)
(* row, and a version without a row has no files.                          *)
Provenance ==
  /\ \A v \in Versions, p \in Paths :
       dist[v] = "none" => rows[v][p] = "none"
  /\ \A p \in Paths : disk[p] # NoContent => p \in Written

(* Where the sync that is running is.                                      *)
Progress ==
  /\ job.writing # NoPath =>
       /\ job.phase = "assembling"
       /\ job.writing \in PathsOf(job.version) \cap job.paths
  /\ job.phase = "assembling" =>
       /\ job.paths \subseteq PathsOf(job.version)
       /\ \A p \in PathsOf(job.version) \ job.paths :
            Fits(disk[p], Files[job.version][p])
  /\ job.phase \in {"looking", "fetching", "fetched", "assembling",
                    "pruning", "closing"}
       => dist[job.version] \in Active
  /\ job.failed => cancel
  /\ job.phase \in {"idle", "setup", "registered", "looking", "fetched"}
       => ~job.failed

(* Nothing is left of other versions but what is still to be pruned, or    *)
(* could not be.                                                           *)
Swept ==
  \A p \in Paths \ PathsOf(job.version) :
    \/ disk[p] = NoContent
    \/ p \in stuck
    \/ job.phase = "pruning" /\ p \in job.paths

(* What a prune, and then a commit, may rely on.                           *)
Whole ==
  /\ job.phase = "pruning" =>
       /\ job.paths \cap PathsOf(job.version) = {}
       /\ job.cut => cancel
       /\ ~job.cut => Installed(job.version)
       /\ Swept
  /\ job.phase = "closing" => cancel \/ (Installed(job.version) /\ Swept)

(* The chunks of the running sync are in the store unless the reaper has   *)
(* been there.                                                             *)
Supplied ==
  raced \/
    /\ ~starved
    /\ job.phase = "looking" => job.chunks = ChunkSet(job.version)
    /\ job.phase = "fetching" /\ ~cancel
         => ChunkSet(job.version) \subseteq store \cup job.chunks
    /\ job.phase \in {"fetched", "assembling"}
         => ChunkSet(job.version) \subseteq store

IInv == TypeOK /\ Provenance /\ Progress /\ Whole

USE DEF history, vars

----------------------------------------------------------------------------
(* Type correctness.                                                       *)

(* The chunks of a version are chunks.                                     *)
LEMMA ChunkSetType == \A v \in Versions : ChunkSet(v) \subseteq Chunks
BY SyncAssumption DEF ChunkSet, PathsOf

(* The chunks of a file of a version are chunks of that version.           *)
LEMMA FileChunks ==
  \A v \in Versions : \A p \in PathsOf(v) :
    ChunksOf[Files[v][p]] \subseteq ChunkSet(v)
BY DEF ChunkSet

(* A record of a sync that runs names a version.                           *)
JobOK(j) == j \in JobType /\ (j.phase # "idle" => j.version \in Versions)

(* The records a sync starts and ends with.                                *)
LEMMA JobStarts ==
  /\ JobOK(NoJob)
  /\ \A v \in Versions :
       JobOK([NoJob EXCEPT !.phase = "setup", !.version = v])
BY DEF NoJob, JobOK, JobType, Phases

(* What the steps of a sync make of its record is such a record.           *)
LEMMA JobUpdates ==
  ASSUME NEW j, JobOK(j), j.phase # "idle"
  PROVE  /\ \A s \in Phases :
              JobOK([j EXCEPT !.phase = s])
         /\ \A s \in Phases, C \in SUBSET Chunks :
              JobOK([j EXCEPT !.phase = s, !.chunks = C])
         /\ \A s \in Phases, P \in SUBSET Paths :
              JobOK([j EXCEPT !.phase = s, !.paths = P])
         /\ \A s \in Phases, P \in SUBSET Paths, x \in BOOLEAN :
              JobOK([j EXCEPT !.phase = s, !.cut = x, !.paths = P])
         /\ \A C \in SUBSET Chunks :
              JobOK([j EXCEPT !.chunks = C])
         /\ \A C \in SUBSET Chunks :
              JobOK([j EXCEPT !.chunks = C, !.failed = TRUE])
         /\ \A P \in SUBSET Paths :
              JobOK([j EXCEPT !.paths = P])
         /\ \A P \in SUBSET Paths :
              JobOK([j EXCEPT !.paths = P, !.writing = NoPath,
                              !.wrote = TRUE])
         /\ JobOK([j EXCEPT !.writing = NoPath, !.failed = TRUE])
<1> USE DEF JobOK, JobType
<1>1. \A s \in Phases :
       JobOK([j EXCEPT !.phase = s])
  OBVIOUS
<1>2. \A s \in Phases, C \in SUBSET Chunks :
       JobOK([j EXCEPT !.phase = s, !.chunks = C])
  OBVIOUS
<1>3. \A s \in Phases, P \in SUBSET Paths :
       JobOK([j EXCEPT !.phase = s, !.paths = P])
  OBVIOUS
<1>4. \A s \in Phases, P \in SUBSET Paths, x \in BOOLEAN :
       JobOK([j EXCEPT !.phase = s, !.cut = x, !.paths = P])
  OBVIOUS
<1>5. \A C \in SUBSET Chunks :
       JobOK([j EXCEPT !.chunks = C])
  OBVIOUS
<1>6. \A C \in SUBSET Chunks :
       JobOK([j EXCEPT !.chunks = C, !.failed = TRUE])
  OBVIOUS
<1>7. \A P \in SUBSET Paths :
       JobOK([j EXCEPT !.paths = P])
  OBVIOUS
<1>8. \A P \in SUBSET Paths :
       JobOK([j EXCEPT !.paths = P, !.writing = NoPath,
                       !.wrote = TRUE])
  OBVIOUS
<1>9. JobOK([j EXCEPT !.writing = NoPath, !.failed = TRUE])
  OBVIOUS
<1> QED
  BY <1>1, <1>2, <1>3, <1>4, <1>5, <1>6, <1>7, <1>8, <1>9

(* What a version has at a path.                                           *)
LEMMA FilesType ==
  \A v \in Versions, p \in Paths : Files[v][p] \in Contents \cup {NoContent}
BY SyncAssumption

(* And so is one that writes a file.                                       *)
LEMMA JobWrites ==
  ASSUME NEW j, JobOK(j), j.phase # "idle", NEW p \in Paths
  PROVE  JobOK([j EXCEPT !.writing = p])
BY DEF JobOK, JobType

(* The initial states are well typed.                                      *)
LEMMA TypeInit == Init => TypeOK
<1> SUFFICES ASSUME Init PROVE TypeOK
  OBVIOUS
<1> USE DEF Init
<1>1. /\ dist \in [Versions -> DistStates]
      /\ rows \in [Versions -> [Paths -> FileStates]]
  BY DEF DistStates, FileStates
<1>2. /\ disk \in [Paths -> Contents \cup {NoContent}]
      /\ spent \in [{"syncs", "cancels", "faults", "crashes"} -> Nat]
  OBVIOUS
<1>3. job \in JobType /\ job.phase = "idle"
  BY JobStarts DEF NoJob, JobOK
<1>4. reap \in [on : BOOLEAN, keep : SUBSET Chunks, todo : SUBSET Chunks]
  BY DEF NoReap
<1> QED
  BY <1>1, <1>2, <1>3, <1>4 DEF TypeOK

(* Spending leaves the counters typed.                                     *)
LEMMA SpendType ==
  ASSUME TypeOK, NEW k \in {"syncs", "cancels", "faults", "crashes"},
         NEW n, Spend(k, n)
  PROVE  spent' \in [{"syncs", "cancels", "faults", "crashes"} -> Nat]
BY DEF TypeOK, Spend

(* Settling a row leaves the rows typed, and no sync running.              *)
LEMMA SettleType ==
  ASSUME TypeOK, NEW state \in DistStates, Settle(state)
  PROVE  /\ dist' \in [Versions -> DistStates]
         /\ job' = NoJob
BY DEF TypeOK, Settle

(* What is left of the store after a release.                              *)
LEMMA ReleaseType ==
  ASSUME TypeOK, ReleaseChunks
  PROVE  store' \subseteq Chunks /\ aged' \subseteq store'
BY DEF TypeOK, ReleaseChunks

(* Every step keeps TypeOK.                                                *)
LEMMA TypeStep ==
  ASSUME TypeOK, [Next]_vars
  PROVE  TypeOK'
<1> USE DEF TypeOK
<1> JobOK(job)
  BY DEF JobOK
<1>1. CASE SetupEnds
  <2>1. JobOK(job')
    BY <1>1, JobStarts DEF SetupEnds
  <2>2. spent' \in [{"syncs", "cancels", "faults", "crashes"} -> Nat]
    BY <1>1, SpendType DEF SetupEnds, Fault
  <2> QED
    BY <1>1, <2>1, <2>2 DEF SetupEnds, JobOK
<1>2. CASE Register
  <2>1. JobOK(job')
    BY <1>2, JobUpdates DEF Register, Phases
  <2>2. dist' \in [Versions -> DistStates]
    BY <1>2 DEF Register, DistStates, Active
  <2>3. rows' \in [Versions -> [Paths -> FileStates]]
    BY <1>2 DEF Register, FileStates
  <2> QED
    BY <1>2, <2>1, <2>2, <2>3 DEF Register, JobOK
<1>3. CASE BeginDownload
  <2>1. ChunkSet(job.version) \in SUBSET Chunks
    BY <1>3, ChunkSetType DEF BeginDownload
  <2>2. cancel => job' = NoJob
    BY <1>3 DEF BeginDownload, Settle
  <2>3. job.phase # "idle" /\ (~cancel => job' =
         [job EXCEPT !.phase = "looking", !.chunks = ChunkSet(job.version)])
    BY <1>3 DEF BeginDownload
  <2>4. JobOK([job EXCEPT !.phase = "looking",
                          !.chunks = ChunkSet(job.version)])
    BY <2>1, <2>3, JobUpdates DEF Phases
  <2>5. JobOK(job')
    BY <2>2, <2>3, <2>4, JobStarts
  <2>6. dist' \in [Versions -> DistStates]
    BY <1>3, SettleType DEF BeginDownload, DistStates, Active
  <2> QED
    BY <1>3, <2>1, <2>2, <2>3, <2>4, <2>5, <2>6 DEF BeginDownload, JobOK
<1>4. CASE Look
  <2>1. JobOK(job')
    BY <1>4, JobUpdates DEF Look, Phases, JobType
  <2> QED
    BY <1>4, <2>1 DEF Look, JobOK
<1>5. CASE EndDownload
  <2>1. job.phase # "idle" /\ (
       job' = NoJob \/ job' = [job EXCEPT !.phase = "fetched"])
    BY <1>5 DEF EndDownload, Settle
  <2>2. JobOK([job EXCEPT !.phase = "fetched"])
    BY <2>1, JobUpdates DEF Phases
  <2>3. JobOK(job')
    BY <2>1, <2>2, JobStarts
  <2>4. dist' \in [Versions -> DistStates]
    BY <1>5, SettleType DEF EndDownload, DistStates, Active
  <2>5. store' \subseteq Chunks /\ aged' \subseteq store'
    BY <1>5, ReleaseType DEF EndDownload
  <2> QED
    BY <1>5, <2>1, <2>2, <2>3, <2>4, <2>5 DEF EndDownload, JobOK
<1>6. CASE BeginAssembly
  <2>1. JobOK(job')
    BY <1>6, JobUpdates DEF BeginAssembly, Phases, PathsOf
  <2> QED
    BY <1>6, <2>1 DEF BeginAssembly, JobOK
<1>7. CASE EndAssembly
  <2>1. Written \ PathsOf(job.version) \in SUBSET Paths
       /\ (job.paths # {}) \in BOOLEAN
    BY <1>7 DEF EndAssembly, Written
  <2>2. job.phase # "idle"
    BY <1>7 DEF EndAssembly
  <2>3. job' = NoJob \/ job' =
       [job EXCEPT !.phase = "pruning", !.cut = job.paths # {},
                   !.paths = Written \ PathsOf(job.version)]
    BY <1>7 DEF EndAssembly, Settle
  <2>4. JobOK([job EXCEPT !.phase = "pruning", !.cut = job.paths # {},
                        !.paths = Written \ PathsOf(job.version)])
    BY <2>1, <2>2, JobUpdates DEF Phases
  <2>5. JobOK(job')
    BY <2>3, <2>4, JobStarts
  <2>6. dist' \in [Versions -> DistStates]
    BY <1>7, SettleType DEF EndAssembly, DistStates, Active
  <2>7. store' \subseteq Chunks /\ aged' \subseteq store'
    BY <1>7, ReleaseType DEF EndAssembly
  <2> QED
    BY <1>7, <2>1, <2>2, <2>3, <2>4, <2>5, <2>6, <2>7 DEF EndAssembly, JobOK
<1>8. CASE EndPrune
  <2>1. JobOK(job')
    BY <1>8, JobUpdates DEF EndPrune, Phases
  <2>2. store' \subseteq Chunks /\ aged' \subseteq store'
    BY <1>8, ReleaseType DEF EndPrune
  <2> QED
    BY <1>8, <2>1, <2>2 DEF EndPrune, JobOK
<1>9. CASE Close
  <2>1. JobOK(job')
    BY <1>9, JobStarts DEF Close, Settle
  <2>2. dist' \in [Versions -> DistStates]
    BY <1>9, SettleType DEF Close, DistStates, Active
  <2>3. current' \in Versions \cup {NoVersion}
    BY <1>9 DEF Close
  <2> QED
    BY <1>9, <2>1, <2>2, <2>3 DEF Close, JobOK
<1>10. CASE CancelSync
  <2>1. spent' \in [{"syncs", "cancels", "faults", "crashes"} -> Nat]
    BY <1>10, SpendType DEF CancelSync
  <2> QED
    BY <1>10, <2>1 DEF CancelSync
<1>11. CASE ReapBegins
  <2>1. reap' \in [on : BOOLEAN, keep : SUBSET Chunks, todo : SUBSET Chunks]
    BY <1>11, ChunkSetType DEF ReapBegins, Referenced
  <2> QED
    BY <1>11, <2>1 DEF ReapBegins
<1>12. CASE ReapEnds
  <2>1. reap' \in [on : BOOLEAN, keep : SUBSET Chunks, todo : SUBSET Chunks]
    BY <1>12 DEF ReapEnds, NoReap
  <2> QED
    BY <1>12, <2>1 DEF ReapEnds
<1>13. CASE DayPasses
  BY <1>13 DEF DayPasses
<1>14. CASE Crash
  <2>1. JobOK(job')
    BY <1>14, JobStarts DEF Crash
  <2>2. spent' \in [{"syncs", "cancels", "faults", "crashes"} -> Nat]
    BY <1>14, SpendType DEF Crash
  <2>3. reap' \in [on : BOOLEAN, keep : SUBSET Chunks, todo : SUBSET Chunks]
    BY <1>14 DEF Crash, NoReap
  <2> QED
    BY <1>14, <2>1, <2>2, <2>3 DEF Crash, JobOK
<1>15. ASSUME NEW x \in Versions, Accept(x)
      PROVE  TypeOK'
  <2>1. JobOK(job')
    BY <1>15, JobStarts DEF Accept
  <2>2. spent' \in [{"syncs", "cancels", "faults", "crashes"} -> Nat]
    BY <1>15, SpendType DEF Accept
  <2> QED
    BY <1>15, <2>1, <2>2 DEF Accept, JobOK
<1>16. ASSUME NEW x \in Versions, Scrub(x)
      PROVE  TypeOK'
  BY <1>16 DEF Scrub
<1>17. ASSUME NEW x \in Chunks, Fetch(x)
      PROVE  TypeOK'
  <2>1. JobOK(job')
    BY <1>17, JobUpdates DEF Fetch, JobType, JobOK
  <2>2. store' \subseteq Chunks /\ aged' \subseteq store'
    BY <1>17 DEF Fetch
  <2> QED
    BY <1>17, <2>1, <2>2 DEF Fetch, JobOK
<1>18. ASSUME NEW x \in Chunks, FetchStops(x)
      PROVE  TypeOK'
  <2>1. JobOK(job')
    BY <1>18, JobUpdates DEF FetchStops, JobType, JobOK
  <2> QED
    BY <1>18, <2>1 DEF FetchStops, JobOK
<1>19. ASSUME NEW x \in Chunks, FetchFails(x)
      PROVE  TypeOK'
  <2>1. JobOK(job')
    <3>1. /\ job.chunks \ {x} \in SUBSET Chunks /\ job.phase # "idle"
          /\ job' = [job EXCEPT !.chunks = job.chunks \ {x},
                                !.failed = TRUE]
      BY <1>19 DEF FetchFails, JobType
    <3> QED BY <3>1, JobUpdates DEF JobOK
  <2>2. spent' \in [{"syncs", "cancels", "faults", "crashes"} -> Nat]
    BY <1>19, SpendType DEF FetchFails, Fault
  <2> QED
    BY <1>19, <2>1, <2>2 DEF FetchFails, JobOK
<1>20. ASSUME NEW x \in Paths, SkipFile(x)
      PROVE  TypeOK'
  <2>1. job.paths \ {x} \in SUBSET Paths
    BY <1>20 DEF SkipFile, JobType
  <2>2. JobOK(job')
    BY <1>20, <2>1, JobUpdates DEF SkipFile
  <2>3. rows' \in [Versions -> [Paths -> FileStates]]
    BY <1>20 DEF SkipFile, FileStates
  <2> QED
    BY <1>20, <2>1, <2>2, <2>3 DEF SkipFile, JobOK
<1>21. ASSUME NEW x \in Paths, WriteFile(x)
      PROVE  TypeOK'
  <2>1. JobOK(job')
    BY <1>21, JobWrites DEF WriteFile
  <2>2. rows' \in [Versions -> [Paths -> FileStates]]
    BY <1>21 DEF WriteFile, FileStates
  <2> QED
    BY <1>21, <2>1, <2>2 DEF WriteFile, JobOK
<1>22. ASSUME NEW x \in Paths, ReplaceFile(x)
      PROVE  TypeOK'
  <2>1. job.paths \ {x} \in SUBSET Paths
    BY <1>22 DEF ReplaceFile, JobType
  <2>2. JobOK(job')
    BY <1>22, <2>1, JobUpdates DEF ReplaceFile
  <2>3. rows' \in [Versions -> [Paths -> FileStates]]
    BY <1>22 DEF ReplaceFile, FileStates
  <2>4. job.version \in Versions
    BY <1>22 DEF ReplaceFile
  <2>5. Files[job.version][x] \in Contents \cup {NoContent}
    BY <1>22, <2>4, FilesType DEF ReplaceFile
  <2>6. disk' \in [Paths -> Contents \cup {NoContent}]
    BY <1>22, <2>5 DEF ReplaceFile
  <2> QED
    BY <1>22, <2>1, <2>2, <2>3, <2>4, <2>5, <2>6 DEF ReplaceFile, JobOK
<1>23. ASSUME NEW x \in Paths, WriteFails(x)
      PROVE  TypeOK'
  <2>1. job.phase # "idle" /\ job' =
       [job EXCEPT !.writing = NoPath, !.failed = TRUE]
    BY <1>23 DEF WriteFails
  <2>2. JobOK(job')
    BY <2>1, JobUpdates
  <2>3. rows' \in [Versions -> [Paths -> FileStates]]
    BY <1>23 DEF WriteFails, FileStates
  <2>4. spent' \in [{"syncs", "cancels", "faults", "crashes"} -> Nat]
    BY <1>23, SpendType DEF WriteFails, Fault
  <2> QED
    BY <1>23, <2>1, <2>2, <2>3, <2>4 DEF WriteFails, JobOK
<1>24. ASSUME NEW x \in Paths, Prune(x)
      PROVE  TypeOK'
  <2>1. JobOK(job')
    BY <1>24, JobUpdates DEF Prune, JobType, JobOK
  <2>2. disk' \in [Paths -> Contents \cup {NoContent}]
    BY <1>24 DEF Prune
  <2>3. spent' \in [{"syncs", "cancels", "faults", "crashes"} -> Nat]
    BY <1>24, SpendType DEF Prune, Fault
  <2> QED
    BY <1>24, <2>1, <2>2, <2>3 DEF Prune, JobOK
<1>25. ASSUME NEW x \in Chunks, ReapChunk(x)
      PROVE  TypeOK'
  <2>1. reap' \in [on : BOOLEAN, keep : SUBSET Chunks, todo : SUBSET Chunks]
    BY <1>25 DEF ReapChunk
  <2>2. store' \subseteq Chunks /\ aged' \subseteq store'
    BY <1>25 DEF ReapChunk
  <2>3. spent' \in [{"syncs", "cancels", "faults", "crashes"} -> Nat]
    BY <1>25, SpendType DEF ReapChunk, Fault
  <2> QED
    BY <1>25, <2>1, <2>2, <2>3 DEF ReapChunk
<1>26. CASE UNCHANGED vars
  BY <1>26
<1> QED
  BY <1>1, <1>2, <1>3, <1>4, <1>5, <1>6, <1>7, <1>8, <1>9, <1>10, <1>11,
     <1>12, <1>13, <1>14, <1>15, <1>16, <1>17, <1>18, <1>19, <1>20,
     <1>21, <1>22, <1>23, <1>24, <1>25, <1>26
  DEF Next, Worker, Setup, Download, Assembly, Reaper
----------------------------------------------------------------------------
(* Initially IInv holds: nothing is there and nothing runs.                *)
LEMMA InvInit == Init => IInv
BY TypeInit, SyncAssumption
DEF Init, IInv, Provenance, Progress, Whole, Swept, NoJob, Written

(* Every step keeps what IInv adds to TypeOK.                              *)
LEMMA InvStep ==
  ASSUME IInv, TypeOK', [Next]_vars
  PROVE  Provenance' /\ Progress' /\ Whole'
<1> USE DEF IInv
<1>1. CASE SetupEnds
  <2>1. /\ job'.phase = "idle"
       /\ job'.writing = NoPath
       /\ job'.failed = FALSE
       /\ job'.version = NoVersion
    BY <1>1 DEF SetupEnds, TypeOK, JobType, NoJob
  <2>2. Provenance'
    BY <1>1, <2>1 DEF SetupEnds, Provenance, Written
  <2>3. Progress'
    BY <1>1, <2>1 DEF SetupEnds, Progress, PathsOf
  <2>4. Whole'
    BY <1>1, <2>1 DEF SetupEnds, Whole, Swept, Installed, PathsOf
  <2> QED
    BY <2>2, <2>3, <2>4
<1>2. CASE Register
  <2>1. /\ job'.phase = "registered"
       /\ job'.version = job.version
       /\ job'.paths = job.paths
       /\ job'.writing = job.writing
       /\ job'.failed = job.failed
       /\ job'.cut = job.cut
    BY <1>2 DEF Register, TypeOK, JobType, NoJob
  <2>2. \A v \in Versions, p \in Paths :
         rows[v][p] \notin {"none", "planned"}
           => rows'[v][p] = rows[v][p]
    BY <1>2, <2>1 DEF Register, Provenance, TypeOK
  <2>3. Written \subseteq Written'
    BY <1>2, <2>1, <2>2 DEF Register, Written
  <2>4. Provenance'
    BY <1>2, <2>1, <2>2, <2>3 DEF Register, Provenance, Written, TypeOK
  <2>5. Progress'
    BY <1>2, <2>1, <2>2, <2>3 DEF Register, Progress, PathsOf
  <2>6. Whole'
    BY <1>2, <2>1, <2>2, <2>3 DEF Register, Whole, Swept, Installed, PathsOf
  <2> QED
    BY <2>4, <2>5, <2>6
<1>3. CASE BeginDownload
  <2>1. \/ cancel /\ job' = NoJob
       \/ /\ ~cancel
          /\ job' = [job EXCEPT !.phase = "looking",
                               !.chunks = ChunkSet(job.version)]
    BY <1>3 DEF BeginDownload, Settle
  <2>2. \/ /\ cancel /\ job'.phase = "idle" /\ job'.failed = FALSE
          /\ job'.writing = NoPath
       \/ /\ ~cancel /\ job'.phase = "looking"
          /\ job'.version = job.version
          /\ job'.failed = job.failed /\ job'.writing = job.writing
    <3>1. CASE cancel /\ job' = NoJob
      BY <3>1 DEF NoJob
    <3>2. CASE /\ ~cancel
               /\ job' = [job EXCEPT !.phase = "looking",
                                    !.chunks = ChunkSet(job.version)]
      BY <3>2 DEF TypeOK, JobType
    <3> QED
      BY <2>1, <3>1, <3>2
  <2>3. Provenance'
    BY <1>3, <2>2, <2>2 DEF BeginDownload, Provenance, Written, TypeOK, Settle
  <2>4. Progress'
    BY <1>3, <2>2, <2>2 DEF BeginDownload, Progress, TypeOK, Active, PathsOf
  <2>5. Whole'
    BY <1>3, <2>2, <2>2 DEF BeginDownload, Whole, Swept, Installed, PathsOf
  <2> QED
    BY <2>3, <2>4, <2>5
<1>4. CASE Look
  <2>1. /\ job'.phase = "fetching"
       /\ job'.version = job.version
       /\ job'.paths = job.paths
       /\ job'.writing = job.writing
       /\ job'.failed = job.failed
       /\ job'.cut = job.cut
    BY <1>4 DEF Look, TypeOK, JobType, NoJob
  <2>2. Provenance'
    BY <1>4, <2>1 DEF Look, Provenance, Written
  <2>3. Progress'
    BY <1>4, <2>1 DEF Look, Progress, PathsOf
  <2>4. Whole'
    BY <1>4, <2>1 DEF Look, Whole, Swept, Installed, PathsOf
  <2> QED
    BY <2>2, <2>3, <2>4
<1>5. CASE EndDownload
  <2>1. \/ /\ job'.phase = "idle" /\ job'.failed = FALSE
          /\ job'.writing = NoPath
       \/ /\ job'.phase = "fetched" /\ job'.version = job.version
          /\ job'.failed = FALSE /\ job'.writing = job.writing
          /\ dist' = [dist EXCEPT ![job.version] = "assembling"]
    BY <1>5 DEF EndDownload, TypeOK, JobType, NoJob, Settle
  <2>2. Provenance'
    BY <1>5, <2>1 DEF EndDownload, Provenance, Written, TypeOK, Settle
  <2>3. Progress'
    BY <1>5, <2>1 DEF EndDownload, Progress, TypeOK, Active, PathsOf
  <2>4. Whole'
    BY <1>5, <2>1 DEF EndDownload, Whole, Swept, Installed, PathsOf
  <2> QED
    BY <2>2, <2>3, <2>4
<1>6. CASE BeginAssembly
  <2>1. /\ job'.version = job.version /\ job'.failed = job.failed
       /\ job'.writing = job.writing
       /\ \/ job'.phase = "closing" /\ cancel
          \/ job'.phase = "assembling" /\ job'.paths = PathsOf(job.version)
    BY <1>6 DEF BeginAssembly, TypeOK, JobType, NoJob
  <2>2. Provenance'
    BY <1>6, <2>1 DEF BeginAssembly, Provenance, Written
  <2>3. Progress'
    BY <1>6, <2>1 DEF BeginAssembly, Progress, PathsOf
  <2>4. Whole'
    BY <1>6, <2>1 DEF BeginAssembly, Whole, Swept, Installed, PathsOf
  <2> QED
    BY <2>2, <2>3, <2>4
<1>7. CASE EndAssembly
  <2>1. \/ job' = NoJob
       \/ /\ UNCHANGED dist /\ ~job.failed
          /\ job' = [job EXCEPT !.phase = "pruning",
                                !.cut = job.paths # {},
                                !.paths = Written \ PathsOf(job.version)]
    BY <1>7 DEF EndAssembly, Settle
  <2>2. \/ /\ job'.phase = "idle" /\ job'.failed = FALSE
          /\ job'.writing = NoPath
       \/ /\ UNCHANGED dist /\ ~job.failed
          /\ job'.phase = "pruning" /\ job'.version = job.version
          /\ job'.failed = job.failed /\ job'.writing = job.writing
          /\ job'.paths = Written \ PathsOf(job.version)
          /\ job'.cut = (job.paths # {})
    <3>1. CASE job' = NoJob
      BY <3>1 DEF NoJob
    <3>2. CASE /\ UNCHANGED dist /\ ~job.failed
               /\ job' = [job EXCEPT !.phase = "pruning",
                                     !.cut = job.paths # {},
                                     !.paths = Written \ PathsOf(job.version)]
      BY <3>2 DEF TypeOK, JobType
    <3> QED
      BY <2>1, <3>1, <3>2
  <2>3. Provenance'
    BY <1>7, <2>2, <2>2 DEF EndAssembly, Provenance, Written, TypeOK, Settle
  <2>4. Progress'
    BY <1>7, <2>2, <2>2 DEF EndAssembly, Progress, PathsOf
  <2>5. Whole'
    BY <1>7, <2>2, <2>2
    DEF EndAssembly, Whole, Swept, Installed, PathsOf, Progress, Provenance
  <2> QED
    BY <2>3, <2>4, <2>5
<1>8. CASE EndPrune
  <2>1. /\ job'.phase = "closing"
       /\ job'.version = job.version
       /\ job'.paths = job.paths
       /\ job'.writing = job.writing
       /\ job'.failed = job.failed
       /\ job'.cut = job.cut
    BY <1>8 DEF EndPrune, TypeOK, JobType, NoJob
  <2>2. Provenance'
    BY <1>8, <2>1 DEF EndPrune, Provenance, Written
  <2>3. Progress'
    BY <1>8, <2>1 DEF EndPrune, Progress, PathsOf
  <2>4. Whole'
    BY <1>8, <2>1 DEF EndPrune, Whole, Swept, Installed, PathsOf
  <2> QED
    BY <2>2, <2>3, <2>4
<1>9. CASE Close
  <2>1. /\ job'.phase = "idle"
       /\ job'.writing = NoPath
       /\ job'.failed = FALSE
       /\ job'.version = NoVersion
    BY <1>9 DEF Close, TypeOK, JobType, NoJob, Settle
  <2>2. Provenance'
    BY <1>9, <2>1 DEF Close, Provenance, Written, TypeOK, Settle
  <2>3. Progress'
    BY <1>9, <2>1 DEF Close, Progress, PathsOf
  <2>4. Whole'
    BY <1>9, <2>1 DEF Close, Whole, Swept, Installed, PathsOf
  <2> QED
    BY <2>2, <2>3, <2>4
<1>10. CASE CancelSync
  <2>1. /\ job'.phase = job.phase
       /\ job'.version = job.version
       /\ job'.paths = job.paths
       /\ job'.writing = job.writing
       /\ job'.failed = job.failed
       /\ job'.cut = job.cut
    BY <1>10 DEF CancelSync, TypeOK, JobType, NoJob
  <2>2. Provenance'
    BY <1>10, <2>1 DEF CancelSync, Provenance, Written
  <2>3. Progress'
    BY <1>10, <2>1 DEF CancelSync, Progress, PathsOf
  <2>4. Whole'
    BY <1>10, <2>1 DEF CancelSync, Whole, Swept, Installed, PathsOf
  <2> QED
    BY <2>2, <2>3, <2>4
<1>11. CASE ReapBegins
  <2>1. Provenance'
    BY <1>11 DEF ReapBegins, Provenance, Written
  <2>2. Progress'
    BY <1>11 DEF ReapBegins, Progress, PathsOf
  <2>3. Whole'
    BY <1>11 DEF ReapBegins, Whole, Swept, Installed, PathsOf
  <2> QED
    BY <2>1, <2>2, <2>3
<1>12. CASE ReapEnds
  <2>1. Provenance'
    BY <1>12 DEF ReapEnds, Provenance, Written
  <2>2. Progress'
    BY <1>12 DEF ReapEnds, Progress, PathsOf
  <2>3. Whole'
    BY <1>12 DEF ReapEnds, Whole, Swept, Installed, PathsOf
  <2> QED
    BY <2>1, <2>2, <2>3
<1>13. CASE DayPasses
  <2>1. Provenance'
    BY <1>13 DEF DayPasses, Provenance, Written
  <2>2. Progress'
    BY <1>13 DEF DayPasses, Progress, PathsOf
  <2>3. Whole'
    BY <1>13 DEF DayPasses, Whole, Swept, Installed, PathsOf
  <2> QED
    BY <2>1, <2>2, <2>3
<1>14. CASE Crash
  <2>1. /\ job'.phase = "idle"
       /\ job'.writing = NoPath
       /\ job'.failed = FALSE
       /\ job'.version = NoVersion
    BY <1>14 DEF Crash, TypeOK, JobType, NoJob
  <2>2. Provenance'
    BY <1>14, <2>1 DEF Crash, Provenance, Written
  <2>3. Progress'
    BY <1>14, <2>1 DEF Crash, Progress, PathsOf
  <2>4. Whole'
    BY <1>14, <2>1 DEF Crash, Whole, Swept, Installed, PathsOf
  <2> QED
    BY <2>2, <2>3, <2>4
<1>15. ASSUME NEW x \in Versions, Accept(x)
      PROVE  Provenance' /\ Progress' /\ Whole'
  <2>1. /\ job'.phase = "setup"
       /\ job'.failed = FALSE
       /\ job'.writing = NoPath
    BY <1>15 DEF Accept, TypeOK, JobType, NoJob
  <2>2. Provenance'
    BY <1>15, <2>1 DEF Accept, Provenance, Written
  <2>3. Progress'
    BY <1>15, <2>1 DEF Accept, Progress, PathsOf
  <2>4. Whole'
    BY <1>15, <2>1 DEF Accept, Whole, Swept, Installed, PathsOf
  <2> QED
    BY <2>2, <2>3, <2>4
<1>16. ASSUME NEW x \in Versions, Scrub(x)
      PROVE  Provenance' /\ Progress' /\ Whole'
  <2>1. Provenance'
    BY <1>16 DEF Scrub, Provenance, Written
  <2>2. Progress'
    BY <1>16 DEF Scrub, Progress, PathsOf
  <2>3. Whole'
    BY <1>16 DEF Scrub, Whole, Swept, Installed, PathsOf
  <2> QED
    BY <2>1, <2>2, <2>3
<1>17. ASSUME NEW x \in Chunks, Fetch(x)
      PROVE  Provenance' /\ Progress' /\ Whole'
  <2>1. /\ job'.phase = job.phase
       /\ job'.version = job.version
       /\ job'.paths = job.paths
       /\ job'.writing = job.writing
       /\ job'.failed = job.failed
       /\ job'.cut = job.cut
    BY <1>17 DEF Fetch, TypeOK, JobType, NoJob
  <2>2. Provenance'
    BY <1>17, <2>1 DEF Fetch, Provenance, Written
  <2>3. Progress'
    BY <1>17, <2>1 DEF Fetch, Progress, PathsOf
  <2>4. Whole'
    BY <1>17, <2>1 DEF Fetch, Whole, Swept, Installed, PathsOf
  <2> QED
    BY <2>2, <2>3, <2>4
<1>18. ASSUME NEW x \in Chunks, FetchStops(x)
      PROVE  Provenance' /\ Progress' /\ Whole'
  <2>1. /\ job'.phase = job.phase
       /\ job'.version = job.version
       /\ job'.paths = job.paths
       /\ job'.writing = job.writing
       /\ job'.failed = job.failed
       /\ job'.cut = job.cut
    BY <1>18 DEF FetchStops, TypeOK, JobType, NoJob
  <2>2. Provenance'
    BY <1>18, <2>1 DEF FetchStops, Provenance, Written
  <2>3. Progress'
    BY <1>18, <2>1 DEF FetchStops, Progress, PathsOf
  <2>4. Whole'
    BY <1>18, <2>1 DEF FetchStops, Whole, Swept, Installed, PathsOf
  <2> QED
    BY <2>2, <2>3, <2>4
<1>19. ASSUME NEW x \in Chunks, FetchFails(x)
      PROVE  Provenance' /\ Progress' /\ Whole'
  <2>1. /\ job'.phase = job.phase
       /\ job'.version = job.version
       /\ job'.paths = job.paths
       /\ job'.writing = job.writing
       /\ job'.failed = TRUE
       /\ job'.cut = job.cut
    BY <1>19 DEF FetchFails, TypeOK, JobType, NoJob
  <2>2. Provenance'
    BY <1>19, <2>1 DEF FetchFails, Provenance, Written
  <2>3. Progress'
    BY <1>19, <2>1 DEF FetchFails, Progress, PathsOf
  <2>4. Whole'
    BY <1>19, <2>1 DEF FetchFails, Whole, Swept, Installed, PathsOf
  <2> QED
    BY <2>2, <2>3, <2>4
<1>20. ASSUME NEW x \in Paths, SkipFile(x)
      PROVE  Provenance' /\ Progress' /\ Whole'
  <2>1. /\ job'.phase = job.phase
       /\ job'.version = job.version
       /\ job'.paths = job.paths \ {x}
       /\ job'.writing = job.writing
       /\ job'.failed = job.failed
       /\ job'.cut = job.cut
    BY <1>20 DEF SkipFile, TypeOK, JobType, NoJob
  <2>2. dist[job.version] # "none" /\ job.version \in Versions
    BY <1>20, <2>1 DEF SkipFile, Progress, Active, TypeOK
  <2>3. Provenance'
    BY <1>20, <2>1, <2>2 DEF SkipFile, Provenance, Written, TypeOK
  <2>4. Progress'
    BY <1>20, <2>1, <2>2 DEF SkipFile, Progress, PathsOf
  <2>5. Whole'
    BY <1>20, <2>1, <2>2 DEF SkipFile, Whole, Swept, Installed, PathsOf
  <2> QED
    BY <2>3, <2>4, <2>5
<1>21. ASSUME NEW x \in Paths, WriteFile(x)
      PROVE  Provenance' /\ Progress' /\ Whole'
  <2>1. /\ job'.phase = job.phase
       /\ job'.version = job.version
       /\ job'.paths = job.paths
       /\ job'.writing = x
       /\ job'.failed = job.failed
       /\ job'.cut = job.cut
    BY <1>21 DEF WriteFile, TypeOK, JobType, NoJob
  <2>2. dist[job.version] # "none" /\ job.version \in Versions
    BY <1>21, <2>1 DEF WriteFile, Progress, Active, TypeOK
  <2>3. Provenance'
    BY <1>21, <2>1, <2>2 DEF WriteFile, Provenance, Written, TypeOK
  <2>4. Progress'
    BY <1>21, <2>1, <2>2 DEF WriteFile, Progress, PathsOf
  <2>5. Whole'
    BY <1>21, <2>1, <2>2 DEF WriteFile, Whole, Swept, Installed, PathsOf
  <2> QED
    BY <2>3, <2>4, <2>5
<1>22. ASSUME NEW x \in Paths, ReplaceFile(x)
      PROVE  Provenance' /\ Progress' /\ Whole'
  <2>1. /\ job'.phase = job.phase
       /\ job'.version = job.version
       /\ job'.paths = job.paths \ {x}
       /\ job'.writing = NoPath
       /\ job'.failed = job.failed
       /\ job'.cut = job.cut
    BY <1>22 DEF ReplaceFile, TypeOK, JobType, NoJob
  <2>2. dist[job.version] # "none" /\ job.version \in Versions
    BY <1>22, <2>1 DEF ReplaceFile, Progress, Active, TypeOK
  <2>3. x \in PathsOf(job.version) /\ disk'[x] = Files[job.version][x]
    BY <1>22, <2>1, <2>2, SyncAssumption DEF ReplaceFile, Progress, TypeOK
  <2>4. Fits(disk'[x], Files[job.version][x])
    BY <1>22, <2>1, <2>2, <2>3 DEF ReplaceFile, PathsOf, Fits
  <2>5. Provenance'
    BY <1>22, <2>1, <2>2, <2>3, <2>4
    DEF ReplaceFile, Provenance, Written, TypeOK
  <2>6. Progress'
    BY <1>22, <2>1, <2>2, <2>3, <2>4 DEF ReplaceFile, Progress, PathsOf, TypeOK
  <2>7. Whole'
    BY <1>22, <2>1, <2>2, <2>3, <2>4
    DEF ReplaceFile, Whole, Swept, Installed, PathsOf
  <2> QED
    BY <2>5, <2>6, <2>7
<1>23. ASSUME NEW x \in Paths, WriteFails(x)
      PROVE  Provenance' /\ Progress' /\ Whole'
  <2>1. /\ job'.phase = job.phase
       /\ job'.version = job.version
       /\ job'.paths = job.paths
       /\ job'.writing = NoPath
       /\ job'.failed = TRUE
       /\ job'.cut = job.cut
    BY <1>23 DEF WriteFails, TypeOK, JobType, NoJob
  <2>2. dist[job.version] # "none" /\ job.version \in Versions
    BY <1>23, <2>1 DEF WriteFails, Progress, Active, TypeOK
  <2>3. Provenance'
    BY <1>23, <2>1, <2>2 DEF WriteFails, Provenance, Written, TypeOK
  <2>4. Progress'
    BY <1>23, <2>1, <2>2 DEF WriteFails, Progress, PathsOf
  <2>5. Whole'
    BY <1>23, <2>1, <2>2 DEF WriteFails, Whole, Swept, Installed, PathsOf
  <2> QED
    BY <2>3, <2>4, <2>5
<1>24. ASSUME NEW x \in Paths, Prune(x)
      PROVE  Provenance' /\ Progress' /\ Whole'
  <2>1. /\ job'.phase = job.phase
       /\ job'.version = job.version
       /\ job'.paths = job.paths \ {x}
       /\ job'.writing = job.writing
       /\ job'.failed = job.failed
       /\ job'.cut = job.cut
    BY <1>24 DEF Prune, TypeOK, JobType, NoJob
  <2>2. Provenance'
    BY <1>24, <2>1 DEF Prune, Provenance, Written, TypeOK
  <2>3. Progress'
    BY <1>24, <2>1 DEF Prune, Progress, PathsOf
  <2>4. Whole'
    BY <1>24, <2>1 DEF Prune, Whole, Swept, Installed, PathsOf, TypeOK
  <2> QED
    BY <2>2, <2>3, <2>4
<1>25. ASSUME NEW x \in Chunks, ReapChunk(x)
      PROVE  Provenance' /\ Progress' /\ Whole'
  <2>1. Provenance'
    BY <1>25 DEF ReapChunk, Provenance, Written
  <2>2. Progress'
    BY <1>25 DEF ReapChunk, Progress, PathsOf
  <2>3. Whole'
    BY <1>25 DEF ReapChunk, Whole, Swept, Installed, PathsOf
  <2> QED
    BY <2>1, <2>2, <2>3
<1>26. CASE UNCHANGED vars
  <2>1. Provenance'
    BY <1>26 DEF Provenance, Written
  <2>2. Progress'
    BY <1>26 DEF Progress, PathsOf
  <2>3. Whole'
    BY <1>26 DEF Whole, Swept, Installed, PathsOf
  <2> QED
    BY <2>1, <2>2, <2>3
<1> QED
  BY <1>1, <1>2, <1>3, <1>4, <1>5, <1>6, <1>7, <1>8, <1>9, <1>10, <1>11,
     <1>12, <1>13, <1>14, <1>15, <1>16, <1>17, <1>18, <1>19, <1>20,
     <1>21, <1>22, <1>23, <1>24, <1>25, <1>26
  DEF Next, Worker, Setup, Download, Assembly, Reaper
----------------------------------------------------------------------------
(* What a commit finds.                                                    *)
LEMMA CommitStep ==
  ASSUME IInv, [Next]_vars, NEW v \in Versions,
         dist[v] # "committed", dist'[v] = "committed"
  PROVE  /\ Installed(v)
         /\ \A p \in Paths \ PathsOf(v) : disk[p] = NoContent \/ p \in stuck
<1> USE DEF IInv
<1>1. CASE Close
  <2>1. v = job.version /\ ~cancel
    BY <1>1 DEF Close, Settle, TypeOK
  <2> QED
    BY <1>1, <2>1 DEF Close, Whole, Swept
<1>2. CASE Register \/ BeginDownload \/ EndDownload \/ EndAssembly
  BY <1>2 DEF Register, BeginDownload, EndDownload, EndAssembly, Settle, TypeOK
<1>3. CASE UNCHANGED dist
  BY <1>3
<1>4. \/ Close \/ UNCHANGED dist
      \/ Register \/ BeginDownload \/ EndDownload \/ EndAssembly
  BY DEF Next, Worker, Setup, Download, Assembly, Reaper, Accept, Scrub,
     SetupEnds, Look, Fetch, FetchStops, FetchFails, BeginAssembly, EndPrune,
     SkipFile, WriteFile, ReplaceFile, WriteFails, Prune, CancelSync,
     ReapBegins, ReapChunk, ReapEnds, DayPasses, Crash
<1> QED
  BY <1>1, <1>2, <1>3, <1>4

(* IInv holds in every reachable state.                                    *)
THEOREM Invariance == Spec => []IInv
<1>1. IInv /\ [Next]_vars => IInv'
  <2> SUFFICES ASSUME IInv, [Next]_vars PROVE IInv'
    OBVIOUS
  <2>1. TypeOK'
    BY TypeStep DEF IInv
  <2> QED
    BY <2>1, InvStep DEF IInv
<1> QED
  BY <1>1, InvInit, PTL DEF Spec

(* Rows have states of the schema, the folder holds contents of versions,  *)
(* and aged chunks are chunks of the store, in every run of the engine.    *)
THEOREM TypeCorrect == Spec => []TypeOK
<1>1. IInv => TypeOK
  BY DEF IInv
<1> QED
  BY <1>1, Invariance, PTL

(* _handle_sync_pull sets a row to committed only over a folder that holds *)
(* every file of its version and, but for files that could not be removed, *)
(* nothing else: whatever cancels, failures and crashes came before.       *)
THEOREM CommitsWhatIsInstalled == Spec => CommittedMeansInstalled
<1>1. IInv /\ [Next]_vars =>
        [\A v \in Versions :
           dist[v] # "committed" /\ dist'[v] = "committed"
             => /\ Installed(v)
                /\ \A p \in Paths \ PathsOf(v) :
                     disk[p] = NoContent \/ p \in stuck]_vars
  BY CommitStep
<1> QED
  BY <1>1, Invariance, PTL DEF Spec, CommittedMeansInstalled

----------------------------------------------------------------------------
(* The engine implements RoostFolder.                                      *)

Assembling == job.phase \in {"assembling", "pruning"}

(* The abstract folder starts empty, with nothing wanted.                  *)
LEMMA FolderInit == Init => Folder!Init
BY DEF Init, Folder!Init, NoJob

(* A step that leaves the folder and the assembly alone is a stutter.      *)
LEMMA FolderStutter ==
  ASSUME UNCHANGED disk,
         \/ UNCHANGED <<job.phase, job.version, job.cut>>
         \/ ~Assembling /\ ~Assembling'
  PROVE  UNCHANGED Folder!vars
BY DEF Assembling, Folder!vars

(* One that gives up or finishes an assembly is an End.                    *)
LEMMA FolderEnd ==
  ASSUME UNCHANGED disk, ~Assembling'
  PROVE  Folder!End
BY DEF Assembling, Folder!End

(* Every step of the engine is a step of the folder, or a stutter.         *)
LEMMA FolderStep ==
  ASSUME IInv, IInv', [Next]_vars
  PROVE  [Folder!Next]_(Folder!vars)
<1> USE DEF IInv
<1>1. CASE BeginAssembly
  <2>1. UNCHANGED disk /\ ~Assembling
    BY <1>1 DEF BeginAssembly, Assembling
  <2>2. CASE cancel
    <3>1. ~Assembling'
      BY <1>1, <2>2 DEF BeginAssembly, Assembling, TypeOK, JobType
    <3> QED
      BY <2>1, <3>1, FolderStutter
  <2>3. CASE ~cancel
    <3>1. job'.phase = "assembling" /\ job'.version = job.version
      BY <1>1, <2>3 DEF BeginAssembly, TypeOK, JobType
    <3>2. job.version \in Versions /\ job.phase = "fetched"
      BY <1>1 DEF BeginAssembly, TypeOK
    <3>3. Folder!Begin(job.version)
      BY <2>1, <3>1, <3>2 DEF Folder!Begin
    <3> QED
      BY <3>2, <3>3 DEF Folder!Next
  <2> QED
    BY <2>2, <2>3
<1>2. ASSUME NEW p \in Paths, ReplaceFile(p)
      PROVE  [Folder!Next]_(Folder!vars)
  <2>1. /\ job.phase = "assembling" /\ job'.phase = "assembling"
        /\ job'.version = job.version /\ job.version \in Versions
        /\ p \in PathsOf(job.version)
    BY <1>2, SyncAssumption DEF ReplaceFile, TypeOK, JobType, Progress
  <2>2. disk' = [disk EXCEPT ![p] = Files[job.version][p]]
    BY <1>2 DEF ReplaceFile
  <2>3. Folder!Install(p)
    BY <2>1, <2>2, SyncAssumption DEF Folder!Install, PathsOf, Folder!PathsOf
  <2> QED
    BY <2>3 DEF Folder!Next
<1>3. CASE EndAssembly
  <2>1. UNCHANGED disk /\ job.phase = "assembling" /\ job.version \in Versions
    BY <1>3 DEF EndAssembly, TypeOK
  <2>2. CASE job' = NoJob
    <3>1. ~Assembling'
      BY <2>2 DEF Assembling, NoJob
    <3> QED
      BY <2>1, <3>1, FolderEnd DEF Folder!Next
  <2>3. CASE job' = [job EXCEPT !.phase = "pruning",
                                !.cut = job.paths # {},
                                !.paths = Written \ PathsOf(job.version)]
    <3>1. /\ job'.phase = "pruning" /\ job'.version = job.version
          /\ job'.cut = (job.paths # {})
      BY <2>3 DEF TypeOK, JobType
    <3>2. CASE job'.cut
      <4>1. Folder!CutShort
        BY <2>1, <3>1, <3>2, SyncAssumption DEF Folder!CutShort
      <4> QED
        BY <4>1 DEF Folder!Next
    <3>3. CASE ~job'.cut
      BY <2>1, <3>1, <3>3 DEF Folder!vars
    <3> QED
      BY <3>2, <3>3
  <2> QED
    BY <1>3, <2>2, <2>3 DEF EndAssembly, Settle
<1>4. ASSUME NEW p \in Paths, Prune(p)
      PROVE  [Folder!Next]_(Folder!vars)
  <2>1. /\ job.phase = "pruning" /\ p \in job.paths
        /\ job.version \in Versions
        /\ job'.phase = job.phase /\ job'.version = job.version
        /\ job'.cut = job.cut
    BY <1>4 DEF Prune, TypeOK, JobType
  <2>2. CASE UNCHANGED disk
    BY <2>1, <2>2 DEF Folder!vars
  <2>3. CASE disk' = [disk EXCEPT ![p] = NoContent]
    <3>1. p \notin PathsOf(job.version)
      BY <2>1 DEF Whole
    <3>2. Installed(job.version) \/ job.cut
      BY <2>1 DEF Whole
    <3>3. Folder!Remove(p)
      BY <2>1, <2>3, <3>1, <3>2, SyncAssumption
      DEF Folder!Remove, Folder!Complete, Folder!PathsOf, Folder!Fits,
          Installed, PathsOf, Fits
    <3> QED
      BY <3>3 DEF Folder!Next
  <2> QED
    BY <1>4, <2>2, <2>3 DEF Prune
<1>5. CASE EndPrune \/ Crash
  <2>1. UNCHANGED disk /\ ~Assembling'
    BY <1>5 DEF EndPrune, Crash, Assembling, NoJob, TypeOK, JobType
  <2> QED
    BY <2>1, FolderEnd DEF Folder!Next
<1>6. ASSUME NEW p \in Paths, SkipFile(p) \/ WriteFile(p) \/ WriteFails(p)
      PROVE  [Folder!Next]_(Folder!vars)
  <2>1. UNCHANGED disk /\ UNCHANGED <<job.phase, job.version, job.cut>>
    BY <1>6 DEF SkipFile, WriteFile, WriteFails, TypeOK, JobType
  <2> QED
    BY <2>1, FolderStutter
<1>7. CASE \/ Setup \/ BeginDownload \/ Look \/ EndDownload \/ Close
           \/ \E c \in Chunks : Fetch(c) \/ FetchStops(c) \/ FetchFails(c)
           \/ \E v \in Versions : Accept(v)
  <2>1. UNCHANGED disk
    BY <1>7 DEF Setup, SetupEnds, Register, BeginDownload, Look, EndDownload,
       Close, Fetch, FetchStops, FetchFails, Accept
  <2>2. ~Assembling
    <3>1. CASE \E v \in Versions : Accept(v)
      BY <3>1 DEF Accept, NoJob, Assembling
    <3>2. CASE ~\E v \in Versions : Accept(v)
      BY <1>7, <3>2 DEF Setup, SetupEnds, Register, BeginDownload, Look,
         EndDownload, Close, Fetch, FetchStops, FetchFails, Assembling
    <3> QED
      BY <3>1, <3>2
  <2>3. ~Assembling'
    <3> USE DEF Assembling, NoJob, TypeOK, JobType
    <3>1. CASE Setup
      BY <3>1 DEF Setup, SetupEnds, Register
    <3>2. CASE BeginDownload
      <4>1. CASE cancel
        BY <3>2, <4>1 DEF BeginDownload, Settle
      <4>2. CASE ~cancel
        BY <3>2, <4>2 DEF BeginDownload
      <4> QED
        BY <4>1, <4>2
    <3>3. CASE Look
      BY <3>3 DEF Look
    <3>4. CASE EndDownload
      BY <3>4 DEF EndDownload, Settle
    <3>5. CASE Close
      BY <3>5 DEF Close, Settle
    <3>6. CASE \E c \in Chunks : Fetch(c) \/ FetchStops(c) \/ FetchFails(c)
      BY <3>6 DEF Fetch, FetchStops, FetchFails
    <3>7. CASE \E v \in Versions : Accept(v)
      BY <3>7 DEF Accept
    <3> QED
      BY <1>7, <3>1, <3>2, <3>3, <3>4, <3>5, <3>6, <3>7
  <2> QED
    BY <2>1, <2>2, <2>3, FolderStutter
<1>8. CASE \/ CancelSync \/ Reaper \/ DayPasses \/ UNCHANGED vars
           \/ \E v \in Versions : Scrub(v)
  <2>1. UNCHANGED <<disk, job>>
    BY <1>8 DEF CancelSync, Reaper, ReapBegins, ReapChunk, ReapEnds,
       DayPasses, Scrub
  <2> QED
    BY <2>1, FolderStutter
<1> QED
  BY <1>1, <1>2, <1>3, <1>4, <1>5, <1>6, <1>7, <1>8
  DEF Next, Worker, Download, Assembly

(* The sync engine implements RoostFolder: the folder changes only by a    *)
(* file of the version being assembled, or by the removal of a file that   *)
(* version lacks once it is whole, or its assembly was cut short.          *)
THEOREM ImplementsFolder == Spec => FolderSpec
BY FolderInit, FolderStep, Invariance, PTL DEF Spec, FolderSpec, Folder!Spec
----------------------------------------------------------------------------
(* Nothing of the running sync leaves the store but by the reaper.         *)
LEMMA SuppliedStep ==
  ASSUME IInv, IInv', Supplied, [Next]_vars
  PROVE  Supplied'
<1> USE DEF IInv
<1>0. SUFFICES ASSUME ~raced' PROVE Supplied'
  BY DEF Supplied
<1> raced \in BOOLEAN /\ cancel \in BOOLEAN
  BY DEF TypeOK
<1>1. ~raced
  BY <1>0 DEF Next, Worker, Setup, Download, Assembly, Reaper, Accept, Scrub,
     SetupEnds, Register, BeginDownload, Look, Fetch, FetchStops, FetchFails,
     EndDownload, BeginAssembly, EndAssembly, EndPrune, Close, SkipFile,
     WriteFile, ReplaceFile, WriteFails, Prune, CancelSync, ReapBegins,
     ReapChunk, ReapEnds, DayPasses, Crash
<1>2. /\ ~starved
      /\ job.phase = "looking" => job.chunks = ChunkSet(job.version)
      /\ job.phase = "fetching" /\ ~cancel
           => ChunkSet(job.version) \subseteq store \cup job.chunks
      /\ job.phase \in {"fetched", "assembling"}
           => ChunkSet(job.version) \subseteq store
  BY <1>1 DEF Supplied
<1>3. CASE BeginDownload
  <2>1. UNCHANGED starved
    BY <1>3 DEF BeginDownload
  <2>2. CASE cancel
    BY <1>2, <1>3, <2>1, <2>2 DEF BeginDownload, Settle, NoJob, Supplied
  <2>3. CASE ~cancel
    <3>1. job' = [job EXCEPT !.phase = "looking",
                             !.chunks = ChunkSet(job.version)]
      BY <1>3, <2>3 DEF BeginDownload
    <3>2. /\ job'.phase = "looking" /\ job'.version = job.version
          /\ job'.chunks = ChunkSet(job.version)
      BY <3>1 DEF TypeOK, JobType
    <3> QED
      BY <1>2, <2>1, <3>2 DEF Supplied
  <2> QED
    BY <2>2, <2>3
<1>4. CASE Look
  <2>1. /\ UNCHANGED <<starved, store, cancel>>
        /\ job.phase = "looking"
        /\ job'.phase = "fetching" /\ job'.version = job.version
        /\ ~cancel => job'.chunks = job.chunks \ store
    BY <1>4 DEF Look, TypeOK, JobType
  <2> QED
    BY <1>2, <2>1 DEF Supplied
<1>5. ASSUME NEW c \in Chunks, Fetch(c)
      PROVE  Supplied'
  <2>1. /\ UNCHANGED <<starved, cancel>> /\ store' = store \cup {c}
        /\ job'.phase = "fetching" /\ job'.version = job.version
        /\ job'.chunks = job.chunks \ {c} /\ job.phase = "fetching"
    BY <1>5 DEF Fetch, TypeOK, JobType
  <2> QED
    BY <1>2, <2>1 DEF Supplied
<1>6. ASSUME NEW c \in Chunks, FetchStops(c) \/ FetchFails(c)
      PROVE  Supplied'
  <2>1. UNCHANGED starved /\ job'.phase = "fetching" /\ cancel'
    BY <1>6 DEF FetchStops, FetchFails, TypeOK, JobType
  <2> QED
    BY <1>2, <2>1 DEF Supplied
<1>7. CASE EndDownload
  <2>1. UNCHANGED starved
    BY <1>7 DEF EndDownload
  <2>2. CASE job' = NoJob
    BY <1>2, <2>1, <2>2 DEF Supplied, NoJob
  <2>3. CASE ~cancel /\ job' = [job EXCEPT !.phase = "fetched"]
    <3>1. /\ job'.phase = "fetched" /\ job'.version = job.version
          /\ job.phase = "fetching" /\ job.chunks = {} /\ store' = store
      BY <1>7, <2>3 DEF EndDownload, TypeOK, JobType, Settle, NoJob
    <3> QED
      BY <1>2, <2>1, <2>3, <3>1 DEF Supplied
  <2> QED
    BY <1>7, <2>2, <2>3 DEF EndDownload, Settle
<1>8. CASE BeginAssembly
  <2>1. /\ UNCHANGED <<starved, store>>
        /\ job.phase = "fetched" /\ job'.version = job.version
        /\ job'.phase \in {"closing", "assembling"}
    BY <1>8 DEF BeginAssembly, TypeOK, JobType
  <2> QED
    BY <1>2, <2>1 DEF Supplied
<1>9. ASSUME NEW p \in Paths, SkipFile(p) \/ WriteFile(p) \/ ReplaceFile(p)
      PROVE  Supplied'
  <2>1. /\ UNCHANGED <<starved, store>>
        /\ job'.phase = "assembling" /\ job'.version = job.version
        /\ job.phase = "assembling"
    BY <1>9 DEF SkipFile, WriteFile, ReplaceFile, TypeOK, JobType
  <2> QED
    BY <1>2, <2>1 DEF Supplied
<1>10. ASSUME NEW p \in Paths, WriteFails(p)
       PROVE  Supplied'
  <2>1. /\ job.phase = "assembling" /\ job.writing = p /\ store' = store
        /\ job'.phase = "assembling" /\ job'.version = job.version
    BY <1>10 DEF WriteFails, TypeOK, JobType
  <2>2. p \in PathsOf(job.version) /\ job.version \in Versions
    BY <2>1, SyncAssumption DEF Progress, TypeOK
  <2>3. ChunksOf[Files[job.version][p]] \subseteq store
    BY <1>2, <2>1, <2>2, FileChunks
  <2>4. UNCHANGED starved
    BY <1>10, <2>3 DEF WriteFails
  <2> QED
    BY <1>2, <2>1, <2>4 DEF Supplied
<1>11. CASE EndAssembly
  <2>1. UNCHANGED starved /\ job'.phase \in {"idle", "pruning"}
    <3>1. CASE job' = NoJob
      BY <1>11, <3>1 DEF EndAssembly, NoJob
    <3>2. CASE job' # NoJob
      BY <1>11, <3>2 DEF EndAssembly, Settle, TypeOK, JobType
    <3> QED
      BY <3>1, <3>2
  <2> QED
    BY <1>2, <2>1 DEF Supplied
<1>12. ASSUME NEW p \in Paths, Prune(p)
       PROVE  Supplied'
  <2>1. UNCHANGED starved /\ job'.phase = "pruning"
    BY <1>12 DEF Prune, TypeOK, JobType
  <2> QED
    BY <1>2, <2>1 DEF Supplied
<1>13. CASE EndPrune
  <2>1. UNCHANGED starved /\ job'.phase = "closing"
    BY <1>13 DEF EndPrune, TypeOK, JobType
  <2> QED
    BY <1>2, <2>1 DEF Supplied
<1>14. CASE Setup \/ Close \/ Crash \/ \E v \in Versions : Accept(v)
  <2>1. UNCHANGED starved
    BY <1>14 DEF Setup, SetupEnds, Register, Close, Crash, Accept
  <2>2. job'.phase \in {"idle", "setup", "registered"}
    <3>1. CASE Register
      BY <3>1 DEF Register, TypeOK, JobType
    <3>2. CASE SetupEnds \/ Close \/ Crash
      BY <3>2 DEF SetupEnds, Close, Crash, NoJob, Settle
    <3>3. CASE \E v \in Versions : Accept(v)
      BY <3>3 DEF Accept, NoJob
    <3> QED
      BY <1>14, <3>1, <3>2, <3>3 DEF Setup
  <2> QED
    BY <1>2, <2>1, <2>2 DEF Supplied
<1>15. CASE CancelSync
  BY <1>2, <1>15 DEF CancelSync, Supplied
<1>16. ASSUME NEW c \in Chunks, ReapChunk(c)
       PROVE  Supplied'
  <2>1. UNCHANGED <<job, cancel, starved, dist>>
    BY <1>16 DEF ReapChunk
  <2>2. store' = store \/ (store' = store \ {c} /\ c \notin Referenced)
    BY <1>0, <1>16 DEF ReapChunk
  <2>3. CASE store' = store
    BY <1>2, <2>1, <2>3 DEF Supplied
  <2>4. CASE store' = store \ {c} /\ c \notin Referenced
    <3>1. job.phase \in {"fetching", "fetched", "assembling"}
            => c \notin ChunkSet(job.version)
      BY <2>4 DEF Referenced, Progress, TypeOK
    <3> QED
      BY <1>2, <2>1, <2>4, <3>1 DEF Supplied
  <2> QED
    BY <2>2, <2>3, <2>4
<1>17. CASE \/ ReapBegins \/ ReapEnds \/ DayPasses \/ UNCHANGED vars
            \/ \E v \in Versions : Scrub(v)
  <2>1. UNCHANGED <<job, cancel, starved, store>>
    BY <1>17 DEF ReapBegins, ReapEnds, DayPasses, Scrub
  <2> QED
    BY <1>2, <2>1 DEF Supplied
<1> QED
  BY <1>3, <1>4, <1>5, <1>6, <1>7, <1>8, <1>9, <1>10, <1>11, <1>12, <1>13,
     <1>14, <1>15, <1>16, <1>17
  DEF Next, Worker, Download, Assembly, Reaper

(* A file that finds a chunk of its own missing when it is assembled has   *)
(* lost it to the reaper: download_all has left nothing out, and nothing   *)
(* else removes a chunk while the sync runs.                               *)
THEOREM NeverStarvedOtherwise == Spec => []StarvedOnlyByReaper
<1>1. Init => Supplied
  BY DEF Init, Supplied, NoJob
<1>2. Supplied => StarvedOnlyByReaper
  BY DEF Supplied, StarvedOnlyByReaper
<1>3. IInv /\ IInv' /\ Supplied /\ [Next]_vars => Supplied'
  BY SuppliedStep
<1> QED
  BY <1>1, <1>2, <1>3, Invariance, PTL DEF Spec
=============================================================================

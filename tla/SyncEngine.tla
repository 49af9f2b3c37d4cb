----------------------------- MODULE SyncEngine -----------------------------
(***************************************************************************)
(* The sync engine of one agent and one roost: the slow lane's sync_pull   *)
(* (register, look for chunks, fetch, assemble, prune, release), the       *)
(* cancel_sync that may arrive at any time, the thread that scrubs folders *)
(* and reaps cached chunks, and a process that may die between any two     *)
(* writes.  Rows are in sqlite; chunks and files are on disk.              *)
(***************************************************************************)
EXTENDS Naturals, FiniteSets

CONSTANTS Versions, NoVersion,
          Paths, NoPath,
          Contents, NoContent,
          Files,       \* Files[v][p]: what v has at p, or NoContent
          SizeOf,      \* SizeOf[x]: the size of content x
          ChunksOf,    \* ChunksOf[x]: the chunks content x is made of
          Chunks,
          MaxSyncs,    \* bound on sync_pull commands
          MaxCancels,  \* bound on cancel_sync commands
          MaxFaults,   \* bound on failing downloads, writes and unlinks
          MaxCrashes   \* bound on dying processes

ASSUME SyncAssumption ==
  /\ NoVersion \notin Versions /\ NoPath \notin Paths
  /\ NoContent \notin Contents
  /\ Files \in [Versions -> [Paths -> Contents \cup {NoContent}]]
  /\ ChunksOf \in [Contents -> SUBSET Chunks]
  /\ MaxSyncs \in Nat /\ MaxCancels \in Nat
  /\ MaxFaults \in Nat /\ MaxCrashes \in Nat

VARIABLES dist,      \* dist[v]: the state of v's row in distributions
          rows,      \* rows[v][p]: the state of its row in files
          disk,      \* disk[p]: what is in the folder
          store,     \* chunks in the content store
          aged,      \* those older than a day
          job,       \* the sync_pull that is running
          cancel,    \* its cancel event
          reap,      \* the run of the reaper
          current,   \* history: the version committed last
          drifted,   \* history: versions a scrub has found drift in
          raced,     \* history: the reaper took a chunk of an active sync
          starved,   \* history: a file lacked a chunk at assembly
          stuck,     \* history: paths a prune could not remove
          spent      \* syncs, cancels, faults and crashes so far

history == <<current, drifted, raced, starved, stuck>>
vars == <<dist, rows, disk, store, aged, job, cancel, reap, history, spent>>

Active == {"pending", "downloading", "assembling"}
DistStates == Active \cup {"none", "committed", "failed", "cancelled"}
FileStates == {"none", "planned", "assembling", "committed", "failed"}
Phases == {"idle", "setup", "registered", "looking", "fetching", "fetched",
           "assembling", "pruning", "closing"}

PathsOf(v) == {p \in Paths : Files[v][p] # NoContent}
ChunkSet(v) == UNION {ChunksOf[Files[v][p]] : p \in PathsOf(v)}

(* A file that is there and has the right size is taken for the right one. *)
Fits(have, want) == have # NoContent /\ SizeOf[have] = SizeOf[want]
Installed(v) == \A p \in PathsOf(v) : Fits(disk[p], Files[v][p])

NoJob == [phase |-> "idle", version |-> NoVersion, chunks |-> {},
          paths |-> {}, writing |-> NoPath, wrote |-> FALSE,
          failed |-> FALSE, cut |-> FALSE]
NoReap == [on |-> FALSE, keep |-> {}, todo |-> {}]

Spend(kind, bound) ==
  /\ spent[kind] < bound
  /\ spent' = [spent EXCEPT ![kind] = @ + 1]
Fault == Spend("faults", MaxFaults)

Init ==
  /\ dist = [v \in Versions |-> "none"]
  /\ rows = [v \in Versions |-> [p \in Paths |-> "none"]]
  /\ disk = [p \in Paths |-> NoContent]
  /\ store = {} /\ aged = {}
  /\ job = NoJob /\ cancel = FALSE /\ reap = NoReap
  /\ current = NoVersion /\ drifted = {} /\ stuck = {}
  /\ raced = FALSE /\ starved = FALSE
  /\ spent = [k \in {"syncs", "cancels", "faults", "crashes"} |-> 0]

----------------------------------------------------------------------------
(* _handle_sync_pull up to start_distribution.                             *)

Accept(v) ==
  /\ job = NoJob
  /\ Spend("syncs", MaxSyncs)
  /\ job' = [NoJob EXCEPT !.phase = "setup", !.version = v]
  /\ cancel' = FALSE
  /\ UNCHANGED <<dist, rows, disk, store, aged, reap, history>>

(* Cancelled, switched off, refused, or the version cannot be fetched.     *)
SetupEnds ==
  /\ job.phase = "setup"
  /\ \/ cancel /\ UNCHANGED spent
     \/ Fault
  /\ job' = NoJob
  /\ UNCHANGED <<dist, rows, disk, store, aged, cancel, reap, history>>

(* start_distribution; a row that exists already is resumed as it is.      *)
Register ==
  LET v == job.version IN
  /\ job.phase = "setup"
  /\ ~cancel
  /\ \/ /\ dist[v] = "none"
        /\ dist' = [dist EXCEPT ![v] = "pending"]
        /\ rows' = [rows EXCEPT ![v] = [p \in Paths |->
                     IF p \in PathsOf(v) THEN "planned" ELSE "none"]]
     \/ dist[v] # "none" /\ UNCHANGED <<dist, rows>>
  /\ job' = [job EXCEPT !.phase = "registered"]
  /\ UNCHANGED <<disk, store, aged, cancel, reap, history, spent>>

(* Mutant: a state the schema does not know.                               *)
MutSettle(state) ==
  /\ dist' = [dist EXCEPT ![job.version] =
                IF state = "failed" THEN "error" ELSE state]
  /\ job' = NoJob

Settle(state) ==
  /\ dist' = [dist EXCEPT ![job.version] = state]
  /\ job' = NoJob

(* A chunk blob that cannot be deleted stays.                              *)
ReleaseChunks ==
  \E kept \in SUBSET (store \cap ChunkSet(job.version)) :
    /\ kept # {} => spent.faults < MaxFaults
    /\ store' = (store \ ChunkSet(job.version)) \cup kept
    /\ aged' = aged \cap store'

----------------------------------------------------------------------------
(* download_all.                                                           *)

BeginDownload ==
  /\ job.phase = "registered"
  /\ IF cancel
     THEN Settle("cancelled")
     ELSE /\ dist' = [dist EXCEPT ![job.version] = "downloading"]
          /\ job' = [job EXCEPT !.phase = "looking",
                                !.chunks = ChunkSet(job.version)]
  /\ UNCHANGED <<rows, disk, store, aged, cancel, reap, history, spent>>

(* Mutant: only what is new against the version committed last is fetched. *)
MutLook ==
  /\ job.phase = "looking"
  /\ job' = [job EXCEPT !.phase = "fetching",
                        !.chunks = IF cancel THEN {}
                                   ELSE (@ \ store) \
                                        (IF current = NoVersion THEN {}
                                         ELSE ChunkSet(current))]
  /\ UNCHANGED <<dist, rows, disk, store, aged, cancel, reap, history, spent>>

(* has_chunk for each chunk; a cancel stops looking, and fetching.         *)
Look ==
  /\ job.phase = "looking"
  /\ job' = [job EXCEPT !.phase = "fetching",
                        !.chunks = IF cancel THEN {} ELSE @ \ store]
  /\ UNCHANGED <<dist, rows, disk, store, aged, cancel, reap, history, spent>>

Fetch(c) ==
  /\ job.phase = "fetching" /\ c \in job.chunks
  /\ store' = store \cup {c}
  /\ aged' = aged \ {c}
  /\ job' = [job EXCEPT !.chunks = @ \ {c}]
  /\ UNCHANGED <<dist, rows, disk, cancel, reap, history, spent>>

(* A worker that notices the cancel event gives up its chunk.              *)
FetchStops(c) ==
  /\ job.phase = "fetching" /\ c \in job.chunks
  /\ cancel
  /\ job' = [job EXCEPT !.chunks = @ \ {c}]
  /\ UNCHANGED <<dist, rows, disk, store, aged, cancel, reap, history, spent>>

(* The retries are used up: the event stops the other workers.             *)
FetchFails(c) ==
  /\ job.phase = "fetching" /\ c \in job.chunks
  /\ Fault
  /\ job' = [job EXCEPT !.chunks = @ \ {c}, !.failed = TRUE]
  /\ cancel' = TRUE
  /\ UNCHANGED <<dist, rows, disk, store, aged, reap, history>>

EndDownload ==
  /\ job.phase = "fetching" /\ job.chunks = {}
  /\ \/ job.failed /\ Settle("failed") /\ ReleaseChunks
     \/ /\ ~job.failed /\ cancel /\ Settle("cancelled")
        /\ UNCHANGED <<store, aged>>
     \/ /\ ~job.failed /\ ~cancel
        /\ dist' = [dist EXCEPT ![job.version] = "assembling"]
        /\ job' = [job EXCEPT !.phase = "fetched"]
        /\ UNCHANGED <<store, aged>>
  /\ UNCHANGED <<rows, disk, cancel, reap, history, spent>>

----------------------------------------------------------------------------
(* assemble_all.                                                           *)

(* was_externally_cancelled is read once, before the first file.           *)
BeginAssembly ==
  /\ job.phase = "fetched"
  /\ job' = IF cancel
            THEN [job EXCEPT !.phase = "closing"]
            ELSE [job EXCEPT !.phase = "assembling",
                             !.paths = PathsOf(job.version)]
  /\ UNCHANGED <<dist, rows, disk, store, aged, cancel, reap, history, spent>>

SkipFile(p) ==
  /\ job.phase = "assembling" /\ job.writing = NoPath /\ ~cancel
  /\ p \in job.paths
  /\ Fits(disk[p], Files[job.version][p])
  /\ rows' = [rows EXCEPT ![job.version][p] = "committed"]
  /\ job' = [job EXCEPT !.paths = @ \ {p}]
  /\ UNCHANGED <<dist, disk, store, aged, cancel, reap, history, spent>>

(* From here on the sidecar p.partial is being written.                    *)
WriteFile(p) ==
  /\ job.phase = "assembling" /\ job.writing = NoPath /\ ~cancel
  /\ p \in job.paths
  /\ ~Fits(disk[p], Files[job.version][p])
  /\ rows' = [rows EXCEPT ![job.version][p] = "assembling"]
  /\ job' = [job EXCEPT !.writing = p]
  /\ UNCHANGED <<dist, disk, store, aged, cancel, reap, history, spent>>

(* The sidecar is complete and replaces the file.                          *)
ReplaceFile(p) ==
  LET want == Files[job.version][p] IN
  /\ job.phase = "assembling" /\ job.writing = p
  /\ ChunksOf[want] \subseteq store
  /\ disk' = [disk EXCEPT ![p] = want]
  /\ rows' = [rows EXCEPT ![job.version][p] = "committed"]
  /\ job' = [job EXCEPT !.paths = @ \ {p}, !.writing = NoPath,
                        !.wrote = TRUE]
  /\ UNCHANGED <<dist, store, aged, cancel, reap, history, spent>>

(* A chunk is missing, or the disk or the lock of a running program says   *)
(* no: the loop ends here.                                                 *)
WriteFails(p) ==
  /\ job.phase = "assembling" /\ job.writing = p
  /\ \/ /\ ~(ChunksOf[Files[job.version][p]] \subseteq store)
        /\ starved' = TRUE
        /\ UNCHANGED spent
     \/ Fault /\ UNCHANGED starved
  /\ rows' = [rows EXCEPT ![job.version][p] = "failed"]
  /\ job' = [job EXCEPT !.writing = NoPath, !.failed = TRUE]
  /\ cancel' = TRUE
  /\ UNCHANGED <<dist, disk, store, aged, reap, current, drifted, raced,
                 stuck>>

(* list_roost_written_files: whatever any version has ever put here.       *)
Written == {p \in Paths : \E v \in Versions :
                            rows[v][p] \notin {"none", "planned"}}

(* Mutant: a failed assembly goes on to prune.                             *)
MutEndAssembly ==
  /\ job.phase = "assembling" /\ job.writing = NoPath
  /\ job.paths = {} \/ cancel
  /\ job' = [job EXCEPT !.phase = "pruning", !.cut = FALSE,
                        !.paths = Written \ PathsOf(job.version)]
  /\ UNCHANGED <<dist, rows, disk, store, aged, cancel, reap, history, spent>>

(* A cancel that came after the first look at the event ends the loop, and *)
(* what follows takes the files for complete.                              *)
EndAssembly ==
  /\ job.phase = "assembling" /\ job.writing = NoPath
  /\ job.paths = {} \/ cancel
  /\ \/ job.failed /\ Settle("failed") /\ ReleaseChunks
     \/ /\ ~job.failed
        /\ job' = [job EXCEPT !.phase = "pruning",
                              !.cut = job.paths # {},
                              !.paths = Written \ PathsOf(job.version)]
        /\ UNCHANGED <<dist, store, aged>>
  /\ UNCHANGED <<rows, disk, cancel, reap, history, spent>>

(* _prune_extraneous, one path at a time; a locked file stays.             *)
Prune(p) ==
  /\ job.phase = "pruning" /\ p \in job.paths
  /\ \/ /\ disk' = [disk EXCEPT ![p] = NoContent]
        /\ stuck' = stuck \ {p}
        /\ UNCHANGED spent
     \/ disk[p] # NoContent /\ Fault /\ stuck' = stuck \cup {p}
        /\ UNCHANGED disk
  /\ job' = [job EXCEPT !.paths = @ \ {p}]
  /\ UNCHANGED <<dist, rows, store, aged, cancel, reap, current, drifted,
                 raced, starved>>

(* The chunks are duplicates now; a run that wrote nothing keeps them.     *)
EndPrune ==
  /\ job.phase = "pruning" /\ job.paths = {}
  /\ IF job.wrote THEN ReleaseChunks ELSE UNCHANGED <<store, aged>>
  /\ job' = [job EXCEPT !.phase = "closing"]
  /\ UNCHANGED <<dist, rows, disk, cancel, reap, history, spent>>

(* Mutant: the event is not looked at again.                               *)
MutClose ==
  /\ job.phase = "closing"
  /\ Settle("committed")
  /\ current' = job.version
  /\ UNCHANGED <<rows, disk, store, aged, cancel, reap, drifted, raced,
                 starved, stuck, spent>>

Close ==
  /\ job.phase = "closing"
  /\ \/ cancel /\ Settle("cancelled") /\ UNCHANGED current
     \/ ~cancel /\ Settle("committed") /\ current' = job.version
  /\ UNCHANGED <<rows, disk, store, aged, cancel, reap, drifted, raced,
                 starved, stuck, spent>>

----------------------------------------------------------------------------
(* The fast lane, the maintenance thread, the clock and the process.       *)

(* cancel_sync finds the event by its version, later by its row.           *)
CancelSync ==
  /\ job # NoJob /\ ~cancel
  /\ Spend("cancels", MaxCancels)
  /\ cancel' = TRUE
  /\ UNCHANGED <<dist, rows, disk, store, aged, job, reap, history>>

(* Mutant: cancelled and failed rows hold on to their chunks.              *)
MutReferenced ==
  UNION {ChunkSet(v) : v \in {w \in Versions : dist[w] # "none"}}

Referenced == UNION {ChunkSet(v) : v \in {w \in Versions : dist[w] \in Active}}

(* reap_orphan_chunks reads the references once and walks the store.       *)
ReapBegins ==
  /\ ~reap.on /\ store # {}
  /\ reap' = [on |-> TRUE, keep |-> Referenced, todo |-> store]
  /\ UNCHANGED <<dist, rows, disk, store, aged, job, cancel, history, spent>>

ReapChunk(c) ==
  /\ reap.on /\ c \in reap.todo
  /\ reap' = [reap EXCEPT !.todo = @ \ {c}]
  /\ \/ /\ c \in reap.keep \/ c \notin aged
        /\ UNCHANGED <<store, aged, raced, spent>>
     \/ /\ c \notin reap.keep /\ c \in aged
        /\ store' = store \ {c} /\ aged' = aged \ {c}
        /\ raced' = (raced \/ c \in Referenced)
        /\ UNCHANGED spent
     \/ /\ c \notin reap.keep /\ c \in aged
        /\ Fault
        /\ UNCHANGED <<store, aged, raced>>
  /\ UNCHANGED <<dist, rows, disk, job, cancel, current, drifted, starved,
                 stuck>>

ReapEnds ==
  /\ reap.on /\ reap.todo = {}
  /\ reap' = NoReap
  /\ UNCHANGED <<dist, rows, disk, store, aged, job, cancel, history, spent>>

(* A day goes by; neither a sync nor a reap takes that long.               *)
DayPasses ==
  /\ job = NoJob /\ ~reap.on /\ aged # store
  /\ aged' = store
  /\ UNCHANGED <<dist, rows, disk, store, job, cancel, reap, history, spent>>

(* scrub_distribution: every committed row is due again and again.         *)
Scrub(v) ==
  /\ dist[v] = "committed" /\ v \notin drifted
  /\ \E p \in PathsOf(v) : rows[v][p] # "failed"
                           /\ disk[p] # Files[v][p]
  /\ drifted' = drifted \cup {v}
  /\ UNCHANGED <<dist, rows, disk, store, aged, job, cancel, reap, current,
                 raced, starved, stuck, spent>>

Crash ==
  /\ Spend("crashes", MaxCrashes)
  /\ job # NoJob
  /\ job' = NoJob /\ cancel' = FALSE /\ reap' = NoReap
  /\ UNCHANGED <<dist, rows, disk, store, aged, history>>

----------------------------------------------------------------------------
Setup == SetupEnds \/ Register
Download ==
  \/ BeginDownload \/ Look \/ EndDownload
  \/ \E c \in Chunks : Fetch(c) \/ FetchStops(c) \/ FetchFails(c)
Assembly ==
  \/ BeginAssembly \/ EndAssembly \/ EndPrune \/ Close
  \/ \E p \in Paths :
       SkipFile(p) \/ WriteFile(p) \/ ReplaceFile(p) \/ WriteFails(p)
         \/ Prune(p)
Worker == Setup \/ Download \/ Assembly
Reaper == ReapBegins \/ ReapEnds \/ \E c \in Chunks : ReapChunk(c)

Next ==
  \/ \E v \in Versions : Accept(v) \/ Scrub(v)
  \/ Worker \/ CancelSync \/ Reaper \/ DayPasses \/ Crash

Spec == Init /\ [][Next]_vars

(* The slow lane and the maintenance thread run; days go by.               *)
FairSpec == Spec /\ WF_vars(Worker) /\ WF_vars(Reaper) /\ SF_vars(DayPasses)

----------------------------------------------------------------------------
JobType ==
  [phase : Phases, version : Versions \cup {NoVersion},
   chunks : SUBSET Chunks, paths : SUBSET Paths,
   writing : Paths \cup {NoPath}, wrote : BOOLEAN, failed : BOOLEAN,
   cut : BOOLEAN]

(* Rows have states of the schema, what is on disk is content of a         *)
(* version, aged blobs are in the store.                                   *)
TypeOK ==
  /\ dist \in [Versions -> DistStates]
  /\ rows \in [Versions -> [Paths -> FileStates]]
  /\ disk \in [Paths -> Contents \cup {NoContent}]
  /\ store \subseteq Chunks /\ aged \subseteq store
  /\ job \in JobType
  /\ job.phase # "idle" => job.version \in Versions
  /\ cancel \in BOOLEAN
  /\ reap \in [on : BOOLEAN, keep : SUBSET Chunks, todo : SUBSET Chunks]
  /\ current \in Versions \cup {NoVersion}
  /\ drifted \subseteq Versions /\ stuck \subseteq Paths
  /\ raced \in BOOLEAN /\ starved \in BOOLEAN
  /\ spent \in [{"syncs", "cancels", "faults", "crashes"} -> Nat]

(* A row becomes committed only when every file of its version is in place *)
(* (by size) and no file of another version is left but what a program     *)
(* held open: no cancel, failure or crash on the way is taken for success. *)
CommittedMeansInstalled ==
  [][\A v \in Versions :
       dist[v] # "committed" /\ dist'[v] = "committed"
         => /\ Installed(v)
            /\ \A p \in Paths \ PathsOf(v) :
                 disk[p] = NoContent \/ p \in stuck]_vars

(* Assembly never lacks a chunk that was downloaded or found, unless the   *)
(* reaper took it from an active distribution (see ReaperSparesActive).    *)
StarvedOnlyByReaper == starved => raced

(* Whatever a failed, cancelled or finished sync has left in the store     *)
(* goes in the end (DEFAULT_ORPHAN_MIN_AGE_SECONDS: a leak lasts a day).   *)
LeaksEnd == \A c \in Chunks : (c \in store) ~> (c \notin store)

(* What stays for good belongs to the row of a distribution that a crash   *)
(* has interrupted: nothing else that is cancelled or fails leaks.         *)
Abandoned == UNION {ChunkSet(v) : v \in
               {w \in Versions : dist[w] \in Active /\ job.version # w}}
LeaksEndUnlessAbandoned ==
  \A c \in Chunks : (c \in store) ~> (c \notin store \/ c \in Abandoned)

(* sync_state.py: the reaper must not touch the blobs of in-flight states. *)
ReaperSparesActive == ~raced

(* sync_assembler.py: pruning only runs after every file was assembled and *)
(* the run was not cancelled.                                              *)
PrunesOnlyComplete ==
  [][\A p \in Paths :
       disk[p] # NoContent /\ disk'[p] = NoContent
         => Installed(job.version)]_vars

(* sync_assembler.py: chunks are never released on cancellation, since the *)
(* resume needs them.                                                      *)
CancelKeepsChunks ==
  [][Close /\ cancel => ChunkSet(job.version) \subseteq store]_vars

(* sync_assembler.py: assemble_all leaves a tree that matches the version  *)
(* exactly.                                                                *)
CommitsExactly ==
  [][\A v \in Versions :
       dist[v] # "committed" /\ dist'[v] = "committed"
         => \A p \in PathsOf(v) : disk[p] = Files[v][p]]_vars

(* sync_scrub.py: only the current committed version is verified, older    *)
(* ones may have been overwritten.                                         *)
ScrubsCurrent == [][drifted' # drifted => drifted' \ drifted = {current}]_vars

----------------------------------------------------------------------------
(* The folder a program plays from, as RoostFolder describes it.           *)
Folder == INSTANCE RoostFolder WITH
  folder <- disk,
  goal <- IF job.phase \in {"assembling", "pruning"} THEN job.version
          ELSE NoVersion,
  cut <- job.phase = "pruning" /\ job.cut

(* Every step of the engine is one the abstract folder allows: files are   *)
(* removed for a version that is whole, or whose assembly was cut short.   *)
FolderSpec == Folder!Spec
=============================================================================

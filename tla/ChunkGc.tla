------------------------------ MODULE ChunkGc ------------------------------
(***************************************************************************)
(* The nightly collection of a site's chunks, and the publishes it runs    *)
(* against.  Content-addressed chunks live in object storage, shared by    *)
(* all versions of a site; a chunk that no version document references is  *)
(* garbage, is tombstoned, and is deleted once the tombstone is ripe.      *)
(*                                                                         *)
(* Nothing is atomic across the stores.  A run first scans every site      *)
(* (rollouts, then version bodies, object listing and tombstones side by   *)
(* side) and only then applies the plans one after the other; a publish    *)
(* looks its chunks up one by one and writes its version document later.   *)
(* Modelled for CHUNK_GC_MODE = apply: a dry run only logs its plans.      *)
(***************************************************************************)
EXTENDS Integers, FiniteSets

CONSTANTS Sites, NoSite,
          Versions,
          Chunks,
          ChunksOf,   \* ChunksOf[v]: the chunks in the body of v
          Catalog,    \* Catalog[s]: the versions clients of s make
          MaxFaults   \* bound on failing scans, deletes and dying runs

ASSUME GcAssumption ==
  /\ NoSite \notin Sites
  /\ ChunksOf \in [Versions -> SUBSET Chunks]
  /\ Catalog \in [Sites -> SUBSET Versions]
  /\ MaxFaults \in Nat

VARIABLES stored,     \* stored[s]: chunks in object storage
          versions,   \* versions[s]: version documents
          marks,      \* marks[s][c]: the tombstone of c
          rolling,    \* sites with a rollout in its canary or fleet stage
          publishes,  \* POST /versions requests on their way
          phase,      \* of the nightly run
          unscanned,  \* sites the run has still to scan
          current,    \* the site it is working on
          scan,       \* what it has read about that site so far
          plans,      \* what it will do
          degraded,   \* whether a site has failed to scan
          deleting,   \* the chunk whose delete is under way
          raced,      \* history: versions committed across a scan
          faults

storage == <<stored, versions, marks, rolling>>
run     == <<phase, unscanned, current, scan, plans, degraded, deleting>>
vars    == <<storage, publishes, run, raced, faults>>

Fault == faults < MaxFaults /\ faults' = faults + 1

----------------------------------------------------------------------------
(* Planning (lib/chunkGcLogic.ts).                                         *)

Plan == [create : SUBSET Chunks, clear : SUBSET Chunks,
         delete : SUBSET Chunks]
NoPlan == [create |-> {}, clear |-> {}, delete |-> {}]

(* Mutants: no resurrection guard; no grace period.                        *)
MutPlanUnguarded(referenced, present, mark) ==
  [create |-> {c \in present \ referenced : mark[c] = "none"},
   delete |-> {c \in present : mark[c] = "ripe"},
   clear  |-> {c \in Chunks : mark[c] # "none" /\ c \notin present}]

MutPlanNoGrace(referenced, present, mark) ==
  [create |-> {c \in present \ referenced : mark[c] = "none"},
   delete |-> {c \in present \ referenced : mark[c] # "none"},
   clear  |-> {c \in Chunks : mark[c] # "none"
                                /\ (c \in referenced \/ c \notin present)}]

PlanGc(referenced, present, mark) ==
  [create |-> {c \in present \ referenced : mark[c] = "none"},
   delete |-> {c \in present \ referenced : mark[c] = "ripe"},
   clear  |-> {c \in Chunks : mark[c] # "none"
                                /\ (c \in referenced \/ c \notin present)}]

(* What one scan reads: versions whose bodies it is sure to have fetched,  *)
(* and then the three inputs of the plan, each once it has been read.      *)
Inputs == {"references", "objects", "tombstones"}
Scan == [sure : SUBSET Versions, read : SUBSET Inputs,
         references : SUBSET Chunks, objects : SUBSET Chunks,
         tombstones : [Chunks -> {"none", "fresh", "ripe"}]]
NoMarks == [c \in Chunks |-> "none"]
Blank == [sure |-> {}, read |-> {}, references |-> {}, objects |-> {},
          tombstones |-> NoMarks]

Init ==
  /\ stored = [s \in Sites |-> {}]
  /\ versions = [s \in Sites |-> {}]
  /\ marks = [s \in Sites |-> NoMarks]
  /\ rolling = {}
  /\ publishes = {}
  /\ phase = "idle" /\ unscanned = {} /\ current = NoSite
  /\ scan = Blank /\ plans = [s \in Sites |-> NoPlan]
  /\ degraded = FALSE /\ deleting = {}
  /\ raced = [s \in Sites |-> {}]
  /\ faults = 0

----------------------------------------------------------------------------
(* Publishing.                                                             *)

(* A client PUTs a chunk of a version it makes to the URL it was given.    *)
Upload(s, c) ==
  /\ \E v \in Catalog[s] : c \in ChunksOf[v]
  /\ stored' = [stored EXCEPT ![s] = @ \cup {c}]
  /\ UNCHANGED <<versions, marks, rolling, publishes, run, raced, faults>>

(* The run has looked at s, or has begun to, and has not finished with it. *)
Exposed(s) == (phase = "scan" /\ current = s) \/ plans[s].delete # {}

(* POST /versions starts to look for its chunks.                           *)
PublishBegins(s, v) ==
  /\ ~\E p \in publishes : p.site = s /\ p.version = v
  /\ publishes' = publishes \cup
       {[site |-> s, version |-> v, unverified |-> ChunksOf[v],
         overlaps |-> Exposed(s)]}
  /\ UNCHANGED <<storage, run, raced, faults>>

(* hasChunk: a chunk that is missing ends the request with a 412.          *)
PublishVerifies(p, c) ==
  /\ p \in publishes
  /\ c \in p.unverified
  /\ publishes' = (publishes \ {p}) \cup
       (IF c \in stored[p.site] THEN {[p EXCEPT !.unverified = @ \ {c}]}
                                ELSE {})
  /\ UNCHANGED <<storage, run, raced, faults>>

(* The finalizing transaction: a version in the history is not rewritten.  *)
PublishCommits(p) ==
  /\ p \in publishes
  /\ p.unverified = {}
  /\ publishes' = publishes \ {p}
  /\ versions' = [versions EXCEPT ![p.site] = @ \cup {p.version}]
  /\ raced' = IF p.overlaps /\ p.version \notin versions[p.site]
              THEN [raced EXCEPT ![p.site] = @ \cup {p.version}]
              ELSE raced
  /\ UNCHANGED <<stored, marks, rolling, run, faults>>

(* Rollouts come and go; the run only asks whether one is active.          *)
RolloutStarts(s) ==
  /\ versions[s] # {}
  /\ rolling' = rolling \cup {s}
  /\ UNCHANGED <<stored, versions, marks, publishes, run, raced, faults>>

RolloutEnds(s) ==
  /\ s \in rolling
  /\ rolling' = rolling \ {s}
  /\ UNCHANGED <<stored, versions, marks, publishes, run, raced, faults>>

----------------------------------------------------------------------------
(* A run, phase 1: scan every site.                                        *)

(* Thirty days go by between two runs, never within one.  No request lasts *)
(* that long: one that has not been answered is gone.                      *)
Ripen(s, c) ==
  /\ phase = "idle"
  /\ marks[s][c] = "fresh"
  /\ marks' = [marks EXCEPT ![s][c] = "ripe"]
  /\ publishes' = {}
  /\ UNCHANGED <<stored, versions, rolling, run, raced, faults>>

RunStarts ==
  /\ phase = "idle"
  /\ phase' = "scan"
  /\ unscanned' = Sites
  /\ UNCHANGED <<storage, publishes, current, scan, plans, degraded, deleting,
                 raced, faults>>

(* hasActiveRollout: a site with a rollout under way is skipped.           *)
ScanSkips(s) ==
  /\ phase = "scan" /\ current = NoSite
  /\ s \in unscanned \cap rolling
  /\ unscanned' = unscanned \ {s}
  /\ UNCHANGED <<storage, publishes, phase, current, scan, plans, degraded,
                 deleting, raced, faults>>

ScanBegins(s) ==
  /\ phase = "scan" /\ current = NoSite
  /\ s \in unscanned \ rolling
  /\ unscanned' = unscanned \ {s}
  /\ current' = s
  /\ scan' = [Blank EXCEPT !.sure = versions[s]]
  /\ publishes' = {IF p.site = s THEN [p EXCEPT !.overlaps = TRUE] ELSE p :
                     p \in publishes}
  /\ UNCHANGED <<storage, phase, plans, degraded, deleting, raced, faults>>

(* The bodies of a site's versions are fetched one after the other: of the *)
(* versions that appear meanwhile some are seen and some are not.          *)
ReadReferences ==
  /\ current # NoSite /\ phase = "scan" /\ "references" \notin scan.read
  /\ \E late \in SUBSET (versions[current] \ scan.sure) :
       scan' = [scan EXCEPT
         !.read = @ \cup {"references"},
         !.references = UNION {ChunksOf[v] : v \in scan.sure \cup late}]
  /\ UNCHANGED <<storage, publishes, phase, unscanned, current, plans,
                 degraded, deleting, raced, faults>>

ReadObjects ==
  /\ current # NoSite /\ phase = "scan" /\ "objects" \notin scan.read
  /\ scan' = [scan EXCEPT !.read = @ \cup {"objects"},
                          !.objects = stored[current]]
  /\ UNCHANGED <<storage, publishes, phase, unscanned, current, plans,
                 degraded, deleting, raced, faults>>

ReadTombstones ==
  /\ current # NoSite /\ phase = "scan" /\ "tombstones" \notin scan.read
  /\ scan' = [scan EXCEPT !.read = @ \cup {"tombstones"},
                          !.tombstones = marks[current]]
  /\ UNCHANGED <<storage, publishes, phase, unscanned, current, plans,
                 degraded, deleting, raced, faults>>

ScanEnds ==
  /\ current # NoSite /\ phase = "scan" /\ scan.read = Inputs
  /\ plans' = [plans EXCEPT ![current] =
                 PlanGc(scan.references, scan.objects, scan.tombstones)]
  /\ current' = NoSite
  /\ scan' = Blank
  /\ UNCHANGED <<storage, publishes, phase, unscanned, degraded, deleting,
                 raced, faults>>

(* A listing or a body that cannot be read: the site has no plan, and the  *)
(* whole run is degraded.                                                  *)
ScanFails ==
  /\ current # NoSite /\ phase = "scan"
  /\ Fault
  /\ degraded' = TRUE
  /\ current' = NoSite
  /\ scan' = Blank
  /\ UNCHANGED <<storage, publishes, phase, unscanned, plans, deleting, raced>>

----------------------------------------------------------------------------
(* Phase 2: apply the plans, one site at a time.                           *)

(* Mutant: a failed site has no plan of its own, and that is all.          *)
MutApplyAnyway ==
  /\ phase = "scan" /\ current = NoSite /\ unscanned = {}
  /\ phase' = "apply"
  /\ UNCHANGED <<storage, publishes, unscanned, current, scan, plans, degraded,
                 deleting, raced, faults>>

ApplyBegins ==
  /\ phase = "scan" /\ current = NoSite /\ unscanned = {}
  /\ phase' = "apply"
  /\ plans' = IF degraded
              THEN [s \in Sites |-> [plans[s] EXCEPT !.delete = {}]]
              ELSE plans
  /\ UNCHANGED <<storage, publishes, unscanned, current, scan, degraded,
                 deleting, raced, faults>>

Settles(s) == current' = IF plans'[s] = NoPlan THEN NoSite ELSE s

(* Mutant: the tombstones of a site are replaced, not added to.            *)
MutCreateReplaces(s) ==
  /\ phase = "apply" /\ current \in {NoSite, s}
  /\ plans[s].create # {}
  /\ marks' = [marks EXCEPT ![s] = [c \in plans[s].create |-> "fresh"]]
  /\ plans' = [plans EXCEPT ![s].create = {}]
  /\ Settles(s)
  /\ UNCHANGED <<stored, versions, rolling, publishes, phase, unscanned, scan,
                 degraded, deleting, raced, faults>>

(* Tombstones first, ...                                                   *)
CreateTombstones(s) ==
  /\ phase = "apply" /\ current \in {NoSite, s}
  /\ plans[s].create # {}
  /\ marks' = [marks EXCEPT ![s] =
                 [c \in Chunks |-> IF c \in plans[s].create THEN "fresh"
                                                            ELSE @[c]]]
  /\ plans' = [plans EXCEPT ![s].create = {}]
  /\ Settles(s)
  /\ UNCHANGED <<stored, versions, rolling, publishes, phase, unscanned, scan,
                 degraded, deleting, raced, faults>>

(* ... then the stale ones are cleared, ...                                *)
ClearTombstones(s) ==
  /\ phase = "apply" /\ current \in {NoSite, s}
  /\ plans[s].create = {} /\ plans[s].clear # {}
  /\ marks' = [marks EXCEPT ![s] =
                 [c \in Chunks |-> IF c \in plans[s].clear THEN "none"
                                                           ELSE @[c]]]
  /\ plans' = [plans EXCEPT ![s].clear = {}]
  /\ Settles(s)
  /\ UNCHANGED <<stored, versions, rolling, publishes, phase, unscanned, scan,
                 degraded, deleting, raced, faults>>

(* Mutant: the delete is sent to a key that does not exist, which is fine. *)
MutDeleteMisses(s, c) ==
  /\ phase = "apply" /\ current \in {NoSite, s}
  /\ plans[s].create = {} /\ plans[s].clear = {}
  /\ c \in plans[s].delete /\ deleting = {}
  /\ deleting' = {c}
  /\ current' = s
  /\ UNCHANGED <<storage, publishes, phase, unscanned, scan, plans, degraded,
                 raced, faults>>

(* ... then the ripe chunks go, each with its tombstone after it.  Nothing *)
(* is read again before a delete.                                          *)
DeleteChunk(s, c) ==
  /\ phase = "apply" /\ current \in {NoSite, s}
  /\ plans[s].create = {} /\ plans[s].clear = {}
  /\ c \in plans[s].delete /\ deleting = {}
  /\ stored' = [stored EXCEPT ![s] = @ \ {c}]
  /\ deleting' = {c}
  /\ current' = s
  /\ UNCHANGED <<versions, marks, rolling, publishes, phase, unscanned, scan,
                 plans, degraded, raced, faults>>

DeleteDone(c) ==
  /\ c \in deleting
  /\ marks' = [marks EXCEPT ![current][c] = "none"]
  /\ deleting' = {}
  /\ plans' = [plans EXCEPT ![current].delete = @ \ {c}]
  /\ Settles(current)
  /\ UNCHANGED <<stored, versions, rolling, publishes, phase, unscanned, scan,
                 degraded, raced, faults>>

(* Either half of a delete may throw: the loop goes on to the next chunk.  *)
DeleteFails(s, c) ==
  /\ phase = "apply" /\ current \in {NoSite, s}
  /\ plans[s].create = {} /\ plans[s].clear = {}
  /\ c \in plans[s].delete /\ deleting \subseteq {c}
  /\ Fault
  /\ deleting' = {}
  /\ plans' = [plans EXCEPT ![s].delete = @ \ {c}]
  /\ Settles(s)
  /\ UNCHANGED <<storage, publishes, phase, unscanned, scan, degraded, raced>>

(* An exception on the tombstones drops the rest of that site's plan.      *)
ApplyFails(s) ==
  /\ phase = "apply" /\ current \in {NoSite, s}
  /\ plans[s].create \cup plans[s].clear # {}
  /\ Fault
  /\ plans' = [plans EXCEPT ![s] = NoPlan]
  /\ current' = NoSite
  /\ UNCHANGED <<storage, publishes, phase, unscanned, scan, degraded,
                 deleting, raced>>

Reset ==
  /\ phase' = "idle" /\ unscanned' = {} /\ current' = NoSite
  /\ scan' = Blank /\ plans' = [s \in Sites |-> NoPlan]
  /\ degraded' = FALSE /\ deleting' = {}

RunEnds ==
  /\ phase = "apply" /\ \A s \in Sites : plans[s] = NoPlan
  /\ Reset
  /\ UNCHANGED <<storage, publishes, raced, faults>>

(* The function times out or its instance goes away.                       *)
RunDies ==
  /\ phase # "idle"
  /\ Fault
  /\ Reset
  /\ UNCHANGED <<storage, publishes, raced>>

----------------------------------------------------------------------------
Client(s) ==
  \/ \E c \in Chunks : Upload(s, c)
  \/ \E v \in Catalog[s] : PublishBegins(s, v)
  \/ RolloutStarts(s)
  \/ RolloutEnds(s)

Publish(p) ==
  \/ \E c \in Chunks : PublishVerifies(p, c)
  \/ PublishCommits(p)

RunStep ==
  \/ RunStarts
  \/ \E s \in Sites : ScanSkips(s) \/ ScanBegins(s)
  \/ ReadReferences \/ ReadObjects \/ ReadTombstones \/ ScanEnds
  \/ ApplyBegins
  \/ \E s \in Sites : CreateTombstones(s) \/ ClearTombstones(s)
  \/ \E s \in Sites, c \in Chunks : DeleteChunk(s, c)
  \/ \E c \in Chunks : DeleteDone(c)
  \/ RunEnds

RunFault ==
  \/ ScanFails
  \/ \E s \in Sites, c \in Chunks : DeleteFails(s, c)
  \/ \E s \in Sites : ApplyFails(s)
  \/ RunDies

Next ==
  \/ \E s \in Sites : Client(s)
  \/ \E p \in publishes : Publish(p)
  \/ RunStep
  \/ RunFault
  \/ \E s \in Sites, c \in Chunks : Ripen(s, c)

Spec == Init /\ [][Next]_vars

(* The run is scheduled every night and runs to its end unless it dies.    *)
(* Clients owe nothing.  A tombstone gets old however often runs come in   *)
(* between, since they come once a day: hence strong fairness.             *)
FairSpec ==
  /\ Spec
  /\ WF_vars(RunStep)
  /\ \A s \in Sites, c \in Chunks : SF_vars(Ripen(s, c))

----------------------------------------------------------------------------
(* Properties.                                                             *)

Publishes == [site : Sites, version : Versions, unverified : SUBSET Chunks,
              overlaps : BOOLEAN]

(* Storage, requests and the state of a run have their types.              *)
TypeOK ==
  /\ stored \in [Sites -> SUBSET Chunks]
  /\ versions \in [Sites -> SUBSET Versions]
  /\ marks \in [Sites -> [Chunks -> {"none", "fresh", "ripe"}]]
  /\ rolling \subseteq Sites
  /\ publishes \subseteq Publishes
  /\ phase \in {"idle", "scan", "apply"}
  /\ unscanned \subseteq Sites
  /\ current \in Sites \cup {NoSite}
  /\ scan \in Scan
  /\ plans \in [Sites -> Plan]
  /\ degraded \in BOOLEAN
  /\ deleting \subseteq Chunks
  /\ raced \in [Sites -> SUBSET Versions]
  /\ faults \in 0..MaxFaults

(* A version whose publish did not run across a scan of its site keeps all *)
(* of its chunks for ever: whichever sites fail, whatever dies half way    *)
(* and however old the tombstones of its chunks were.                      *)
KeptUnlessRaced ==
  \A s \in Sites :
    \A v \in versions[s] \ raced[s] : ChunksOf[v] \subseteq stored[s]

(* "A bad site late in the list still vetoes deletions for sites scanned   *)
(* earlier": while a run that failed to read some site goes on, nothing is *)
(* deleted anywhere, and a run deletes nothing before it has read them all.*)
DegradedDeletesNothing ==
  [][(\E s \in Sites : stored[s] \ stored'[s] # {})
       => ~degraded /\ unscanned = {}]_vars

(* A run deletes only what an earlier run had already found orphaned, a    *)
(* grace period ago: at the delete, the tombstone of the chunk is ripe.    *)
GraceKept ==
  [][\A s \in Sites :
       \A c \in stored[s] \ stored'[s] : marks[s][c] = "ripe"]_vars

Orphan(s, c) == \A v \in versions[s] : c \notin ChunksOf[v]

(* Garbage does not pile up: a chunk that stays orphaned while no rollout  *)
(* keeps its site from being scanned is deleted, or deleted again and      *)
(* again if a client keeps uploading it.                                   *)
OrphansCollected ==
  \A s \in Sites, c \in Chunks :
    <>[](Orphan(s, c) /\ s \notin rolling) => []<>(c \notin stored[s])

(* SiteScanner: "GC pauses during publish so it can't race an in-flight    *)
(* upload whose version is not yet finalised".  Then every version has all *)
(* of its chunks.                                                          *)
VersionsComplete ==
  \A s \in Sites : \A v \in versions[s] : ChunksOf[v] \subseteq stored[s]
=============================================================================

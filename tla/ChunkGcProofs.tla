--------------------------- MODULE ChunkGcProofs ---------------------------
(***************************************************************************)
(* What the collector guarantees for any number of sites, versions, chunks *)
(* and faults: type correctness, that a version whose publish did not run  *)
(* across a scan of its site keeps all of its chunks, and that a run only  *)
(* deletes what has long been orphaned, and nothing when it is degraded.   *)
(***************************************************************************)
EXTENDS ChunkGc, TLAPS

(* The inductive invariant.  Kept(s) are the versions the theorem is       *)
(* about: a scan under way is sure to read them, no plan deletes one of    *)
(* their chunks, and a request that has not met a scan has found what it   *)
(* has looked up, since no plan of its site deletes anything.              *)
Kept(s) == versions[s] \ raced[s]

PlansSafe ==
  \A s \in Sites : \A v \in Kept(s) : ChunksOf[v] \cap plans[s].delete = {}

ScanSafe ==
  phase = "scan" /\ current # NoSite =>
    /\ Kept(current) \subseteq scan.sure
    /\ "references" \in scan.read =>
         \A v \in Kept(current) : ChunksOf[v] \subseteq scan.references

PublishesSafe ==
  \A p \in publishes : ~p.overlaps =>
    /\ ~Exposed(p.site)
    /\ ChunksOf[p.version] \ p.unverified \subseteq stored[p.site]

RunOrder ==
  /\ phase = "idle" => current = NoSite
  /\ deleting # {} => phase = "apply"

Safe == KeptUnlessRaced /\ PlansSafe /\ ScanSafe /\ PublishesSafe /\ RunOrder

IInv == TypeOK /\ Safe

USE DEF storage, run, vars

----------------------------------------------------------------------------
(* Planning.                                                               *)

(* A plan never deletes a chunk that was referenced or not in storage.     *)
LEMMA PlanGcSound ==
  ASSUME NEW referenced \in SUBSET Chunks, NEW present \in SUBSET Chunks,
         NEW mark \in [Chunks -> {"none", "fresh", "ripe"}]
  PROVE  /\ PlanGc(referenced, present, mark) \in Plan
         /\ PlanGc(referenced, present, mark).delete
              \subseteq present \ referenced
BY DEF PlanGc, Plan

(* An empty plan is a plan and deletes nothing.                            *)
LEMMA NoPlanType == NoPlan \in Plan /\ NoPlan.delete = {}
BY DEF NoPlan, Plan

(* A scan that has read nothing is a scan that is sure of nothing.         *)
LEMMA BlankType == Blank \in Scan /\ Blank.sure = {}
BY DEF Blank, Scan, NoMarks, Inputs

----------------------------------------------------------------------------
(* Type correctness.                                                       *)

(* TypeOK holds at the start.                                              *)
LEMMA TypeInit == Init => TypeOK
<1> SUFFICES ASSUME Init PROVE TypeOK
  OBVIOUS
<1>1. /\ marks \in [Sites -> [Chunks -> {"none", "fresh", "ripe"}]]
      /\ plans \in [Sites -> Plan] /\ scan \in Scan
  BY NoPlanType, BlankType DEF Init, NoMarks
<1>2. faults \in 0..MaxFaults
  BY GcAssumption DEF Init
<1> QED
  BY <1>1, <1>2 DEF Init, TypeOK

(* Uploads, publishes, rollouts and the passing of time keep TypeOK.       *)
LEMMA TypeClient ==
  ASSUME TypeOK,
         \/ \E s \in Sites : Client(s)
         \/ \E p \in publishes : Publish(p)
         \/ \E s \in Sites, c \in Chunks : Ripen(s, c)
  PROVE  TypeOK'
<1>1. ASSUME NEW s \in Sites, NEW c \in Chunks, Upload(s, c)
      PROVE  TypeOK'
  BY <1>1 DEF TypeOK, Upload
<1>2. ASSUME NEW s \in Sites, NEW v \in Catalog[s], PublishBegins(s, v)
      PROVE  TypeOK'
  <2>1. v \in Versions /\ ChunksOf[v] \in SUBSET Chunks
    BY GcAssumption
  <2>2. Exposed(s) \in BOOLEAN
    BY DEF Exposed
  <2> QED
    BY <1>2, <2>1, <2>2 DEF TypeOK, PublishBegins, Publishes
<1>3. ASSUME NEW s \in Sites, RolloutStarts(s) \/ RolloutEnds(s)
      PROVE  TypeOK'
  BY <1>3 DEF TypeOK, RolloutStarts, RolloutEnds
<1>4. ASSUME NEW p \in publishes, NEW c \in Chunks, PublishVerifies(p, c)
      PROVE  TypeOK'
  <2>1. [p EXCEPT !.unverified = @ \ {c}] \in Publishes
    BY DEF TypeOK, Publishes
  <2> QED
    BY <1>4, <2>1 DEF TypeOK, PublishVerifies
<1>5. ASSUME NEW p \in publishes, PublishCommits(p)
      PROVE  TypeOK'
  BY <1>5 DEF TypeOK, PublishCommits, Publishes
<1>6. ASSUME NEW s \in Sites, NEW c \in Chunks, Ripen(s, c)
      PROVE  TypeOK'
  BY <1>6 DEF TypeOK, Ripen
<1> QED
  BY <1>1, <1>2, <1>3, <1>4, <1>5, <1>6 DEF Client, Publish

(* Scanning, and turning what was read into plans, keeps TypeOK.           *)
LEMMA TypeScan ==
  ASSUME TypeOK,
         \/ RunStarts
         \/ \E s \in Sites : ScanSkips(s) \/ ScanBegins(s)
         \/ ReadReferences \/ ReadObjects \/ ReadTombstones \/ ScanEnds
         \/ ScanFails
  PROVE  TypeOK'
<1> USE BlankType
<1>1. CASE RunStarts
  BY <1>1 DEF TypeOK, RunStarts
<1>2. ASSUME NEW s \in Sites, ScanSkips(s)
      PROVE  TypeOK'
  BY <1>2 DEF TypeOK, ScanSkips
<1>3. ASSUME NEW s \in Sites, ScanBegins(s)
      PROVE  TypeOK'
  <2>1. [Blank EXCEPT !.sure = versions[s]] \in Scan
    BY DEF TypeOK, Scan
  <2>2. publishes' \subseteq Publishes
    <3>1. \A p \in publishes : [p EXCEPT !.overlaps = TRUE] \in Publishes
      BY DEF TypeOK, Publishes
    <3> QED
      BY <1>3, <3>1 DEF TypeOK, ScanBegins
  <2> QED
    BY <1>3, <2>1, <2>2 DEF TypeOK, ScanBegins
<1>4. CASE ReadReferences
  <2>1. PICK late \in SUBSET (versions[current] \ scan.sure) :
          scan' = [scan EXCEPT
            !.read = @ \cup {"references"},
            !.references = UNION {ChunksOf[v] : v \in scan.sure \cup late}]
    BY <1>4 DEF ReadReferences
  <2>2. UNION {ChunksOf[v] : v \in scan.sure \cup late} \in SUBSET Chunks
    <3>1. scan.sure \subseteq Versions /\ late \subseteq Versions
      BY <1>4 DEF TypeOK, Scan, ReadReferences
    <3>2. \A v \in Versions : ChunksOf[v] \subseteq Chunks
      BY GcAssumption
    <3> QED
      BY <3>1, <3>2
  <2>3. scan \in Scan
    BY DEF TypeOK
  <2>4. scan' \in Scan
    BY <2>1, <2>2, <2>3 DEF Scan, Inputs
  <2> QED
    BY <1>4, <2>4 DEF TypeOK, ReadReferences
<1>5. CASE ReadObjects
  <2>1. scan \in Scan /\ stored[current] \in SUBSET Chunks
    BY <1>5 DEF TypeOK, ReadObjects
  <2>2. scan' \in Scan
    BY <1>5, <2>1 DEF ReadObjects, Scan, Inputs
  <2> QED
    BY <1>5, <2>2 DEF TypeOK, ReadObjects
<1>6. CASE ReadTombstones
  <2>1. /\ scan \in Scan
        /\ marks[current] \in [Chunks -> {"none", "fresh", "ripe"}]
    BY <1>6 DEF TypeOK, ReadTombstones
  <2>2. scan' \in Scan
    BY <1>6, <2>1 DEF ReadTombstones, Scan, Inputs
  <2> QED
    BY <1>6, <2>2 DEF TypeOK, ReadTombstones
<1>7. CASE ScanEnds
  <2>1. PlanGc(scan.references, scan.objects, scan.tombstones) \in Plan
    <3>1. /\ scan.references \in SUBSET Chunks
          /\ scan.objects \in SUBSET Chunks
          /\ scan.tombstones \in [Chunks -> {"none", "fresh", "ripe"}]
      BY DEF TypeOK, Scan
    <3> QED
      BY <3>1, PlanGcSound DEF PlanGc, Plan
  <2> QED
    BY <1>7, <2>1 DEF TypeOK, ScanEnds
<1>8. CASE ScanFails
  BY <1>8, GcAssumption DEF TypeOK, ScanFails, Fault
<1> QED
  BY <1>1, <1>2, <1>3, <1>4, <1>5, <1>6, <1>7, <1>8

(* Applying the plans, and every way in which that fails, keeps TypeOK.    *)
LEMMA TypeApply ==
  ASSUME TypeOK,
         \/ ApplyBegins \/ RunEnds \/ RunDies
         \/ \E s \in Sites : CreateTombstones(s) \/ ClearTombstones(s)
                               \/ ApplyFails(s)
         \/ \E s \in Sites, c \in Chunks : DeleteChunk(s, c)
                                             \/ DeleteFails(s, c)
         \/ \E c \in Chunks : DeleteDone(c)
  PROVE  TypeOK'
<1> USE BlankType, NoPlanType
<1>1. \A s \in Sites : plans[s] \in Plan
  BY DEF TypeOK
<1>2. CASE ApplyBegins
  <2>1. \A s \in Sites : [plans[s] EXCEPT !.delete = {}] \in Plan
    BY <1>1 DEF Plan
  <2> QED
    BY <1>2, <2>1 DEF TypeOK, ApplyBegins
<1>3. CASE RunEnds
  BY <1>3 DEF TypeOK, RunEnds, Reset
<1>4. CASE RunDies
  <2>1. faults' \in 0..MaxFaults
    BY <1>4, GcAssumption DEF TypeOK, RunDies, Fault
  <2> QED
    BY <1>4, <2>1 DEF TypeOK, RunDies, Reset
<1>5. ASSUME NEW s \in Sites, CreateTombstones(s)
      PROVE  TypeOK'
  <2>1. [plans[s] EXCEPT !.create = {}] \in Plan
    BY <1>1 DEF Plan
  <2> QED
    BY <1>5, <2>1 DEF TypeOK, CreateTombstones, Settles
<1>6. ASSUME NEW s \in Sites, ClearTombstones(s)
      PROVE  TypeOK'
  <2>1. [plans[s] EXCEPT !.clear = {}] \in Plan
    BY <1>1 DEF Plan
  <2> QED
    BY <1>6, <2>1 DEF TypeOK, ClearTombstones, Settles
<1>7. ASSUME NEW s \in Sites, ApplyFails(s)
      PROVE  TypeOK'
  BY <1>7, GcAssumption DEF TypeOK, ApplyFails, Fault
<1>8. ASSUME NEW s \in Sites, NEW c \in Chunks, DeleteChunk(s, c)
      PROVE  TypeOK'
  BY <1>8 DEF TypeOK, DeleteChunk
<1>9. ASSUME NEW s \in Sites, NEW c \in Chunks, DeleteFails(s, c)
      PROVE  TypeOK'
  <2>1. [plans[s] EXCEPT !.delete = @ \ {c}] \in Plan
    BY <1>1 DEF Plan
  <2>2. faults' \in 0..MaxFaults
    BY <1>9, GcAssumption DEF TypeOK, DeleteFails, Fault
  <2> QED
    BY <1>9, <2>1, <2>2 DEF TypeOK, DeleteFails, Settles
<1>10. ASSUME NEW c \in Chunks, DeleteDone(c)
       PROVE  TypeOK'
  <2>1. \A s \in Sites : [plans[s] EXCEPT !.delete = @ \ {c}] \in Plan
    BY <1>1 DEF Plan
  <2> QED
    BY <1>10, <2>1 DEF TypeOK, DeleteDone, Settles
<1> QED
  BY <1>2, <1>3, <1>4, <1>5, <1>6, <1>7, <1>8, <1>9, <1>10

(* Every step keeps TypeOK.                                                *)
LEMMA TypeStep == TypeOK /\ [Next]_vars => TypeOK'
<1> SUFFICES ASSUME TypeOK, [Next]_vars PROVE TypeOK'
  OBVIOUS
<1>1. CASE UNCHANGED vars
  BY <1>1 DEF TypeOK
<1>2. CASE Next
  BY <1>2, TypeClient, TypeScan, TypeApply DEF Next, RunStep, RunFault
<1> QED
  BY <1>1, <1>2

(* Whatever fails or dies half way, the stores and the run's own notes     *)
(* stay well typed: the next run and the next publish can read them.       *)
THEOREM GcTypeCorrect == Spec => []TypeOK
BY TypeInit, TypeStep, PTL DEF Spec

----------------------------------------------------------------------------
(* Versions that are kept.                                                 *)

(* Safe holds at the start.                                                *)
LEMMA SafeInit == Init => Safe
BY NoPlanType
DEF Init, Safe, KeptUnlessRaced, PlansSafe, ScanSafe, PublishesSafe, RunOrder,
    Kept

(* Clients add to storage.  A version that becomes one to keep comes from  *)
(* a request that no scan has met: its chunks are there, and no plan and   *)
(* no scan of its site is under way.                                       *)
LEMMA SafeClient ==
  ASSUME TypeOK, Safe,
         \/ \E s \in Sites : Client(s)
         \/ \E p \in publishes : Publish(p)
         \/ \E s \in Sites, c \in Chunks : Ripen(s, c)
  PROVE  Safe'
<1> USE DEF Safe, KeptUnlessRaced, PlansSafe, ScanSafe, PublishesSafe,
            RunOrder, Kept, Exposed
<1>1. ASSUME NEW s \in Sites, NEW c \in Chunks, Upload(s, c)
      PROVE  Safe'
  BY <1>1 DEF TypeOK, Publishes, Upload
<1>2. ASSUME NEW s \in Sites, NEW v \in Catalog[s], PublishBegins(s, v)
      PROVE  Safe'
  <2> DEFINE q == [site |-> s, version |-> v, unverified |-> ChunksOf[v],
                   overlaps |-> Exposed(s)]
  <2>1. /\ q.site = s /\ q.version = v /\ q.unverified = ChunksOf[v]
        /\ q.overlaps = Exposed(s)
    OBVIOUS
  <2>2. publishes' = publishes \cup {q} /\ UNCHANGED <<storage, run, raced>>
    BY <1>2 DEF PublishBegins
  <2> HIDE DEF q
  <2>3. PublishesSafe'
    BY <2>1, <2>2
  <2> QED
    BY <2>2, <2>3
<1>3. ASSUME NEW s \in Sites, RolloutStarts(s) \/ RolloutEnds(s)
      PROVE  Safe'
  BY <1>3 DEF RolloutStarts, RolloutEnds
<1>4. ASSUME NEW p \in publishes, NEW c \in Chunks, PublishVerifies(p, c)
      PROVE  Safe'
  <2> DEFINE q == [p EXCEPT !.unverified = @ \ {c}]
  <2>1. /\ q.site = p.site /\ q.version = p.version
        /\ q.overlaps = p.overlaps /\ q.unverified = p.unverified \ {c}
    BY DEF TypeOK, Publishes
  <2>2. \/ publishes' = publishes \ {p}
        \/ publishes' = (publishes \ {p}) \cup {q} /\ c \in stored[p.site]
    BY <1>4 DEF PublishVerifies
  <2>3. UNCHANGED <<storage, run, raced>>
    BY <1>4 DEF PublishVerifies
  <2> HIDE DEF q
  <2>4. PublishesSafe'
    BY <2>1, <2>2, <2>3
  <2> QED
    BY <2>3, <2>4
<1>5. ASSUME NEW p \in publishes, PublishCommits(p)
      PROVE  Safe'
  <2>1. p.site \in Sites /\ p.version \in Versions
    BY DEF TypeOK, Publishes
  <2>2. \A s \in Sites : \A v \in Kept(s)' :
          \/ v \in Kept(s)
          \/ s = p.site /\ v = p.version /\ ~p.overlaps
    BY <1>5, <2>1 DEF TypeOK, PublishCommits
  <2>3. ~p.overlaps => /\ ~Exposed(p.site)
                       /\ ChunksOf[p.version] \subseteq stored[p.site]
    BY <1>5 DEF PublishCommits
  <2>4. UNCHANGED <<stored, run>> /\ publishes' \subseteq publishes
    BY <1>5 DEF PublishCommits
  <2> HIDE DEF Kept
  <2>5. \A s \in Sites : \A v \in Kept(s) : ChunksOf[v] \subseteq stored[s]
    BY DEF Kept
  <2>6. KeptUnlessRaced'
    <3>1. \A s \in Sites : \A v \in Kept(s)' : ChunksOf[v] \subseteq stored[s]
      BY <2>2, <2>3, <2>5
    <3> QED
      BY <3>1, <2>4 DEF Kept
  <2>7. PlansSafe'
    BY <2>2, <2>3, <2>4
  <2>8. ScanSafe'
    <3> SUFFICES ASSUME phase = "scan", current # NoSite
                 PROVE  Kept(current)' \subseteq Kept(current)
      BY <2>4
    <3>1. current \in Sites
      BY DEF TypeOK
    <3> QED
      BY <2>2, <2>3, <2>4, <3>1 DEF Kept
  <2>9. PublishesSafe' /\ RunOrder'
    BY <2>4
  <2> QED
    BY <2>6, <2>7, <2>8, <2>9
<1>6. ASSUME NEW s \in Sites, NEW c \in Chunks, Ripen(s, c)
      PROVE  Safe'
  BY <1>6 DEF Ripen
<1> QED
  BY <1>1, <1>2, <1>3, <1>4, <1>5, <1>6 DEF Client, Publish

(* A scan notes the versions there are when it begins and flags the        *)
(* requests that are on their way; what it is sure of, it references.      *)
LEMMA SafeScan ==
  ASSUME TypeOK, Safe,
         \/ RunStarts
         \/ \E s \in Sites : ScanSkips(s) \/ ScanBegins(s)
         \/ ReadReferences \/ ReadObjects \/ ReadTombstones \/ ScanEnds
         \/ ScanFails
  PROVE  Safe'
<1> USE DEF Safe, KeptUnlessRaced, PlansSafe, ScanSafe, PublishesSafe,
            RunOrder, Kept, Exposed
<1>1. CASE RunStarts
  <2>1. /\ UNCHANGED <<storage, raced, plans, scan, publishes, deleting>>
        /\ phase = "idle" /\ current = NoSite /\ current' = NoSite
    BY <1>1 DEF RunStarts
  <2>2. \A p \in publishes : p.site \in Sites
    BY DEF TypeOK, Publishes
  <2>3. PublishesSafe'
    BY <2>1, <2>2, GcAssumption
  <2>4. ScanSafe' /\ RunOrder'
    BY <2>1
  <2> QED
    BY <2>1, <2>3, <2>4
<1>2. ASSUME NEW s \in Sites, ScanSkips(s)
      PROVE  Safe'
  BY <1>2 DEF ScanSkips
<1>3. ASSUME NEW s \in Sites, ScanBegins(s)
      PROVE  Safe'
  <2>1. scan'.sure = versions[s] /\ scan'.read = {}
    BY <1>3, BlankType DEF ScanBegins, Blank
  <2>2. \A q \in publishes' : ~q.overlaps => q \in publishes /\ q.site # s
    BY <1>3 DEF ScanBegins, TypeOK, Publishes
  <2>3. UNCHANGED <<storage, raced, plans, phase>> /\ current' = s
    BY <1>3 DEF ScanBegins
  <2> QED
    BY <1>3, <2>1, <2>2, <2>3 DEF ScanBegins
<1>4. CASE ReadReferences
  <2>1. PICK late \in SUBSET (versions[current] \ scan.sure) :
          scan' = [scan EXCEPT
            !.read = @ \cup {"references"},
            !.references = UNION {ChunksOf[v] : v \in scan.sure \cup late}]
    BY <1>4 DEF ReadReferences
  <2>2. /\ scan'.sure = scan.sure
        /\ \A v \in scan.sure : ChunksOf[v] \subseteq scan'.references
    BY <2>1 DEF TypeOK, Scan
  <2> QED
    BY <1>4, <2>2 DEF ReadReferences
<1>5. CASE ReadObjects
  <2>1. /\ scan'.sure = scan.sure /\ scan'.references = scan.references
        /\ "references" \in scan'.read => "references" \in scan.read
    BY <1>5 DEF ReadObjects, TypeOK, Scan
  <2> QED
    BY <1>5, <2>1 DEF ReadObjects
<1>6. CASE ReadTombstones
  <2>1. /\ scan'.sure = scan.sure /\ scan'.references = scan.references
        /\ "references" \in scan'.read => "references" \in scan.read
    BY <1>6 DEF ReadTombstones, TypeOK, Scan
  <2> QED
    BY <1>6, <2>1 DEF ReadTombstones
<1>7. CASE ScanEnds
  <2> DEFINE plan == PlanGc(scan.references, scan.objects, scan.tombstones)
  <2>1. plan.delete \cap scan.references = {}
    BY DEF PlanGc
  <2>2. \A v \in Kept(current) : ChunksOf[v] \subseteq scan.references
    BY <1>7 DEF ScanEnds, Inputs
  <2>3. /\ current \in Sites /\ phase = "scan"
        /\ plans' = [plans EXCEPT ![current] = plan]
        /\ UNCHANGED <<storage, publishes, raced, phase, deleting>>
        /\ current' = NoSite
    BY <1>7 DEF ScanEnds, TypeOK
  <2> HIDE DEF plan
  <2>4. \A s \in Sites : plans'[s] = IF s = current THEN plan ELSE plans[s]
    BY <2>3 DEF TypeOK
  <2>5. PlansSafe'
    <3> SUFFICES ASSUME NEW s \in Sites, NEW v \in Kept(s)
                 PROVE  ChunksOf[v] \cap plans'[s].delete = {}
      BY <2>3
    <3>1. CASE s = current
      BY <2>1, <2>2, <2>4, <3>1
    <3>2. CASE s # current
      BY <2>4, <3>2
    <3> QED
      BY <3>1, <3>2
  <2>6. PublishesSafe'
    <3>1. \A p \in publishes : p.site \in Sites
      BY DEF TypeOK, Publishes
    <3>2. \A s \in Sites : Exposed(s)' => Exposed(s)
      BY <2>3, <2>4, GcAssumption
    <3> HIDE DEF Exposed
    <3> QED
      BY <2>3, <3>1, <3>2
  <2> QED
    BY <2>3, <2>5, <2>6
<1>8. CASE ScanFails
  <2>1. /\ UNCHANGED <<storage, raced, plans, publishes, phase, deleting>>
        /\ phase = "scan" /\ current' = NoSite
    BY <1>8 DEF ScanFails
  <2>2. \A p \in publishes : p.site \in Sites
    BY DEF TypeOK, Publishes
  <2>3. PublishesSafe'
    BY <2>1, <2>2, GcAssumption
  <2> QED
    BY <2>1, <2>3
<1> QED
  BY <1>1, <1>2, <1>3, <1>4, <1>5, <1>6, <1>7, <1>8

(* Applying a plan exposes no site anew and plans no delete anew, and what *)
(* it deletes belongs to no version that is kept and to no request that no *)
(* scan has met.                                                           *)
LEMMA SafeIfPlansShrink ==
  ASSUME TypeOK, Safe, TypeOK',
         UNCHANGED <<versions, raced, publishes>>,
         phase' # "scan", phase' = "idle" => current' = NoSite,
         deleting' # {} => phase' = "apply",
         \A s \in Sites : plans'[s].delete \subseteq plans[s].delete,
         \A s \in Sites : stored[s] \ stored'[s] \subseteq plans[s].delete
  PROVE  Safe'
<1>1. KeptUnlessRaced'
  <2> SUFFICES ASSUME NEW s \in Sites, NEW v \in Kept(s), NEW c \in ChunksOf[v]
               PROVE  c \in stored'[s]
    BY DEF KeptUnlessRaced, Kept
  <2>1. c \in stored[s] /\ c \notin plans[s].delete
    BY DEF Safe, KeptUnlessRaced, PlansSafe, Kept
  <2> QED
    BY <2>1
<1>2. PlansSafe'
  BY DEF Safe, PlansSafe, Kept
<1>3. PublishesSafe'
  <2> SUFFICES ASSUME NEW p \in publishes, ~p.overlaps
               PROVE  /\ ~Exposed(p.site)'
                      /\ ChunksOf[p.version] \ p.unverified
                           \subseteq stored'[p.site]
    BY DEF PublishesSafe
  <2>1. p.site \in Sites
    BY DEF TypeOK, Publishes
  <2>2. /\ plans[p.site].delete = {}
        /\ ChunksOf[p.version] \ p.unverified \subseteq stored[p.site]
    BY DEF Safe, PublishesSafe, Exposed
  <2> QED
    BY <2>1, <2>2 DEF Exposed
<1>4. ScanSafe' /\ RunOrder'
  BY DEF ScanSafe, RunOrder
<1> QED
  BY <1>1, <1>2, <1>3, <1>4 DEF Safe

(* Applying plans that spare every version keeps Safe.                     *)
LEMMA SafeApply ==
  ASSUME TypeOK, Safe, TypeOK',
         \/ ApplyBegins \/ RunEnds \/ RunDies
         \/ \E s \in Sites : CreateTombstones(s) \/ ClearTombstones(s)
                               \/ ApplyFails(s)
         \/ \E s \in Sites, c \in Chunks : DeleteChunk(s, c)
                                             \/ DeleteFails(s, c)
         \/ \E c \in Chunks : DeleteDone(c)
  PROVE  Safe'
<1> USE NoPlanType
<1> DEFINE Shrinks ==
             \A s \in Sites : plans'[s].delete \subseteq plans[s].delete
<1>0. \A s \in Sites : plans[s] \in Plan
  BY DEF TypeOK
<1>1. CASE ApplyBegins
  <2>1. Shrinks
    BY <1>0, <1>1 DEF ApplyBegins, Plan
  <2> QED
    BY <1>1, <2>1, SafeIfPlansShrink DEF ApplyBegins
<1>2. CASE RunEnds \/ RunDies
  <2>1. Shrinks
    BY <1>2 DEF RunEnds, RunDies, Reset
  <2> QED
    BY <1>2, <2>1, SafeIfPlansShrink DEF RunEnds, RunDies, Reset
<1>3. ASSUME NEW s \in Sites, CreateTombstones(s)
      PROVE  Safe'
  <2>1. Shrinks
    BY <1>0, <1>3 DEF CreateTombstones, TypeOK, Plan
  <2> QED
    BY <1>3, <2>1, SafeIfPlansShrink DEF CreateTombstones
<1>4. ASSUME NEW s \in Sites, ClearTombstones(s)
      PROVE  Safe'
  <2>1. Shrinks
    BY <1>0, <1>4 DEF ClearTombstones, TypeOK, Plan
  <2> QED
    BY <1>4, <2>1, SafeIfPlansShrink DEF ClearTombstones
<1>5. ASSUME NEW s \in Sites, ApplyFails(s)
      PROVE  Safe'
  <2>1. Shrinks
    BY <1>0, <1>5 DEF ApplyFails, TypeOK
  <2> QED
    BY <1>5, <2>1, SafeIfPlansShrink DEF ApplyFails
<1>6. ASSUME NEW s \in Sites, NEW c \in Chunks, DeleteChunk(s, c)
      PROVE  Safe'
  <2>1. Shrinks
    BY <1>6 DEF DeleteChunk
  <2>2. \A t \in Sites : stored[t] \ stored'[t] \subseteq plans[t].delete
    BY <1>6 DEF DeleteChunk, TypeOK
  <2> QED
    BY <1>6, <2>1, <2>2, SafeIfPlansShrink DEF DeleteChunk
<1>7. ASSUME NEW s \in Sites, NEW c \in Chunks, DeleteFails(s, c)
      PROVE  Safe'
  <2>1. Shrinks
    BY <1>0, <1>7 DEF DeleteFails, TypeOK, Plan
  <2> QED
    BY <1>7, <2>1, SafeIfPlansShrink DEF DeleteFails
<1>8. ASSUME NEW c \in Chunks, DeleteDone(c)
      PROVE  Safe'
  <2>1. Shrinks
    BY <1>0, <1>8 DEF DeleteDone, TypeOK, Plan
  <2>2. phase = "apply"
    BY <1>8 DEF DeleteDone, Safe, RunOrder
  <2> QED
    BY <1>8, <2>1, <2>2, SafeIfPlansShrink DEF DeleteDone
<1> QED
  BY <1>1, <1>2, <1>3, <1>4, <1>5, <1>6, <1>7, <1>8

(* Every step keeps the inductive invariant.                               *)
LEMMA Inductive == IInv /\ [Next]_vars => IInv'
<1> SUFFICES ASSUME TypeOK, Safe, [Next]_vars PROVE TypeOK' /\ Safe'
  BY DEF IInv
<1>1. TypeOK'
  BY TypeStep
<1>2. CASE UNCHANGED vars
  <2> USE <1>2 DEF Kept
  <2>1. KeptUnlessRaced' /\ PlansSafe' /\ RunOrder'
    BY DEF Safe, KeptUnlessRaced, PlansSafe, RunOrder
  <2>2. ScanSafe'
    BY DEF Safe, ScanSafe
  <2>3. PublishesSafe'
    BY DEF Safe, PublishesSafe, Exposed
  <2> QED
    BY <1>1, <2>1, <2>2, <2>3 DEF Safe
<1>3. CASE Next
  BY <1>1, <1>3, SafeClient, SafeScan, SafeApply DEF Next, RunStep, RunFault
<1> QED
  BY <1>1, <1>2, <1>3

(* A version whose publish did not run across a scan of its site keeps all *)
(* of its chunks for ever.                                                 *)
THEOREM VersionsKept == Spec => []KeptUnlessRaced
<1>1. Init => IInv
  BY TypeInit, SafeInit DEF IInv
<1>2. IInv => KeptUnlessRaced
  BY DEF IInv, Safe
<1> QED
  BY <1>1, <1>2, Inductive, PTL DEF Spec

----------------------------------------------------------------------------
(* What is deleted.                                                        *)

(* The second invariant: what a plan deletes bears a ripe tombstone, which *)
(* the same plan neither renews nor clears; the tombstones a scan has read *)
(* are those of its site; and a degraded run applies no delete.            *)
Ripe ==
  \A s \in Sites : \A c \in plans[s].delete :
    /\ marks[s][c] = "ripe"
    /\ c \notin plans[s].create /\ c \notin plans[s].clear

Faithful ==
  phase = "scan" /\ current # NoSite /\ "tombstones" \in scan.read =>
    scan.tombstones = marks[current]

Vetoed ==
  phase = "apply" =>
    /\ unscanned = {}
    /\ degraded => \A s \in Sites : plans[s].delete = {}

Due == Ripe /\ Faithful /\ Vetoed

(* A plan deletes chunks with ripe tombstones only, and touches none of    *)
(* these otherwise.                                                        *)
LEMMA PlanGcRipe ==
  ASSUME NEW referenced, NEW present, NEW mark,
         NEW c \in PlanGc(referenced, present, mark).delete
  PROVE  /\ mark[c] = "ripe"
         /\ c \notin PlanGc(referenced, present, mark).create
         /\ c \notin PlanGc(referenced, present, mark).clear
BY DEF PlanGc

(* Nothing is planned at the start.                                        *)
LEMMA DueInit == Init => Due
BY NoPlanType DEF Init, Due, Ripe, Faithful, Vetoed

(* A step that leaves the tombstones alone and plans no more than before   *)
(* keeps Ripe.                                                             *)
LEMMA RipeKept ==
  ASSUME Ripe, UNCHANGED marks,
         \A s \in Sites : /\ plans'[s].delete \subseteq plans[s].delete
                          /\ plans'[s].create \subseteq plans[s].create
                          /\ plans'[s].clear \subseteq plans[s].clear
  PROVE  Ripe'
BY DEF Ripe

(* A scan that reads versions or objects does not read tombstones.         *)
LEMMA ReadsFields ==
  ASSUME scan \in Scan, ReadReferences \/ ReadObjects
  PROVE  /\ scan'.tombstones = scan.tombstones
         /\ "tombstones" \in scan'.read => "tombstones" \in scan.read
<1>1. CASE ReadReferences
  <2>1. PICK late \in SUBSET (versions[current] \ scan.sure) :
          scan' = [scan EXCEPT
            !.read = @ \cup {"references"},
            !.references = UNION {ChunksOf[v] : v \in scan.sure \cup late}]
    BY <1>1 DEF ReadReferences
  <2>2. /\ scan'.tombstones = scan.tombstones
        /\ scan'.read = scan.read \cup {"references"}
    BY <2>1 DEF Scan
  <2> QED
    BY <2>2
<1>2. CASE ReadObjects
  <2>1. /\ scan'.tombstones = scan.tombstones
        /\ scan'.read = scan.read \cup {"objects"}
    BY <1>2 DEF ReadObjects, Scan
  <2> QED
    BY <2>1
<1> QED
  BY <1>1, <1>2

(* Clients, scans and waiting keep the second invariant.                   *)
LEMMA DueScan ==
  ASSUME TypeOK, Safe, Due,
         \/ \E s \in Sites : Client(s)
         \/ \E p \in publishes : Publish(p)
         \/ \E s \in Sites, c \in Chunks : Ripen(s, c)
         \/ RunStarts \/ ReadReferences \/ ReadObjects \/ ReadTombstones
         \/ ScanEnds \/ ScanFails
         \/ \E s \in Sites : ScanSkips(s) \/ ScanBegins(s)
         \/ UNCHANGED vars
  PROVE  Due'
<1> USE DEF Due
<1>1. CASE UNCHANGED <<marks, run>>
  BY <1>1 DEF Ripe, Faithful, Vetoed
<1>2. CASE \/ \E s \in Sites : Client(s)
           \/ \E p \in publishes : Publish(p)
           \/ UNCHANGED vars
  BY <1>1, <1>2 DEF Client, Publish, Upload, PublishBegins, RolloutStarts,
     RolloutEnds, PublishVerifies, PublishCommits
<1>3. ASSUME NEW s \in Sites, NEW c \in Chunks, Ripen(s, c)
      PROVE  Due'
  <2>1. \A t \in Sites, d \in Chunks :
          marks[t][d] = "ripe" => marks'[t][d] = "ripe"
    BY <1>3 DEF Ripen, TypeOK
  <2>2. \A t \in Sites : plans[t].delete \subseteq Chunks
    BY DEF TypeOK, Plan
  <2>3. Ripe'
    BY <1>3, <2>1, <2>2 DEF Ripen, Ripe
  <2> QED
    BY <1>3, <2>3 DEF Ripen, Faithful, Vetoed
<1>4. CASE \/ RunStarts \/ ReadReferences \/ ReadObjects \/ ReadTombstones
           \/ ScanFails
           \/ \E s \in Sites : ScanSkips(s) \/ ScanBegins(s)
  <2>1. Ripe'
    BY <1>4, RipeKept DEF RunStarts, ReadReferences, ReadObjects,
       ReadTombstones, ScanFails, ScanSkips, ScanBegins
  <2>2. Faithful'
    <3>1. CASE RunStarts \/ ScanFails \/ \E s \in Sites : ScanSkips(s)
      BY <3>1 DEF Faithful, Safe, RunOrder, RunStarts, ScanFails, ScanSkips
    <3>2. ASSUME NEW s \in Sites, ScanBegins(s)
          PROVE  Faithful'
      <4>1. scan'.read = {}
        BY <3>2 DEF ScanBegins, Blank
      <4> QED
        BY <4>1 DEF Faithful
    <3>3. CASE ReadReferences \/ ReadObjects
      <4>1. /\ scan'.tombstones = scan.tombstones
            /\ "tombstones" \in scan'.read => "tombstones" \in scan.read
        BY <3>3, ReadsFields DEF TypeOK
      <4> QED
        BY <3>3, <4>1 DEF ReadReferences, ReadObjects, Faithful
    <3>4. CASE ReadTombstones
      <4>1. scan'.tombstones = marks[current]
        BY <3>4 DEF ReadTombstones, TypeOK, Scan
      <4> QED
        BY <3>4, <4>1 DEF ReadTombstones, Faithful
    <3> QED
      BY <1>4, <3>1, <3>2, <3>3, <3>4
  <2>3. Vetoed'
    BY <1>4 DEF Vetoed, RunStarts, ReadReferences, ReadObjects,
       ReadTombstones, ScanFails, ScanSkips, ScanBegins
  <2> QED
    BY <2>1, <2>2, <2>3
<1>5. CASE ScanEnds
  <2>1. scan.tombstones = marks[current]
    BY <1>5 DEF ScanEnds, Faithful, Inputs
  <2>2. \A s \in Sites : \/ plans'[s] = plans[s]
                         \/ /\ s = current
                            /\ plans'[s] = PlanGc(scan.references,
                                             scan.objects, marks[s])
    BY <1>5, <2>1 DEF ScanEnds, TypeOK
  <2>3. Ripe'
    <3> SUFFICES ASSUME NEW s \in Sites, NEW c \in plans'[s].delete
                 PROVE  /\ marks[s][c] = "ripe"
                        /\ c \notin plans'[s].create
                        /\ c \notin plans'[s].clear
      BY <1>5 DEF Ripe, ScanEnds
    <3> QED
      BY <2>2, PlanGcRipe DEF Ripe
  <2> QED
    BY <1>5, <2>3 DEF ScanEnds, Faithful, Vetoed
<1> QED
  BY <1>2, <1>3, <1>4, <1>5

(* Applying plans keeps the second invariant: a plan's tombstones are      *)
(* created and cleared beside those of the chunks it deletes.              *)
LEMMA DueApply ==
  ASSUME TypeOK, Safe, Due,
         \/ ApplyBegins \/ RunEnds \/ RunDies
         \/ \E s \in Sites : CreateTombstones(s) \/ ClearTombstones(s)
                               \/ ApplyFails(s)
         \/ \E s \in Sites, c \in Chunks : DeleteChunk(s, c)
                                             \/ DeleteFails(s, c)
         \/ \E c \in Chunks : DeleteDone(c)
  PROVE  Due'
<1> USE NoPlanType DEF Due
<1>0. /\ plans \in [Sites -> Plan] /\ NoPlan.create = {} /\ NoPlan.clear = {}
      /\ marks \in [Sites -> [Chunks -> {"none", "fresh", "ripe"}]]
      /\ \A s \in Sites : plans[s].delete \subseteq Chunks
  BY DEF TypeOK, NoPlan, Plan
<1>1. CASE ApplyBegins
  <2>1. \A s \in Sites : /\ plans'[s].delete \subseteq plans[s].delete
                         /\ plans'[s].create = plans[s].create
                         /\ plans'[s].clear = plans[s].clear
                         /\ degraded => plans'[s].delete = {}
    BY <1>0, <1>1 DEF ApplyBegins, Plan
  <2> QED
    BY <1>1, <2>1, RipeKept DEF ApplyBegins, Faithful, Vetoed
<1>2. CASE RunEnds \/ RunDies
  BY <1>0, <1>2, RipeKept
     DEF RunEnds, RunDies, Reset, Faithful, Vetoed
<1>3. ASSUME NEW s \in Sites, CreateTombstones(s)
      PROVE  Due'
  <2>1. \A t \in Sites : /\ plans'[t].delete = plans[t].delete
                         /\ plans'[t].create \subseteq plans[t].create
                         /\ plans'[t].clear = plans[t].clear
    BY <1>0, <1>3 DEF CreateTombstones, Plan
  <2>2. \A t \in Sites, c \in Chunks :
          marks'[t][c] = marks[t][c] \/ c \in plans[t].create
    BY <1>0, <1>3 DEF CreateTombstones
  <2>3. Ripe'
    BY <1>0, <2>1, <2>2 DEF Ripe
  <2> QED
    BY <1>3, <2>1, <2>3 DEF CreateTombstones, Faithful, Vetoed
<1>4. ASSUME NEW s \in Sites, ClearTombstones(s)
      PROVE  Due'
  <2>1. \A t \in Sites : /\ plans'[t].delete = plans[t].delete
                         /\ plans'[t].create = plans[t].create
                         /\ plans'[t].clear \subseteq plans[t].clear
    BY <1>0, <1>4 DEF ClearTombstones, Plan
  <2>2. \A t \in Sites, c \in Chunks :
          marks'[t][c] = marks[t][c] \/ c \in plans[t].clear
    BY <1>0, <1>4 DEF ClearTombstones
  <2>3. Ripe'
    BY <1>0, <2>1, <2>2 DEF Ripe
  <2> QED
    BY <1>4, <2>1, <2>3 DEF ClearTombstones, Faithful, Vetoed
<1>5. ASSUME NEW s \in Sites, ApplyFails(s)
      PROVE  Due'
  <2>1. \A t \in Sites : plans'[t] = plans[t] \/ plans'[t] = NoPlan
    BY <1>0, <1>5 DEF ApplyFails
  <2> QED
    BY <1>0, <1>5, <2>1, RipeKept DEF ApplyFails, Faithful, Vetoed
<1>6. ASSUME NEW s \in Sites, NEW c \in Chunks, DeleteChunk(s, c)
      PROVE  Due'
  BY <1>6, RipeKept DEF DeleteChunk, Faithful, Vetoed
<1>7. ASSUME NEW s \in Sites, NEW c \in Chunks, DeleteFails(s, c)
      PROVE  Due'
  <2>1. \A t \in Sites : /\ plans'[t].delete \subseteq plans[t].delete
                         /\ plans'[t].create = plans[t].create
                         /\ plans'[t].clear = plans[t].clear
    BY <1>0, <1>7 DEF DeleteFails, Plan
  <2> QED
    BY <1>7, <2>1, RipeKept DEF DeleteFails, Faithful, Vetoed
<1>8. ASSUME NEW c \in Chunks, DeleteDone(c)
      PROVE  Due'
  <2>1. \A t \in Sites :
          /\ plans'[t].delete \subseteq plans[t].delete
          /\ plans'[t].create = plans[t].create
          /\ plans'[t].clear = plans[t].clear
          /\ t = current => c \notin plans'[t].delete
    BY <1>0, <1>8 DEF DeleteDone, Plan
  <2>2. \A t \in Sites, d \in Chunks :
          marks'[t][d] = marks[t][d] \/ (t = current /\ d = c)
    BY <1>0, <1>8 DEF DeleteDone
  <2>3. Ripe'
    BY <1>0, <2>1, <2>2 DEF Ripe
  <2>4. phase = "apply" /\ phase' = phase
    BY <1>8 DEF DeleteDone, Safe, RunOrder
  <2> QED
    BY <1>8, <2>1, <2>3, <2>4 DEF DeleteDone, Faithful, Vetoed
<1> QED
  BY <1>1, <1>2, <1>3, <1>4, <1>5, <1>6, <1>7, <1>8

(* Every step keeps the second invariant.                                  *)
LEMMA DueStep == IInv /\ Due /\ [Next]_vars => Due'
BY DueScan, DueApply DEF IInv, Next, RunStep, RunFault

(* Nothing but DeleteChunk takes a chunk out of storage.                   *)
LEMMA OnlyDeletes ==
  ASSUME TypeOK, [Next]_vars,
         NEW s \in Sites, NEW c \in stored[s] \ stored'[s]
  PROVE  phase = "apply" /\ c \in plans[s].delete
<1>1. CASE \E t \in Sites, d \in Chunks : DeleteChunk(t, d)
  BY <1>1 DEF DeleteChunk, TypeOK
<1>2. CASE \E t \in Sites, d \in Chunks : Upload(t, d)
  BY <1>2 DEF Upload, TypeOK
<1>3. CASE UNCHANGED stored
  BY <1>3
<1> QED
  BY <1>1, <1>2, <1>3 DEF Next, Client, Publish, RunStep, RunFault,
     PublishBegins, RolloutStarts, RolloutEnds, PublishVerifies,
     PublishCommits, Ripen, RunStarts, ScanSkips, ScanBegins, ReadReferences,
     ReadObjects, ReadTombstones, ScanEnds, ScanFails, ApplyBegins,
     CreateTombstones, ClearTombstones, DeleteDone, DeleteFails, ApplyFails,
     RunEnds, RunDies

(* A run that failed to read some site deletes nothing anywhere, and none  *)
(* deletes before it has read every site.                                  *)
THEOREM VetoHolds == Spec => DegradedDeletesNothing
<1>1. Init => IInv /\ Due
  BY TypeInit, SafeInit, DueInit DEF IInv
<1>2. IInv /\ Due /\ [Next]_vars
        => [(\E s \in Sites : stored[s] \ stored'[s] # {})
              => ~degraded /\ unscanned = {}]_vars
  BY OnlyDeletes DEF IInv, Due, Vetoed
<1> QED
  BY <1>1, <1>2, Inductive, DueStep, PTL DEF Spec, DegradedDeletesNothing

(* A chunk that is deleted bears a ripe tombstone: an earlier run found it *)
(* orphaned, a grace period ago.                                           *)
THEOREM GraceObserved == Spec => GraceKept
<1>1. Init => IInv /\ Due
  BY TypeInit, SafeInit, DueInit DEF IInv
<1>2. IInv /\ Due /\ [Next]_vars
        => [\A s \in Sites :
              \A c \in stored[s] \ stored'[s] : marks[s][c] = "ripe"]_vars
  BY OnlyDeletes DEF IInv, Due, Ripe
<1> QED
  BY <1>1, <1>2, Inductive, DueStep, PTL DEF Spec, GraceKept

=============================================================================

------------------------- MODULE RoostRolloutProofs -------------------------
(***************************************************************************)
(* What RoostRollout guarantees for every fleet, every set of versions and *)
(* every canary size: type correctness, the blast radius of a version,     *)
(* that a rollout in its fleet wave has earned it, that the whole is a     *)
(* StagedRelease, and that the dispatch flag of a fleet wave is true.      *)
(***************************************************************************)
EXTENDS RoostRollout, FiniteSetTheorems, TLAPS

(* The inductive invariant.  A success report is never about a version the *)
(* machine has not committed; the machines of a canary wave have all been  *)
(* noted as canaries; and whoever may send a version beyond its canaries,  *)
(* a document in its fleet stage or a dispatch under way, has the evidence *)
(* of a canary machine that committed it.                                  *)
Proven(v) == canaries[v] \cap committed[v] # {}

TruthfulReports ==
  \A m \in Machines, v \in Versions :
    target[m].version = v /\ target[m].status = "succeeded"
      => m \in committed[v]

CanariesNoted ==
  \A v \in Versions \ forced :
    rollout[v].stage = "canary" => rollout[v].canary \subseteq canaries[v]

FleetProven ==
  \A v \in Versions \ forced : rollout[v].stage = "fleet" => Proven(v)

PlansProven ==
  \A p \in plans : p.version \in forced \/ Proven(p.version)

RollbacksForced == \A r \in rollbacks : r.version \in forced

Evidence ==
  /\ CanariesNoted
  /\ FleetProven
  /\ PlansProven
  /\ RollbacksForced

IInv == TypeOK /\ TruthfulReports /\ Evidence /\ BlastRadius
            /\ EarnedPromotion

----------------------------------------------------------------------------
(* Lemmas about fanoutLogic.                                               *)

(* canarySizeFor never asks for more machines than there are or than       *)
(* CANARY_MAX, nor for none when there are some: a rollout always has      *)
(* somebody to learn from, and in a large fleet somebody who waits.        *)
THEOREM CanarySizeBounds ==
  ASSUME NEW n \in Nat
  PROVE  /\ CanarySizeFor(n) \in 0..n
         /\ n > 0 => CanarySizeFor(n) > 0
         /\ CanarySizeFor(n) <= CanaryMax
BY CanaryAssumption DEF CanarySizeFor

(* A wave of which all have reported is decided, with one exception: a     *)
(* canary wave with more than 10% and at most 25% of failures is neither   *)
(* promoted nor aborted.  That takes a wave of four machines.              *)
THEOREM SettledWavesDecide ==
  ASSUME NEW e \in [total : Nat, succeeded : Nat, failed : Nat],
         Settled(e), e.total > 0
  PROVE  /\ NextStage("fleet", e) \in {"complete", "aborted"}
         /\ NextStage("canary", e) = "canary"
              <=> 10 * e.failed > e.total /\ 4 * e.failed <= e.total
         /\ e.total < 4 => NextStage("canary", e) # "canary"
<1>1. CanaryShouldAbort(e) <=> 4 * e.failed > e.total
  BY DEF CanaryShouldAbort
<1>2. CanaryShouldPromote(e) <=> ~(10 * e.failed > e.total)
  BY DEF CanaryShouldPromote, Settled
<1>3. e.total < 4 /\ e.failed > 0 => 4 * e.failed > e.total
  OBVIOUS
<1> QED BY <1>1, <1>2, <1>3 DEF NextStage, Terminal

(* With the code's fraction of a tenth, at least one, no fleet of up to 30 *)
(* machines has a canary wave that can end undecided.                      *)
THEOREM SmallFleetsDecide ==
  ASSUME CanaryPercent = 10, CanaryMin = 1, NEW n \in 1..30,
         NEW e \in [total : Nat, succeeded : Nat, failed : Nat],
         e.total = CanarySizeFor(n), Settled(e)
  PROVE  NextStage("canary", e) # "canary"
<1>1. e.total > 0 /\ e.total < 4
  BY CanaryAssumption DEF CanarySizeFor
<1> QED BY <1>1, SettledWavesDecide

(* The two waves of a rollout document share no machine and lose none.     *)
LEMMA WavesSplit ==
  ASSUME NEW ms \in SUBSET Machines, NEW rank,
         NEW stage \in {"scheduled", "canary"}
  PROVE  /\ Waves(stage, ms, rank) \in RolloutDoc
         /\ Waves(stage, ms, rank).stage = stage
         /\ Waves(stage, ms, rank).canary
              \cup Waves(stage, ms, rank).fleet = ms
         /\ Waves(stage, ms, rank).canary
              \cap Waves(stage, ms, rank).fleet = {}
<1>1. CanaryOf(ms, rank) \subseteq ms
  BY DEF CanaryOf
<1> QED
  BY <1>1 DEF Waves, RolloutDoc, Stages

(* The gates exclude each other: nextStage tests the abort first, and no   *)
(* wave that aborts could have been promoted.                              *)
LEMMA GatesExclusive ==
  ASSUME NEW e \in [total : Nat, succeeded : Nat, failed : Nat],
         CanaryShouldPromote(e)
  PROVE  ~CanaryShouldAbort(e) /\ e.succeeded > 0
BY DEF CanaryShouldPromote, CanaryShouldAbort, Settled

(* Only a canary wave that earns it is promoted.                           *)
LEMMA VerdictFleet ==
  ASSUME NEW e, NextStage("canary", e) = "fleet"
  PROVE  CanaryShouldPromote(e)
BY DEF NextStage, Terminal

(* A verdict on a rollout is a stage.                                      *)
LEMMA VerdictType ==
  ASSUME NEW e, NEW stage \in Stages
  PROVE  NextStage(stage, e) \in Stages
BY DEF NextStage, Terminal, Stages

(* A wave evaluation counts machines of the wave.                          *)
LEMMA EvaluationCounts ==
  ASSUME NEW wave \in SUBSET Machines, NEW status
  PROVE  /\ EvaluateWave(wave, status)
              \in [total : Nat, succeeded : Nat, failed : Nat]
         /\ IsFiniteSet(wave)
         /\ IsFiniteSet({m \in wave : status[m] = "succeeded"})
<1>1. IsFiniteSet(wave)
  BY FS_Subset, RolloutAssumption
<1>2. /\ IsFiniteSet({m \in wave : status[m] = "succeeded"})
      /\ IsFiniteSet({m \in wave : status[m] = "failed"})
  BY <1>1, FS_Subset
<1> QED
  BY <1>1, <1>2, FS_CardinalityType DEF EvaluateWave

----------------------------------------------------------------------------
(* Type correctness, one step per action.                                  *)

USE DEF documents, events, handlers, history, vars

(* TypeOK holds at the start.                                              *)
LEMMA TypeInit == Init => TypeOK
BY RolloutAssumption
   DEF Init, TypeOK, RolloutDoc, NoDoc, Report, NoReport, Statuses

(* Merging the dispatch flag into a rollout document leaves one, even      *)
(* where there was none.                                                   *)
LEMMA MergeType ==
  ASSUME NEW doc \in RolloutDoc, NEW flag \in {"no", "yes"}
  PROVE  MergeDispatched(doc, flag) \in RolloutDoc
BY DEF MergeDispatched, RolloutDoc, NoDoc, Stages

(* What the requests of an operator write is well typed.                   *)
LEMMA TypeRequest ==
  ASSUME TypeOK, Request \/ FinishRequest
  PROVE  TypeOK'
<1>1. ASSUME NEW v \in Versions, Publish(v)
      PROVE  TypeOK'
  BY <1>1, RolloutAssumption DEF TypeOK, Publish, Operator
<1>2. ASSUME NEW v \in Versions, RollbackHead(v)
      PROVE  TypeOK'
  <2> DEFINE closed == [rollout[v] EXCEPT
                          !.stage = "complete", !.canary = Machines,
                          !.fleet = {}, !.dispatched = "yes"]
  <2>1. closed \in RolloutDoc
    <3>1. rollout[v] \in RolloutDoc
      BY DEF TypeOK
    <3> QED
      BY <3>1 DEF RolloutDoc, Stages
  <2>2. rollout' = [rollout EXCEPT ![v] = closed]
    BY <1>2 DEF RollbackHead, TypeOK
  <2> HIDE DEF closed
  <2> QED
    BY <1>2, <2>1, <2>2, RolloutAssumption
    DEF TypeOK, RollbackHead, Operator
<1>3. ASSUME ResyncRead
      PROVE  TypeOK'
  BY <1>3, RolloutAssumption DEF TypeOK, ResyncRead, Operator
<1>4. ASSUME NEW v \in Versions, NEW ms \in DeploySets,
             NEW scheduled \in BOOLEAN, DeployRead(v, ms, scheduled)
      PROVE  TypeOK'
  BY <1>4, RolloutAssumption DEF TypeOK, DeployRead, Operator
<1>5. ASSUME NEW v \in resyncs, ResyncCommit(v)
      PROVE  TypeOK'
  <2>1. rollout' \in [Versions -> RolloutDoc]
    BY <1>5 DEF TypeOK, ResyncCommit, NoDoc, RolloutDoc
  <2>2. /\ pending' \in [Machines -> SUBSET Commands]
        /\ target' \in [Machines -> Report]
    BY <1>5 DEF TypeOK, ResyncCommit, Queue, Resync, Commands, Report,
                NoReport, Statuses
  <2> QED
    BY <1>5, <2>1, <2>2 DEF TypeOK, ResyncCommit, NoteQueued
<1>6. ASSUME NEW d \in deploys, DeployCommit(d)
      PROVE  TypeOK'
  <2>1. d.version \in Versions /\ d.machines \in SUBSET Machines
    BY DEF TypeOK
  <2>2. CASE d.scheduled
    <3>1. Waves("scheduled", d.machines, NameRank) \in RolloutDoc
      BY <2>1, WavesSplit
    <3> QED
      BY <1>6, <2>1, <2>2, <3>1 DEF TypeOK, DeployCommit
  <2>3. CASE ~d.scheduled
    <3> DEFINE doc == Waves("canary", d.machines, NameRank)
    <3>1. doc \in RolloutDoc
      BY <2>1, WavesSplit
    <3>2. StartWave(d.version, doc)
      BY <1>6, <2>3 DEF DeployCommit
    <3> HIDE DEF doc
    <3> QED
      BY <1>6, <2>1, <3>1, <3>2
      DEF TypeOK, DeployCommit, StartWave, Queue, NoteQueued, Sync, Commands,
          RolloutDoc
  <2> QED
    BY <2>2, <2>3
<1>7. ASSUME NEW r \in rollbacks, NEW S \in SUBSET r.todo,
             RollbackBatch(r, S)
      PROVE  TypeOK'
  <2>1. /\ pending' \in [Machines -> SUBSET Commands]
        /\ target' \in [Machines -> Report]
    BY <1>7 DEF TypeOK, RollbackBatch, Rollback, Commands, Report, NoReport,
                Statuses
  <2> QED
    BY <1>7, <2>1 DEF TypeOK, RollbackBatch, NoteQueued
<1> QED
  BY <1>1, <1>2, <1>3, <1>4, <1>5, <1>6, <1>7 DEF Request, FinishRequest

(* So is what the sweep and onRoostWritten write.                          *)
LEMMA TypeWave ==
  ASSUME TypeOK, NEW v \in Versions, NEW doc \in RolloutDoc,
         StartWave(v, doc)
  PROVE  /\ rollout' \in [Versions -> RolloutDoc]
         /\ canaries' \in [Versions -> SUBSET Machines]
         /\ pending' \in [Machines -> SUBSET Commands]
         /\ queued' \in [Versions -> SUBSET Machines]
         /\ committed' = committed /\ forced' = forced
BY DEF TypeOK, StartWave, Queue, NoteQueued, Sync, Commands, RolloutDoc

(* The scheduler and the fan-out of a new head keep TypeOK.                *)
LEMMA TypeSchedule ==
  ASSUME TypeOK, Schedule \/ FanOut
  PROVE  TypeOK'
<1>1. ASSUME NEW v \in Versions, WindowPasses(v)
      PROVE  TypeOK'
  <2> DEFINE doc == [rollout[v] EXCEPT
                       !.window = IF @ = "future" THEN "due" ELSE "late"]
  <2>1. doc \in RolloutDoc
    <3>1. rollout[v] \in RolloutDoc
      BY DEF TypeOK
    <3> QED
      BY <3>1 DEF RolloutDoc
  <2>2. rollout' = [rollout EXCEPT ![v] = doc]
    BY <1>1 DEF WindowPasses
  <2> HIDE DEF doc
  <2> QED
    BY <1>1, <2>1, <2>2 DEF TypeOK, WindowPasses
<1>2. ASSUME NEW v \in Versions, SweepClaim(v)
      PROVE  TypeOK'
  <2> DEFINE started == [rollout[v] EXCEPT !.stage = "canary"]
             expired == [rollout[v] EXCEPT !.stage = "aborted"]
  <2>1. started \in RolloutDoc /\ expired \in RolloutDoc
    <3>1. rollout[v] \in RolloutDoc
      BY DEF TypeOK
    <3> QED
      BY <3>1 DEF RolloutDoc, Stages
  <2>2. \/ StartWave(v, started)
        \/ rollout' = [rollout EXCEPT ![v] = expired]
             /\ UNCHANGED <<pending, history>>
    BY <1>2 DEF SweepClaim
  <2> HIDE DEF started, expired
  <2>3. CASE StartWave(v, started)
    BY <1>2, <2>1, <2>3, TypeWave DEF TypeOK, SweepClaim
  <2>4. CASE rollout' = [rollout EXCEPT ![v] = expired]
               /\ UNCHANGED <<pending, history>>
    BY <1>2, <2>1, <2>4 DEF TypeOK, SweepClaim
  <2> QED
    BY <2>2, <2>3, <2>4
<1>3. ASSUME NEW v \in Versions, FanOutRead(v)
      PROVE  TypeOK'
  BY <1>3, RolloutAssumption DEF TypeOK, FanOutRead, Deliver, Fault
<1>4. ASSUME NEW v \in Versions, FanOutCommit(v)
      PROVE  TypeOK'
  <2>1. Waves("canary", Machines, HashRank[v]) \in RolloutDoc
    BY WavesSplit
  <2>2. StartWave(v, Waves("canary", Machines, HashRank[v]))
    BY <1>4 DEF FanOutCommit
  <2> QED
    BY <1>4, <2>1, <2>2, TypeWave DEF TypeOK, FanOutCommit
<1> QED
  BY <1>1, <1>2, <1>3, <1>4 DEF Schedule, FanOut

(* So is what onTargetStateWritten decides.                                *)
LEMMA TypeReport ==
  ASSUME TypeOK, NEW m \in Machines, NEW v \in Versions, OnReport(m, v)
  PROVE  TypeOK'
<1> DEFINE Rest == /\ UNCHANGED <<head, created, target, pending, roostEvents,
                                 fanningOut, deploys, resyncs, rollbacks,
                                 running, history>>
                   /\ targetEvents' \subseteq Machines \X Versions
                   /\ spent' \in 0..Budget
<1>1. ASSUME TargetEvent(m, v) PROVE Rest
  BY <1>1, RolloutAssumption DEF TypeOK, TargetEvent, Deliver, Fault
<1>2. rollout[v] \in RolloutDoc
  BY DEF TypeOK
<1>3. Plan(v) \in [version : Versions, todo : SUBSET Machines,
                   failed : BOOLEAN]
  BY <1>2 DEF Plan, RolloutDoc
<1>4. ASSUME ReportIgnored(m, v) PROVE TypeOK'
  <2>1. Rest
    BY <1>1, <1>4 DEF ReportIgnored
  <2> QED
    BY <1>4, <2>1 DEF TypeOK, ReportIgnored
<1>5. ASSUME RetryDispatch(m, v) PROVE TypeOK'
  <2>1. Rest
    BY <1>1, <1>5 DEF RetryDispatch
  <2> QED
    BY <1>3, <1>5, <2>1 DEF TypeOK, RetryDispatch
<1>6. ASSUME PromoteToFleet(m, v) PROVE TypeOK'
  <2> DEFINE promoted == [rollout[v] EXCEPT !.stage = "fleet",
                                            !.dispatched = "no"]
             finished == [rollout[v] EXCEPT !.stage = "complete",
                                            !.dispatched = "yes"]
  <2>1. promoted \in RolloutDoc /\ finished \in RolloutDoc
    BY <1>2 DEF RolloutDoc, Stages
  <2>2. \/ /\ rollout' = [rollout EXCEPT ![v] = promoted]
           /\ plans' = plans \cup {Plan(v)}
        \/ /\ rollout' = [rollout EXCEPT ![v] = finished]
           /\ plans' = plans
    BY <1>6 DEF PromoteToFleet
  <2>3. Rest
    BY <1>1, <1>6 DEF PromoteToFleet
  <2> HIDE DEF promoted, finished
  <2> QED
    BY <1>3, <2>1, <2>2, <2>3 DEF TypeOK
<1>7. ASSUME Conclude(m, v) PROVE TypeOK'
  <2>1. [rollout[v] EXCEPT !.stage = Verdict(v)] \in RolloutDoc
    BY <1>2, <1>7 DEF RolloutDoc, Stages, Conclude
  <2>2. Rest
    BY <1>1, <1>7 DEF Conclude
  <2> QED
    BY <1>7, <2>1, <2>2 DEF TypeOK, Conclude
<1> QED
  BY <1>4, <1>5, <1>6, <1>7 DEF OnReport

(* So is what a dispatch or a dying handler leaves behind.                 *)
LEMMA TypeDispatch ==
  ASSUME TypeOK,
         (\E v \in Versions : Dispatch(v) \/ Settle(v)) \/ HandlerDies
  PROVE  TypeOK'
<1>1. ASSUME NEW p \in plans, NEW S \in SUBSET p.todo, DispatchBatch(p, S)
      PROVE  TypeOK'
  <2>1. p.version \in Versions /\ S \subseteq Machines
    BY DEF TypeOK
  <2>2. /\ pending' \in [Machines -> SUBSET Commands]
        /\ queued' \in [Versions -> SUBSET Machines]
    BY <1>1, <2>1 DEF TypeOK, DispatchBatch, Queue, NoteQueued, Sync, Commands
  <2> QED
    BY <1>1, <2>2 DEF TypeOK, DispatchBatch
<1>2. ASSUME NEW p \in plans, DispatchBatchFails(p)
      PROVE  TypeOK'
  <2>1. [p EXCEPT !.failed = TRUE]
          \in [version : Versions, todo : SUBSET Machines, failed : BOOLEAN]
    BY DEF TypeOK
  <2>2. spent' \in 0..Budget
    BY <1>2, RolloutAssumption DEF TypeOK, DispatchBatchFails, Fault
  <2> QED
    BY <1>2, <2>1, <2>2 DEF TypeOK, DispatchBatchFails
<1>3. ASSUME NEW p \in plans, DispatchSettles(p)
      PROVE  TypeOK'
  <2> DEFINE doc == MergeDispatched(rollout[p.version],
                                    IF p.failed THEN "no" ELSE "yes")
  <2>1. p.version \in Versions /\ rollout[p.version] \in RolloutDoc
    BY DEF TypeOK
  <2>2. doc \in RolloutDoc
    BY <2>1, MergeType
  <2>3. rollout' = [rollout EXCEPT ![p.version] = doc]
    BY <1>3 DEF DispatchSettles
  <2> HIDE DEF doc
  <2> QED
    BY <1>3, <2>1, <2>2, <2>3 DEF TypeOK, DispatchSettles
<1>4. ASSUME HandlerDies
      PROVE  TypeOK'
  BY <1>4, RolloutAssumption DEF TypeOK, HandlerDies, Fault
<1> QED
  BY <1>1, <1>2, <1>3, <1>4 DEF Dispatch, Settle

(* So is what an agent does.                                               *)
LEMMA TypeAgent ==
  ASSUME TypeOK, NEW m \in Machines, Agent(m)
  PROVE  TypeOK'
<1>1. ASSUME NEW v \in Versions, NEW status \in Statuses,
             \/ ReportState(m, v, status)
             \/ Reports(m, v, status) /\ Fault
      PROVE  /\ target' \in [Machines -> Report]
             /\ targetEvents' \subseteq Machines \X Versions
             /\ spent' \in 0..Budget
  <2>1. [version |-> v, status |-> status] \in Report
    BY <1>1 DEF Report
  <2>2. spent' \in 0..Budget
    BY <1>1, RolloutAssumption DEF TypeOK, ReportState, Reports, Fault
  <2> QED
    BY <1>1, <2>1, <2>2 DEF TypeOK, ReportState, Reports, Fault
<1>2. ASSUME NEW c \in pending[m], SyncStarts(m, c)
      PROVE  TypeOK'
  <2>1. c \in Commands /\ c.version \in Versions
    BY DEF TypeOK, Commands
  <2>2. ReportState(m, c.version, "pending") /\ "pending" \in Statuses
    BY <1>2 DEF SyncStarts, Statuses
  <2> QED
    BY <1>1, <1>2, <2>1, <2>2 DEF TypeOK, SyncStarts
<1>3. ASSUME NEW status \in Outcomes, SyncEnds(m, status)
      PROVE  TypeOK'
  <2>1. running[m] \in Commands /\ running[m].version \in Versions
    BY <1>3 DEF TypeOK, SyncEnds, Commands
  <2>2. /\ \/ ReportState(m, running[m].version, status)
           \/ Reports(m, running[m].version, status) /\ Fault
        /\ status \in Statuses
    BY <1>3, RolloutAssumption DEF SyncEnds, Statuses
  <2>3. /\ running' \in [Machines -> Commands \cup {NoCommand}]
        /\ pending' \in [Machines -> SUBSET Commands]
        /\ committed' \in [Versions -> SUBSET Machines]
    BY <1>3, <2>1 DEF TypeOK, SyncEnds
  <2> QED
    BY <1>1, <1>3, <2>1, <2>2, <2>3 DEF TypeOK, SyncEnds
<1>4. ASSUME AgentRestarts(m)
      PROVE  TypeOK'
  BY <1>4, RolloutAssumption DEF TypeOK, AgentRestarts, Fault
<1> QED
  BY <1>2, <1>3, <1>4 DEF Agent

(* Every step keeps TypeOK.                                                *)
LEMMA TypeStep == TypeOK /\ [Next]_vars => TypeOK'
<1> SUFFICES ASSUME TypeOK, [Next]_vars PROVE TypeOK'
  OBVIOUS
<1>1. CASE UNCHANGED vars
  BY <1>1 DEF TypeOK
<1>2. CASE Next
  BY <1>2, TypeRequest, TypeSchedule, TypeReport, TypeDispatch, TypeAgent
  DEF Next
<1> QED
  BY <1>1, <1>2

(* Every reachable state is well typed, whatever is redelivered, lost or   *)
(* overwritten: no handler ever writes a rollout document, a report or a   *)
(* command that the other parts cannot read.                               *)
THEOREM TypeCorrect == Spec => []TypeOK
BY TypeInit, TypeStep, PTL DEF Spec

----------------------------------------------------------------------------
(* Evidence: nothing that has been committed, noted or forced is forgotten *)
(* (these are the facts an evidence argument may rely on for ever).        *)

(* What a machine has committed, and who was ever a canary, is never taken *)
(* back.                                                                   *)
LEMMA EvidenceGrows ==
  ASSUME TypeOK, Next, NEW v \in Versions
  PROVE  /\ committed[v] \subseteq committed'[v]
         /\ canaries[v] \subseteq canaries'[v]
         /\ forced \subseteq forced'
<1>1. CASE Request
  BY <1>1 DEF Request, Publish, RollbackHead, ResyncRead, DeployRead
<1>2. CASE FinishRequest
  BY <1>2 DEF TypeOK, FinishRequest, ResyncCommit, DeployCommit, StartWave,
              RollbackBatch
<1>3. CASE Schedule \/ FanOut
  BY <1>3 DEF TypeOK, Schedule, FanOut, WindowPasses, SweepClaim, FanOutRead,
              FanOutCommit, StartWave
<1>4. CASE \E m \in Machines, w \in Versions : OnReport(m, w)
  BY <1>4 DEF OnReport, ReportIgnored, RetryDispatch, PromoteToFleet,
              Conclude, TargetEvent
<1>5. CASE (\E w \in Versions : Dispatch(w) \/ Settle(w)) \/ HandlerDies
  BY <1>5 DEF Dispatch, Settle, DispatchBatch, DispatchBatchFails,
              DispatchSettles, HandlerDies
<1>6. CASE \E m \in Machines : Agent(m)
  BY <1>6 DEF TypeOK, Agent, SyncStarts, SyncEnds, AgentRestarts
<1> QED
  BY <1>1, <1>2, <1>3, <1>4, <1>5, <1>6 DEF Next

(* TruthfulReports holds at the start.                                     *)
LEMMA TruthInit == Init => TruthfulReports
BY RolloutAssumption DEF Init, TruthfulReports, NoReport

(* Every step keeps TruthfulReports: only a sync that succeeds reports so. *)
LEMMA TruthStep ==
  ASSUME TypeOK, TruthfulReports, Next
  PROVE  TruthfulReports'
<1>1. ASSUME UNCHANGED target
      PROVE  TruthfulReports'
  BY <1>1, EvidenceGrows DEF TruthfulReports
<1>2. CASE Request
  BY <1>1, <1>2 DEF Request, Publish, RollbackHead, ResyncRead, DeployRead
<1>3. CASE FinishRequest
  <2>1. ASSUME NEW w \in resyncs, ResyncCommit(w)
        PROVE  TruthfulReports'
    BY <2>1, RolloutAssumption DEF ResyncCommit, TruthfulReports, NoReport
  <2>2. ASSUME NEW d \in deploys, DeployCommit(d)
        PROVE  TruthfulReports'
    BY <1>1, <2>2 DEF DeployCommit
  <2>3. ASSUME NEW r \in rollbacks, NEW S \in SUBSET r.todo,
               RollbackBatch(r, S)
        PROVE  TruthfulReports'
    BY <2>3, RolloutAssumption
    DEF TypeOK, RollbackBatch, TruthfulReports, NoReport
  <2> QED
    BY <1>3, <2>1, <2>2, <2>3 DEF FinishRequest
<1>4. CASE Schedule \/ FanOut
  BY <1>1, <1>4 DEF Schedule, FanOut, WindowPasses, SweepClaim, FanOutRead,
                    FanOutCommit
<1>5. CASE \E m \in Machines, w \in Versions : OnReport(m, w)
  BY <1>1, <1>5 DEF OnReport, ReportIgnored, RetryDispatch, PromoteToFleet,
                    Conclude, TargetEvent
<1>6. CASE (\E w \in Versions : Dispatch(w) \/ Settle(w)) \/ HandlerDies
  BY <1>1, <1>6 DEF Dispatch, Settle, DispatchBatch, DispatchBatchFails,
                    DispatchSettles, HandlerDies
<1>7. ASSUME NEW m \in Machines, Agent(m)
      PROVE  TruthfulReports'
  <2>1. ASSUME NEW c \in pending[m], SyncStarts(m, c)
        PROVE  TruthfulReports'
    BY <2>1 DEF TypeOK, TruthfulReports, SyncStarts, ReportState, Reports
  <2>2. ASSUME NEW status \in Outcomes, SyncEnds(m, status)
        PROVE  TruthfulReports'
    <3>1. running[m].version \in Versions
      BY <2>2 DEF TypeOK, SyncEnds, Commands
    <3>2. status = "succeeded" => m \in committed'[running[m].version]
      BY <2>2, <3>1 DEF TypeOK, SyncEnds
    <3>3. \/ target' = [target EXCEPT ![m] =
                          [version |-> running[m].version,
                           status |-> status]]
          \/ UNCHANGED target
      BY <2>2 DEF SyncEnds, ReportState, Reports
    <3>4. \A v \in Versions : committed[v] \subseteq committed'[v]
      BY EvidenceGrows
    <3> QED
      BY <3>1, <3>2, <3>3, <3>4 DEF TypeOK, TruthfulReports
  <2>3. CASE AgentRestarts(m)
    BY <1>1, <2>3 DEF AgentRestarts
  <2> QED
    BY <1>7, <2>1, <2>2, <2>3 DEF Agent
<1> QED
  BY <1>2, <1>3, <1>4, <1>5, <1>6, <1>7 DEF Next

----------------------------------------------------------------------------
(* Promotion.                                                              *)

(* The verdict "fleet" on a canary wave means that nine tenths of it have  *)
(* committed the version, and so at least one machine.                     *)
LEMMA PromotionEvidence ==
  ASSUME TypeOK, TruthfulReports, NEW v \in Versions,
         rollout[v].stage = "canary", Verdict(v) = "fleet"
  PROVE  /\ 10 * Cardinality(rollout[v].canary \cap committed[v])
              >= 9 * Cardinality(rollout[v].canary)
         /\ rollout[v].canary \cap committed[v] # {}
<1> DEFINE wave == rollout[v].canary
           status == StatusFor(v)
           e == EvaluateWave(wave, status)
           good == {m \in wave : status[m] = "succeeded"}
<1>1. wave \in SUBSET Machines
  BY DEF TypeOK, RolloutDoc
<1>2. /\ e \in [total : Nat, succeeded : Nat, failed : Nat]
      /\ IsFiniteSet(wave) /\ IsFiniteSet(good)
  BY <1>1, EvaluationCounts
<1>3. CanaryShouldPromote(e)
  BY VerdictFleet DEF Verdict, CurrentWave
<1>4. e.total = Cardinality(wave) /\ e.succeeded = Cardinality(good)
  BY DEF EvaluateWave
<1>5. good \subseteq wave \cap committed[v]
  BY <1>1 DEF StatusFor, TruthfulReports
<1>6. IsFiniteSet(wave \cap committed[v])
  BY <1>2, FS_Subset
<1>7. /\ Cardinality(good) <= Cardinality(wave \cap committed[v])
      /\ Cardinality(wave \cap committed[v]) \in Nat
  BY <1>5, <1>6, FS_Subset, FS_CardinalityType
<1>8. e.succeeded > 0
  BY <1>2, <1>3, GatesExclusive
<1>9. good # {}
  BY <1>2, <1>4, <1>8, FS_EmptySet
<1> HIDE DEF wave, status, good, e
<1>10. 10 * Cardinality(wave \cap committed[v]) >= 9 * Cardinality(wave)
  BY <1>2, <1>3, <1>4, <1>7 DEF CanaryShouldPromote, Settled
<1> QED
  BY <1>5, <1>9, <1>10 DEF wave

(* A rollout is in its fleet stage only because it was, with the same      *)
(* canaries, or because it is promoted in this step.                       *)
LEMMA FleetOrigin ==
  ASSUME TypeOK, Next, NEW v \in Versions, rollout'[v].stage = "fleet"
  PROVE  /\ rollout'[v].canary = rollout[v].canary
         /\ \/ rollout[v].stage = "fleet"
            \/ /\ rollout[v].stage = "canary" /\ Verdict(v) = "fleet"
               /\ UNCHANGED <<canaries, committed, forced>>
<1> DEFINE Goal == /\ rollout'[v].canary = rollout[v].canary
                   /\ \/ rollout[v].stage = "fleet"
                      \/ /\ rollout[v].stage = "canary" /\ Verdict(v) = "fleet"
                         /\ UNCHANGED <<canaries, committed, forced>>
<1>1. ASSUME NEW w \in Versions, NEW doc,
             rollout' = [rollout EXCEPT ![w] = doc],
             \/ doc.stage # "fleet"
             \/ doc.stage = rollout[w].stage /\ doc.canary = rollout[w].canary
      PROVE  Goal
  BY <1>1 DEF TypeOK
<1>2. ASSUME UNCHANGED rollout
      PROVE  Goal
  BY <1>2
<1>3. CASE Request
  <2>1. ASSUME NEW w \in Versions, RollbackHead(w)
        PROVE  Goal
    <3> DEFINE doc == [rollout[w] EXCEPT
                         !.stage = "complete", !.canary = Machines,
                         !.fleet = {}, !.dispatched = "yes"]
    <3>1. rollout' = [rollout EXCEPT ![w] = doc]
      BY <2>1 DEF RollbackHead
    <3>2. doc.stage = "complete"
      <4>1. rollout[w] \in RolloutDoc
        BY DEF TypeOK
      <4> QED
        BY <4>1 DEF RolloutDoc
    <3> QED
      BY <1>1, <3>1, <3>2
  <2> QED
    BY <1>2, <1>3, <2>1 DEF Request, Publish, ResyncRead, DeployRead
<1>4. CASE FinishRequest
  <2>1. ASSUME NEW w \in resyncs, ResyncCommit(w)
        PROVE  Goal
    BY <2>1 DEF TypeOK, ResyncCommit, NoDoc
  <2>2. ASSUME NEW d \in deploys, DeployCommit(d)
        PROVE  Goal
    BY <2>2 DEF TypeOK, DeployCommit, StartWave, Waves
  <2>3. ASSUME NEW r \in rollbacks, NEW S \in SUBSET r.todo,
               RollbackBatch(r, S)
        PROVE  Goal
    BY <1>2, <2>3 DEF RollbackBatch
  <2> QED
    BY <1>4, <2>1, <2>2, <2>3 DEF FinishRequest
<1>5. CASE Schedule
  <2>1. PICK w \in Versions : WindowPasses(w) \/ SweepClaim(w)
    BY <1>5 DEF Schedule
  <2> DEFINE later == [rollout[w] EXCEPT
                         !.window = IF @ = "future" THEN "due" ELSE "late"]
             started == [rollout[w] EXCEPT !.stage = "canary"]
             expired == [rollout[w] EXCEPT !.stage = "aborted"]
  <2>2. /\ later.stage = rollout[w].stage /\ later.canary = rollout[w].canary
        /\ started.stage = "canary" /\ expired.stage = "aborted"
    <3>1. rollout[w] \in RolloutDoc
      BY DEF TypeOK
    <3> QED
      BY <3>1 DEF RolloutDoc
  <2>3. \/ rollout' = [rollout EXCEPT ![w] = later]
        \/ rollout' = [rollout EXCEPT ![w] = started]
        \/ rollout' = [rollout EXCEPT ![w] = expired]
    BY <2>1 DEF WindowPasses, SweepClaim, StartWave
  <2> HIDE DEF later, started, expired
  <2> QED
    BY <1>1, <2>2, <2>3
<1>6. CASE FanOut
  BY <1>2, <1>6 DEF TypeOK, FanOut, FanOutRead, FanOutCommit, StartWave, Waves
<1>7. ASSUME NEW m \in Machines, NEW w \in Versions, OnReport(m, w)
      PROVE  Goal
  <2>1. CASE ReportIgnored(m, w) \/ RetryDispatch(m, w)
    BY <1>2, <2>1 DEF ReportIgnored, RetryDispatch
  <2>2. CASE PromoteToFleet(m, w)
    <3> DEFINE promoted == [rollout[w] EXCEPT !.stage = "fleet",
                                              !.dispatched = "no"]
               finished == [rollout[w] EXCEPT !.stage = "complete",
                                              !.dispatched = "yes"]
    <3>1. /\ promoted.canary = rollout[w].canary
          /\ finished.stage = "complete"
      <4>1. rollout[w] \in RolloutDoc
        BY DEF TypeOK
      <4> QED
        BY <4>1 DEF RolloutDoc
    <3>2. /\ UNCHANGED <<canaries, committed, forced>>
          /\ rollout[w].stage = "canary" /\ Verdict(w) = "fleet"
      BY <2>2 DEF PromoteToFleet, TargetEvent
    <3>3. \/ rollout' = [rollout EXCEPT ![w] = promoted]
          \/ rollout' = [rollout EXCEPT ![w] = finished]
      BY <2>2 DEF PromoteToFleet
    <3> HIDE DEF promoted, finished
    <3>4. CASE rollout' = [rollout EXCEPT ![w] = promoted]
      <4>1. CASE v = w
        BY <3>1, <3>2, <3>4, <4>1 DEF TypeOK
      <4>2. CASE v # w
        BY <3>4, <4>2 DEF TypeOK
      <4> QED
        BY <4>1, <4>2
    <3> QED
      BY <1>1, <3>1, <3>3, <3>4
  <2>3. CASE Conclude(m, w)
    <3>1. Verdict(w) # "fleet"
      BY <2>3 DEF Conclude
    <3>2. [rollout[w] EXCEPT !.stage = Verdict(w)].stage = Verdict(w)
      BY DEF TypeOK, RolloutDoc
    <3>3. rollout' = [rollout EXCEPT ![w] =
                        [rollout[w] EXCEPT !.stage = Verdict(w)]]
      BY <2>3 DEF Conclude
    <3> QED
      BY <1>1, <3>1, <3>2, <3>3
  <2> QED
    BY <1>7, <2>1, <2>2, <2>3 DEF OnReport
<1>8. CASE (\E w \in Versions : Dispatch(w) \/ Settle(w)) \/ HandlerDies
  <2>1. ASSUME NEW p \in plans, DispatchSettles(p)
        PROVE  Goal
    BY <2>1 DEF TypeOK, DispatchSettles, MergeDispatched
  <2> QED
    BY <1>2, <1>8, <2>1 DEF Dispatch, Settle, DispatchBatch,
                            DispatchBatchFails, HandlerDies
<1>9. CASE \E m \in Machines : Agent(m)
  BY <1>2, <1>9 DEF Agent, SyncStarts, SyncEnds, AgentRestarts
<1> QED
  BY <1>3, <1>4, <1>5, <1>6, <1>7, <1>8, <1>9 DEF Next

(* Every step keeps EarnedPromotion.                                       *)
LEMMA EarnedStep ==
  ASSUME TypeOK, TruthfulReports, EarnedPromotion, Next
  PROVE  EarnedPromotion'
<1> SUFFICES ASSUME NEW v \in Versions, rollout'[v].stage = "fleet"
             PROVE  10 * Cardinality(rollout'[v].canary \cap committed'[v])
                      >= 9 * Cardinality(rollout'[v].canary)
  BY DEF EarnedPromotion
<1> DEFINE wave == rollout[v].canary
<1>1. rollout'[v].canary = wave
  BY FleetOrigin
<1>2. 10 * Cardinality(wave \cap committed[v]) >= 9 * Cardinality(wave)
  BY FleetOrigin, PromotionEvidence DEF EarnedPromotion
<1>3. IsFiniteSet(wave)
  BY FS_Subset, RolloutAssumption DEF TypeOK, RolloutDoc
<1>4. wave \cap committed[v] \subseteq wave \cap committed'[v]
  BY EvidenceGrows
<1>5. IsFiniteSet(wave \cap committed'[v])
  BY <1>3, FS_Subset
<1>6. /\ Cardinality(wave \cap committed[v])
           <= Cardinality(wave \cap committed'[v])
      /\ Cardinality(wave \cap committed[v]) \in Nat
      /\ Cardinality(wave \cap committed'[v]) \in Nat
      /\ Cardinality(wave) \in Nat
  BY <1>3, <1>4, <1>5, FS_Subset, FS_CardinalityType
<1> HIDE DEF wave
<1> QED
  BY <1>1, <1>2, <1>6

----------------------------------------------------------------------------
(* The blast radius.                                                       *)

(* Proven is stable, and a version that stops being exempt never starts to *)
(* be: forced only grows.                                                  *)
LEMMA ProvenStable ==
  ASSUME TypeOK, Next, NEW v \in Versions, Proven(v)
  PROVE  Proven(v)'
BY EvidenceGrows DEF Proven

(* A rollout in its fleet wave goes on having a canary that committed.     *)
LEMMA FleetProvenStep ==
  ASSUME TypeOK, TruthfulReports, CanariesNoted, FleetProven, Next
  PROVE  FleetProven'
<1> SUFFICES ASSUME NEW v \in Versions, v \notin forced',
                    rollout'[v].stage = "fleet"
             PROVE  Proven(v)'
  BY DEF FleetProven
<1>1. v \notin forced
  BY EvidenceGrows
<1>2. Proven(v)
  BY <1>1, FleetOrigin, PromotionEvidence
  DEF FleetProven, CanariesNoted, Proven
<1> QED
  BY <1>2, ProvenStable

(* A rollback under way is about a version that has been forced.           *)
LEMMA RollbacksForcedStep ==
  ASSUME TypeOK, RollbacksForced, Next
  PROVE  RollbacksForced'
<1>1. \A r \in rollbacks' : r.version \in forced'
  <2>1. CASE Request
    <3>1. ASSUME NEW v \in Versions, RollbackHead(v)
          PROVE  \A r \in rollbacks' : r.version \in forced'
      <4>1. /\ rollbacks' = rollbacks \cup
                              {[version |-> v, todo |-> Machines]}
            /\ forced' = forced \cup {v}
        BY <3>1 DEF RollbackHead
      <4> QED
        BY <4>1 DEF RollbacksForced
    <3> QED
      BY <2>1, <3>1 DEF RollbacksForced, Request, Publish, ResyncRead,
                        DeployRead
  <2>2. CASE FinishRequest
    BY <2>2 DEF TypeOK, RollbacksForced, FinishRequest, ResyncCommit,
                DeployCommit, StartWave, RollbackBatch
  <2>3. CASE Schedule \/ FanOut
    BY <2>3 DEF RollbacksForced, Schedule, FanOut, WindowPasses, SweepClaim,
                FanOutRead, FanOutCommit, StartWave
  <2>4. CASE \E m \in Machines, w \in Versions : OnReport(m, w)
    BY <2>4 DEF RollbacksForced, OnReport, ReportIgnored, RetryDispatch,
                PromoteToFleet, Conclude, TargetEvent
  <2>5. CASE (\E w \in Versions : Dispatch(w) \/ Settle(w)) \/ HandlerDies
    BY <2>5 DEF RollbacksForced, Dispatch, Settle, DispatchBatch,
                DispatchBatchFails, DispatchSettles, HandlerDies
  <2>6. CASE \E m \in Machines : Agent(m)
    BY <2>6 DEF RollbacksForced, Agent, SyncStarts, SyncEnds, AgentRestarts
  <2> QED
    BY <2>1, <2>2, <2>3, <2>4, <2>5, <2>6 DEF Next
<1> QED
  BY <1>1 DEF RollbacksForced

(* A dispatch starts from a fleet stage or from a promotion.               *)
LEMMA PlansProvenStep ==
  ASSUME TypeOK, TruthfulReports, Evidence, Next
  PROVE  PlansProven'
<1>1. ASSUME NEW v \in Versions, v \in forced \/ Proven(v)
      PROVE  v \in forced' \/ Proven(v)'
  BY <1>1, EvidenceGrows, ProvenStable
<1>2. ASSUME \A q \in plans' : \/ \E p \in plans : q.version = p.version
                               \/ /\ q.version \in Versions
                                  /\ \/ q.version \in forced
                                     \/ Proven(q.version)
      PROVE  PlansProven'
  BY <1>1, <1>2 DEF TypeOK, Evidence, PlansProven
<1>3. CASE Request
  BY <1>2, <1>3 DEF Request, Publish, RollbackHead, ResyncRead, DeployRead
<1>4. CASE FinishRequest
  BY <1>2, <1>4 DEF FinishRequest, ResyncCommit, DeployCommit, StartWave,
                    RollbackBatch
<1>5. CASE Schedule \/ FanOut
  BY <1>2, <1>5 DEF Schedule, FanOut, WindowPasses, SweepClaim, StartWave,
                    FanOutRead, FanOutCommit
<1>6. ASSUME NEW m \in Machines, NEW v \in Versions, OnReport(m, v)
      PROVE  PlansProven'
  <2>1. Plan(v).version = v
    BY DEF Plan
  <2>2. CASE ReportIgnored(m, v) \/ Conclude(m, v)
    BY <1>2, <2>2 DEF ReportIgnored, Conclude
  <2>3. CASE RetryDispatch(m, v)
    <3>1. v \in forced \/ Proven(v)
      BY <2>3 DEF RetryDispatch, MustRetry, Evidence, FleetProven
    <3> QED
      BY <1>2, <2>1, <2>3, <3>1 DEF RetryDispatch
  <2>4. CASE PromoteToFleet(m, v)
    <3>1. v \in forced \/ Proven(v)
      BY <2>4, PromotionEvidence
      DEF PromoteToFleet, Evidence, CanariesNoted, Proven
    <3>2. plans' \subseteq plans \cup {Plan(v)}
      BY <2>4 DEF PromoteToFleet
    <3> QED
      BY <1>2, <2>1, <3>1, <3>2
  <2> QED
    BY <1>6, <2>2, <2>3, <2>4 DEF OnReport
<1>7. CASE (\E w \in Versions : Dispatch(w) \/ Settle(w)) \/ HandlerDies
  BY <1>2, <1>7 DEF TypeOK, Dispatch, Settle, DispatchBatch,
                    DispatchBatchFails, DispatchSettles, HandlerDies
<1>8. CASE \E m \in Machines : Agent(m)
  BY <1>2, <1>8 DEF Agent, SyncStarts, SyncEnds, AgentRestarts
<1> QED
  BY <1>3, <1>4, <1>5, <1>6, <1>7, <1>8 DEF Next

(* Whoever starts a canary wave notes its machines.                        *)
LEMMA CanariesNotedStep ==
  ASSUME TypeOK, CanariesNoted, Next
  PROVE  CanariesNoted'
<1> DEFINE Noted(v) == rollout[v].canary \subseteq canaries[v]
<1> SUFFICES ASSUME NEW v \in Versions, v \notin forced',
                    rollout'[v].stage = "canary"
             PROVE  rollout'[v].canary \subseteq canaries'[v]
  BY DEF CanariesNoted
<1>1. v \notin forced
  BY EvidenceGrows
<1>2. ASSUME rollout[v].stage = "canary",
             rollout'[v].canary = rollout[v].canary
      PROVE  rollout'[v].canary \subseteq canaries'[v]
  BY <1>1, <1>2, EvidenceGrows DEF CanariesNoted
<1>3. ASSUME NEW w \in Versions, NEW doc,
             rollout' = [rollout EXCEPT ![w] = doc],
             \/ doc.stage # "canary"
             \/ doc.stage = rollout[w].stage /\ doc.canary = rollout[w].canary
      PROVE  rollout'[v].canary \subseteq canaries'[v]
  BY <1>2, <1>3 DEF TypeOK
<1>4. ASSUME NEW w \in Versions, NEW doc, StartWave(w, doc)
      PROVE  rollout'[v].canary \subseteq canaries'[v]
  <2>1. CASE w = v
    BY <1>4, <2>1 DEF TypeOK, StartWave
  <2>2. CASE w # v
    <3>1. rollout'[v] = rollout[v]
      BY <1>4, <2>2 DEF TypeOK, StartWave
    <3> QED
      BY <1>2, <3>1
  <2> QED
    BY <2>1, <2>2
<1>5. CASE Request
  <2>1. ASSUME NEW w \in Versions, RollbackHead(w)
        PROVE  rollout'[v].canary \subseteq canaries'[v]
    <3> DEFINE doc == [rollout[w] EXCEPT
                         !.stage = "complete", !.canary = Machines,
                         !.fleet = {}, !.dispatched = "yes"]
    <3>1. rollout' = [rollout EXCEPT ![w] = doc]
      BY <2>1 DEF RollbackHead
    <3>2. doc.stage = "complete"
      <4>1. rollout[w] \in RolloutDoc
        BY DEF TypeOK
      <4> QED
        BY <4>1 DEF RolloutDoc
    <3> HIDE DEF doc
    <3> QED
      BY <1>3, <3>1, <3>2
  <2> QED
    BY <1>2, <1>5, <2>1 DEF Request, Publish, ResyncRead, DeployRead
<1>6. CASE FinishRequest
  <2>1. ASSUME NEW w \in resyncs, ResyncCommit(w)
        PROVE  rollout'[v].canary \subseteq canaries'[v]
    BY <1>3, <2>1 DEF TypeOK, ResyncCommit, NoDoc
  <2>2. ASSUME NEW d \in deploys, DeployCommit(d)
        PROVE  rollout'[v].canary \subseteq canaries'[v]
    BY <1>3, <1>4, <2>2 DEF TypeOK, DeployCommit, Waves
  <2>3. ASSUME NEW r \in rollbacks, NEW S \in SUBSET r.todo,
               RollbackBatch(r, S)
        PROVE  rollout'[v].canary \subseteq canaries'[v]
    BY <1>2, <2>3 DEF RollbackBatch
  <2> QED
    BY <1>6, <2>1, <2>2, <2>3 DEF FinishRequest
<1>7. CASE Schedule
  <2>1. PICK w \in Versions : WindowPasses(w) \/ SweepClaim(w)
    BY <1>7 DEF Schedule
  <2> DEFINE later == [rollout[w] EXCEPT
                         !.window = IF @ = "future" THEN "due" ELSE "late"]
             started == [rollout[w] EXCEPT !.stage = "canary"]
             expired == [rollout[w] EXCEPT !.stage = "aborted"]
  <2>2. /\ later.stage = rollout[w].stage /\ later.canary = rollout[w].canary
        /\ expired.stage = "aborted"
    <3>1. rollout[w] \in RolloutDoc
      BY DEF TypeOK
    <3> QED
      BY <3>1 DEF RolloutDoc
  <2>3. \/ rollout' = [rollout EXCEPT ![w] = later]
        \/ StartWave(w, started)
        \/ rollout' = [rollout EXCEPT ![w] = expired]
    BY <2>1 DEF WindowPasses, SweepClaim
  <2> HIDE DEF later, started, expired
  <2> QED
    BY <1>3, <1>4, <2>2, <2>3
<1>8. CASE FanOut
  BY <1>2, <1>4, <1>8 DEF FanOut, FanOutRead, FanOutCommit
<1>9. ASSUME NEW m \in Machines, NEW w \in Versions, OnReport(m, w)
      PROVE  rollout'[v].canary \subseteq canaries'[v]
  <2>1. CASE ReportIgnored(m, w) \/ RetryDispatch(m, w)
    BY <1>2, <2>1 DEF ReportIgnored, RetryDispatch
  <2>2. CASE PromoteToFleet(m, w)
    <3> DEFINE promoted == [rollout[w] EXCEPT !.stage = "fleet",
                                              !.dispatched = "no"]
               finished == [rollout[w] EXCEPT !.stage = "complete",
                                              !.dispatched = "yes"]
    <3>1. promoted.stage = "fleet" /\ finished.stage = "complete"
      <4>1. rollout[w] \in RolloutDoc
        BY DEF TypeOK
      <4> QED
        BY <4>1 DEF RolloutDoc
    <3>2. \/ rollout' = [rollout EXCEPT ![w] = promoted]
          \/ rollout' = [rollout EXCEPT ![w] = finished]
      BY <2>2 DEF PromoteToFleet
    <3> HIDE DEF promoted, finished
    <3> QED
      BY <1>3, <3>1, <3>2
  <2>3. CASE Conclude(m, w)
    <3>1. [rollout[w] EXCEPT !.stage = Verdict(w)].stage = Verdict(w)
      BY DEF TypeOK, RolloutDoc
    <3>2. rollout' = [rollout EXCEPT ![w] =
                        [rollout[w] EXCEPT !.stage = Verdict(w)]]
      BY <2>3 DEF Conclude
    <3> QED
      BY <1>3, <2>3, <3>1, <3>2 DEF Conclude
  <2> QED
    BY <1>9, <2>1, <2>2, <2>3 DEF OnReport
<1>10. CASE (\E w \in Versions : Dispatch(w) \/ Settle(w)) \/ HandlerDies
  <2>1. ASSUME NEW p \in plans, DispatchSettles(p)
        PROVE  rollout'[v].canary \subseteq canaries'[v]
    <3> DEFINE doc == MergeDispatched(rollout[p.version],
                                      IF p.failed THEN "no" ELSE "yes")
    <3>1. p.version \in Versions /\ rollout[p.version] \in RolloutDoc
      BY DEF TypeOK
    <3>2. \/ doc.stage # "canary"
          \/ /\ doc.stage = rollout[p.version].stage
             /\ doc.canary = rollout[p.version].canary
      BY <3>1 DEF MergeDispatched, NoDoc, RolloutDoc
    <3>3. rollout' = [rollout EXCEPT ![p.version] = doc]
      BY <2>1 DEF DispatchSettles
    <3> HIDE DEF doc
    <3> QED
      BY <1>3, <3>1, <3>2, <3>3
  <2> QED
    BY <1>2, <1>10, <2>1 DEF Dispatch, Settle, DispatchBatch,
                             DispatchBatchFails, HandlerDies
<1>11. CASE \E m \in Machines : Agent(m)
  BY <1>2, <1>11 DEF Agent, SyncStarts, SyncEnds, AgentRestarts
<1> QED
  BY <1>5, <1>6, <1>7, <1>8, <1>9, <1>10, <1>11 DEF Next

(* Four steps queue commands: a wave start reaches canaries only, a        *)
(* rollback and a resync are exempt, and a dispatch has evidence.          *)
LEMMA BlastRadiusStep ==
  ASSUME TypeOK, Evidence, BlastRadius, Next
  PROVE  BlastRadius'
<1> SUFFICES ASSUME NEW v \in Versions, v \notin forced'
             PROVE  \/ queued'[v] \subseteq canaries'[v]
                    \/ Proven(v)'
  BY DEF BlastRadius, Proven
<1>1. v \notin forced
  BY EvidenceGrows
<1>2. CASE Proven(v)
  BY <1>2, ProvenStable
<1>3. ASSUME ~Proven(v), queued'[v] = queued[v]
      PROVE  queued'[v] \subseteq canaries'[v]
  BY <1>1, <1>3, EvidenceGrows DEF BlastRadius, Proven
<1>4. ASSUME ~Proven(v), NEW w \in Versions, NEW doc, StartWave(w, doc)
      PROVE  queued'[v] \subseteq canaries'[v]
  BY <1>1, <1>4 DEF TypeOK, StartWave, NoteQueued, BlastRadius, Proven
<1>5. CASE ~Proven(v) /\ Request
  BY <1>3, <1>5 DEF Request, Publish, RollbackHead, ResyncRead, DeployRead
<1>6. CASE ~Proven(v) /\ FinishRequest
  <2>1. ASSUME NEW w \in resyncs, ResyncCommit(w)
        PROVE  queued'[v] \subseteq canaries'[v]
    <3>1. w # v
      BY <2>1 DEF ResyncCommit
    <3> QED
      BY <1>3, <1>6, <2>1, <3>1 DEF TypeOK, ResyncCommit, NoteQueued
  <2>2. ASSUME NEW d \in deploys, DeployCommit(d)
        PROVE  queued'[v] \subseteq canaries'[v]
    BY <1>3, <1>4, <1>6, <2>2 DEF TypeOK, DeployCommit
  <2>3. ASSUME NEW r \in rollbacks, NEW S \in SUBSET r.todo,
               RollbackBatch(r, S)
        PROVE  queued'[v] \subseteq canaries'[v]
    <3>1. r.version # v
      BY <1>1 DEF Evidence, RollbacksForced
    <3> QED
      BY <1>3, <1>6, <2>3, <3>1 DEF TypeOK, RollbackBatch, NoteQueued
  <2> QED
    BY <1>6, <2>1, <2>2, <2>3 DEF FinishRequest
<1>7. CASE ~Proven(v) /\ (Schedule \/ FanOut)
  BY <1>3, <1>4, <1>7 DEF Schedule, WindowPasses, SweepClaim, FanOut,
                          FanOutRead, FanOutCommit
<1>8. CASE ~Proven(v) /\ \E m \in Machines, w \in Versions : OnReport(m, w)
  BY <1>3, <1>8 DEF OnReport, ReportIgnored, RetryDispatch, PromoteToFleet,
                    Conclude, TargetEvent
<1>9. CASE ~Proven(v) /\ \/ \E w \in Versions : Dispatch(w) \/ Settle(w)
                         \/ HandlerDies
  <2>1. ASSUME NEW p \in plans, NEW S \in SUBSET p.todo, DispatchBatch(p, S)
        PROVE  queued'[v] \subseteq canaries'[v]
    <3>1. p.version # v
      BY <1>1, <1>9 DEF Evidence, PlansProven
    <3> QED
      BY <1>3, <1>9, <2>1, <3>1 DEF TypeOK, DispatchBatch, NoteQueued
  <2> QED
    BY <1>3, <1>9, <2>1 DEF Dispatch, Settle, DispatchBatchFails,
                            DispatchSettles, HandlerDies
<1>10. CASE ~Proven(v) /\ \E m \in Machines : Agent(m)
  BY <1>3, <1>10 DEF Agent, SyncStarts, SyncEnds, AgentRestarts
<1> QED
  BY <1>2, <1>5, <1>6, <1>7, <1>8, <1>9, <1>10 DEF Next

(* The inductive invariant holds at the start.                             *)
LEMMA IInvInit == Init => IInv
<1> SUFFICES ASSUME Init PROVE IInv
  OBVIOUS
<1>1. TypeOK /\ TruthfulReports
  BY TypeInit, TruthInit
<1>2. Evidence /\ BlastRadius /\ EarnedPromotion
  BY DEF Init, NoDoc, Evidence, CanariesNoted, FleetProven, PlansProven,
         RollbacksForced, BlastRadius, EarnedPromotion
<1> QED
  BY <1>1, <1>2 DEF IInv

(* Every step keeps the inductive invariant.                               *)
LEMMA IInvStep == IInv /\ [Next]_vars => IInv'
<1> SUFFICES ASSUME IInv, [Next]_vars PROVE IInv'
  OBVIOUS
<1>1. CASE UNCHANGED vars
  BY <1>1
  DEF IInv, TypeOK, TruthfulReports, Evidence, CanariesNoted, FleetProven,
      PlansProven, RollbacksForced, BlastRadius, EarnedPromotion, Proven
<1>2. CASE Next
  <2>1. TypeOK' /\ TruthfulReports'
    BY <1>2, TypeStep, TruthStep DEF IInv
  <2>2. Evidence'
    BY <1>2, CanariesNotedStep, FleetProvenStep, PlansProvenStep,
       RollbacksForcedStep
    DEF IInv, Evidence
  <2>3. BlastRadius' /\ EarnedPromotion'
    BY <1>2, BlastRadiusStep, EarnedStep DEF IInv
  <2> QED
    BY <2>1, <2>2, <2>3 DEF IInv
<1> QED
  BY <1>1, <1>2

(* The blast radius of a version is bounded, for any fleet: no machine     *)
(* outside of its canary waves is sent a version that no canary machine    *)
(* has committed, unless an operator rolls back to it or resyncs it.       *)
THEOREM BlastRadiusBounded == Spec => []BlastRadius
<1>1. IInv => BlastRadius
  BY DEF IInv
<1> QED
  BY <1>1, IInvInit, IInvStep, PTL DEF Spec

(* A rollout in its fleet wave has earned it: nine tenths of its canaries  *)
(* have committed the version, whatever size the canary wave has.          *)
THEOREM PromotionEarned == Spec => []EarnedPromotion
<1>1. IInv => EarnedPromotion
  BY DEF IInv
<1> QED
  BY <1>1, IInvInit, IInvStep, PTL DEF Spec

----------------------------------------------------------------------------
(* The staged release.  Two more facts about every state are needed: the   *)
(* two waves of a document share no machine, and nobody has a command for  *)
(* a version, pending or running, that was not sent to it.                 *)
WavesApart == \A v \in Versions : rollout[v].canary \cap rollout[v].fleet = {}

CommandsSent ==
  \A m \in Machines :
    /\ \A c \in pending[m] : m \in queued[c.version]
    /\ running[m] # NoCommand => m \in queued[running[m].version]

(* A step writes at most one rollout document, and what it writes is one   *)
(* of these: a first wave that starts; one that waits for its time; an     *)
(* abort; a rollout that a rollback or a resync closes; what the verdict   *)
(* on the current wave has called; the old waves with another flag.        *)
Quiet == UNCHANGED <<queued, canaries, committed, forced>>

SameWaves(w, doc) ==
  doc.canary = rollout[w].canary /\ doc.fleet = rollout[w].fleet

Splits(doc) ==
  /\ doc.canary \cap doc.fleet = {}
  /\ \/ doc.canary \cup doc.fleet = Machines
     \/ \E d \in deploys : doc.canary \cup doc.fleet = d.machines

Opens(w, doc) ==
  /\ doc.stage = "canary"
  /\ \/ Splits(doc)
     \/ rollout[w].stage = "scheduled" /\ SameWaves(w, doc)
  /\ StartWave(w, doc)

Waits(w, doc) == doc.stage = "scheduled" /\ Splits(doc) /\ Quiet

Aborts(w, doc) == doc.stage = "aborted" /\ SameWaves(w, doc) /\ Quiet

Forces(w, doc) ==
  /\ doc.stage \in {"absent", "complete"} /\ doc.fleet = {}
  /\ \E S \in SUBSET Machines : queued' = [queued EXCEPT ![w] = @ \cup S]
  /\ forced' = forced \cup {w}
  /\ UNCHANGED <<canaries, committed>>

Advances(w, doc) ==
  /\ \/ /\ doc.stage = "fleet" /\ doc.dispatched = "no"
        /\ rollout[w].stage = "canary" /\ Verdict(w) = "fleet"
     \/ /\ doc.stage = "complete" /\ doc.fleet = {}
        /\ rollout[w].stage = "canary" /\ Verdict(w) = "fleet"
     \/ /\ doc.stage = "complete"
        /\ rollout[w].stage = "fleet" /\ Verdict(w) = "complete"
  /\ SameWaves(w, doc)
  /\ Quiet

Touches(w, doc) ==
  /\ \/ doc.stage = rollout[w].stage /\ SameWaves(w, doc)
     \/ doc.stage = "unset" /\ rollout[w].stage = "absent" /\ doc.fleet = {}
  /\ doc.dispatched = "yes" /\ rollout[w].dispatched # "yes"
       => \E p \in plans : p.version = w /\ p.todo = {}
  /\ Quiet

Moves(w, doc) ==
  /\ rollout' = [rollout EXCEPT ![w] = doc]
  /\ \/ Opens(w, doc) \/ Waits(w, doc) \/ Aborts(w, doc)
     \/ Forces(w, doc) \/ Advances(w, doc) \/ Touches(w, doc)

(* A step that writes none sends commands, ends a sync, or is of no        *)
(* consequence here.                                                       *)
Sends ==
  /\ \E w \in Versions, S \in SUBSET Machines :
       /\ w \in forced \/ Proven(w)
       /\ queued' = [queued EXCEPT ![w] = @ \cup S]
  /\ UNCHANGED <<rollout, canaries, committed, forced>>

Installs ==
  /\ \E m \in Machines :
       /\ running[m] # NoCommand
       /\ committed' = [committed EXCEPT ![running[m].version] = @ \cup {m}]
  /\ UNCHANGED <<rollout, queued, canaries, forced>>

Consequence ==
  \/ \E w \in Versions : \E doc \in RolloutDoc : Moves(w, doc)
  \/ Sends \/ Installs
  \/ rollout' = rollout /\ Quiet

(* What requests and their completion do to a rollout.                     *)
LEMMA RequestMoves ==
  ASSUME TypeOK, Evidence, Request \/ FinishRequest
  PROVE  Consequence
<1>1. CASE Request
  <2>1. ASSUME NEW w \in Versions, RollbackHead(w)
        PROVE  Consequence
    <3> DEFINE doc == [rollout[w] EXCEPT
                         !.stage = "complete", !.canary = Machines,
                         !.fleet = {}, !.dispatched = "yes"]
    <3>1. rollout' = [rollout EXCEPT ![w] = doc]
      BY <2>1 DEF RollbackHead
    <3>2. doc \in RolloutDoc /\ doc.stage = "complete" /\ doc.fleet = {}
      <4>1. rollout[w] \in RolloutDoc
        BY DEF TypeOK
      <4> QED
        BY <4>1 DEF RolloutDoc, Stages
    <3> HIDE DEF doc
    <3>3. /\ queued' = [queued EXCEPT ![w] = @ \cup {}]
          /\ forced' = forced \cup {w}
          /\ UNCHANGED <<canaries, committed>>
      BY <2>1 DEF RollbackHead, TypeOK
    <3>4. Forces(w, doc)
      BY <3>2, <3>3 DEF Forces
    <3> QED
      BY <3>1, <3>2, <3>4 DEF Moves, Consequence
  <2> QED
    BY <1>1, <2>1
    DEF Request, Publish, ResyncRead, DeployRead, Quiet, Consequence
<1>2. ASSUME NEW w \in resyncs, ResyncCommit(w)
      PROVE  Consequence
  <2>1. w \in Versions
    BY DEF TypeOK
  <2>2. NoDoc \in RolloutDoc /\ NoDoc.stage = "absent" /\ NoDoc.fleet = {}
    BY DEF NoDoc, RolloutDoc
  <2>3. Forces(w, NoDoc)
    BY <1>2, <2>2 DEF Forces, ResyncCommit, NoteQueued
  <2>4. rollout' = [rollout EXCEPT ![w] = NoDoc]
    BY <1>2 DEF ResyncCommit
  <2> QED
    BY <2>1, <2>2, <2>3, <2>4 DEF Moves, Consequence
<1>3. ASSUME NEW d \in deploys, DeployCommit(d)
      PROVE  Consequence
  <2>1. d.version \in Versions /\ d.machines \in SUBSET Machines
    BY DEF TypeOK
  <2>2. CASE d.scheduled
    <3> DEFINE doc == Waves("scheduled", d.machines, NameRank)
    <3>1. /\ doc \in RolloutDoc /\ doc.stage = "scheduled"
          /\ doc.canary \cup doc.fleet = d.machines
          /\ doc.canary \cap doc.fleet = {}
      BY <2>1, WavesSplit
    <3>2. rollout' = [rollout EXCEPT ![d.version] = doc] /\ Quiet
      BY <1>3, <2>2 DEF DeployCommit, Quiet
    <3> HIDE DEF doc
    <3>3. Waits(d.version, doc)
      BY <3>1, <3>2 DEF Waits, Splits
    <3> QED
      BY <2>1, <3>1, <3>2, <3>3 DEF Moves, Consequence
  <2>3. CASE ~d.scheduled
    <3> DEFINE doc == Waves("canary", d.machines, NameRank)
    <3>1. /\ doc \in RolloutDoc /\ doc.stage = "canary"
          /\ doc.canary \cup doc.fleet = d.machines
          /\ doc.canary \cap doc.fleet = {}
      BY <2>1, WavesSplit
    <3>2. StartWave(d.version, doc)
      BY <1>3, <2>3 DEF DeployCommit
    <3> HIDE DEF doc
    <3>3. Opens(d.version, doc)
      <4>1. Splits(doc)
        BY <3>1 DEF Splits
      <4> QED
        BY <3>1, <3>2, <4>1 DEF Opens
    <3> QED
      BY <2>1, <3>1, <3>2, <3>3 DEF Moves, StartWave, Consequence
  <2> QED
    BY <2>2, <2>3
<1>4. ASSUME NEW r \in rollbacks, NEW S \in SUBSET r.todo,
             RollbackBatch(r, S)
      PROVE  Consequence
  <2>1. r.version \in Versions /\ S \in SUBSET Machines
    BY DEF TypeOK
  <2>2. r.version \in forced
    BY DEF Evidence, RollbacksForced
  <2> QED
    BY <1>4, <2>1, <2>2 DEF RollbackBatch, NoteQueued, Sends, Consequence
<1> QED
  BY <1>1, <1>2, <1>3, <1>4 DEF FinishRequest

(* What the scheduler and the fan-out of a new head do to a rollout.       *)
LEMMA ScheduleMoves ==
  ASSUME TypeOK, Schedule \/ FanOut
  PROVE  Consequence
<1>1. ASSUME NEW w \in Versions, WindowPasses(w)
      PROVE  Consequence
  <2> DEFINE doc == [rollout[w] EXCEPT
                       !.window = IF @ = "future" THEN "due" ELSE "late"]
  <2>1. /\ doc \in RolloutDoc /\ doc.stage = rollout[w].stage
        /\ doc.dispatched = rollout[w].dispatched /\ SameWaves(w, doc)
    <3>1. rollout[w] \in RolloutDoc
      BY DEF TypeOK
    <3> QED
      BY <3>1 DEF RolloutDoc, SameWaves
  <2>2. rollout' = [rollout EXCEPT ![w] = doc] /\ Quiet
    BY <1>1 DEF WindowPasses, Quiet
  <2> HIDE DEF doc
  <2>3. Touches(w, doc)
    BY <2>1, <2>2 DEF Touches
  <2> QED
    BY <2>1, <2>2, <2>3 DEF Moves, Consequence
<1>2. ASSUME NEW w \in Versions, SweepClaim(w)
      PROVE  Consequence
  <2> DEFINE started == [rollout[w] EXCEPT !.stage = "canary"]
             expired == [rollout[w] EXCEPT !.stage = "aborted"]
  <2>1. /\ started \in RolloutDoc /\ started.stage = "canary"
        /\ SameWaves(w, started)
        /\ expired \in RolloutDoc /\ expired.stage = "aborted"
        /\ SameWaves(w, expired)
    <3>1. rollout[w] \in RolloutDoc
      BY DEF TypeOK
    <3> QED
      BY <3>1 DEF RolloutDoc, Stages, SameWaves
  <2>2. /\ rollout[w].stage = "scheduled"
        /\ \/ StartWave(w, started)
           \/ rollout' = [rollout EXCEPT ![w] = expired] /\ Quiet
    BY <1>2 DEF SweepClaim, Quiet
  <2> HIDE DEF started, expired
  <2>3. CASE StartWave(w, started)
    <3>1. Opens(w, started)
      BY <2>1, <2>2, <2>3 DEF Opens
    <3> QED
      BY <2>1, <2>3, <3>1 DEF Moves, StartWave, Consequence
  <2>4. CASE rollout' = [rollout EXCEPT ![w] = expired] /\ Quiet
    <3>1. Aborts(w, expired)
      BY <2>1, <2>4 DEF Aborts
    <3> QED
      BY <2>1, <2>4, <3>1 DEF Moves, Consequence
  <2> QED
    BY <2>2, <2>3, <2>4
<1>3. ASSUME NEW w \in Versions, FanOutRead(w)
      PROVE  Consequence
  BY <1>3 DEF FanOutRead, Quiet, Consequence
<1>4. ASSUME NEW w \in Versions, FanOutCommit(w)
      PROVE  Consequence
  <2> DEFINE doc == Waves("canary", Machines, HashRank[w])
  <2>1. /\ doc \in RolloutDoc /\ doc.stage = "canary"
        /\ doc.canary \cup doc.fleet = Machines
        /\ doc.canary \cap doc.fleet = {}
    BY WavesSplit
  <2>2. StartWave(w, doc)
    BY <1>4 DEF FanOutCommit
  <2> HIDE DEF doc
  <2>3. Opens(w, doc)
    <3>1. Splits(doc)
      BY <2>1 DEF Splits
    <3> QED
      BY <2>1, <2>2, <3>1 DEF Opens
  <2> QED
    BY <2>1, <2>2, <2>3 DEF Moves, StartWave, Consequence
<1> QED
  BY <1>1, <1>2, <1>3, <1>4 DEF Schedule, FanOut

(* What a report does to a rollout.                                        *)
LEMMA ReportMoves ==
  ASSUME TypeOK, NEW m \in Machines, NEW w \in Versions, OnReport(m, w)
  PROVE  Consequence
<1>1. Quiet
  BY DEF OnReport, ReportIgnored, RetryDispatch, PromoteToFleet, Conclude,
         TargetEvent, Quiet
<1>2. rollout[w] \in RolloutDoc
  BY DEF TypeOK
<1>3. CASE ReportIgnored(m, w) \/ RetryDispatch(m, w)
  BY <1>1, <1>3 DEF ReportIgnored, RetryDispatch, Consequence
<1>4. CASE PromoteToFleet(m, w)
  <2> DEFINE promoted == [rollout[w] EXCEPT !.stage = "fleet",
                                            !.dispatched = "no"]
             finished == [rollout[w] EXCEPT !.stage = "complete",
                                            !.dispatched = "yes"]
  <2>1. /\ promoted \in RolloutDoc /\ finished \in RolloutDoc
        /\ promoted.stage = "fleet" /\ promoted.dispatched = "no"
        /\ finished.stage = "complete" /\ finished.fleet = rollout[w].fleet
        /\ SameWaves(w, promoted) /\ SameWaves(w, finished)
    BY <1>2 DEF RolloutDoc, Stages, SameWaves
  <2>2. /\ rollout[w].stage = "canary" /\ Verdict(w) = "fleet"
        /\ \/ rollout' = [rollout EXCEPT ![w] = promoted]
           \/ /\ rollout' = [rollout EXCEPT ![w] = finished]
              /\ rollout[w].fleet = {}
    BY <1>4 DEF PromoteToFleet
  <2> HIDE DEF promoted, finished
  <2>3. /\ Advances(w, promoted)
        /\ rollout[w].fleet = {} => Advances(w, finished)
    BY <1>1, <2>1, <2>2 DEF Advances
  <2> QED
    BY <2>1, <2>2, <2>3 DEF Moves, Consequence
<1>5. CASE Conclude(m, w)
  <2> DEFINE doc == [rollout[w] EXCEPT !.stage = Verdict(w)]
  <2>1. /\ rollout' = [rollout EXCEPT ![w] = doc]
        /\ Verdict(w) # rollout[w].stage
        /\ Verdict(w) \in {"aborted", "complete"}
    BY <1>5 DEF Conclude
  <2>2. doc \in RolloutDoc /\ doc.stage = Verdict(w) /\ SameWaves(w, doc)
    BY <1>2, <2>1 DEF RolloutDoc, Stages, SameWaves
  <2>3. Verdict(w) = "complete" => rollout[w].stage = "fleet"
    BY <2>1 DEF Verdict, NextStage, Terminal
  <2> HIDE DEF doc
  <2>4. Aborts(w, doc) \/ Advances(w, doc)
    BY <1>1, <2>1, <2>2, <2>3 DEF Aborts, Advances
  <2> QED
    BY <2>1, <2>2, <2>4 DEF Moves, Consequence
<1> QED
  BY <1>3, <1>4, <1>5 DEF OnReport

(* What a dispatch, a dying handler or an agent does to a rollout.         *)
LEMMA DispatchMoves ==
  ASSUME TypeOK, Evidence,
         \/ \E v \in Versions : Dispatch(v) \/ Settle(v)
         \/ HandlerDies
         \/ \E m \in Machines : Agent(m)
  PROVE  Consequence
<1>1. ASSUME NEW p \in plans, NEW S \in SUBSET p.todo, DispatchBatch(p, S)
      PROVE  Consequence
  <2>1. p.version \in Versions /\ S \in SUBSET Machines
    BY DEF TypeOK
  <2>2. p.version \in forced \/ Proven(p.version)
    BY DEF Evidence, PlansProven
  <2> QED
    BY <1>1, <2>1, <2>2 DEF DispatchBatch, NoteQueued, Sends, Consequence
<1>2. ASSUME NEW p \in plans, DispatchBatchFails(p)
      PROVE  Consequence
  BY <1>2 DEF DispatchBatchFails, Quiet, Consequence
<1>3. ASSUME NEW p \in plans, DispatchSettles(p)
      PROVE  Consequence
  <2> DEFINE w == p.version
             flag == IF p.failed THEN "no" ELSE "yes"
             doc == MergeDispatched(rollout[w], flag)
  <2>1. w \in Versions /\ rollout[w] \in RolloutDoc
    BY DEF TypeOK
  <2>2. doc \in RolloutDoc
    BY <2>1, MergeType
  <2>3. doc.dispatched = "yes" => p.todo = {}
    BY <1>3, <2>1 DEF MergeDispatched, RolloutDoc, NoDoc, DispatchSettles
  <2>4. \/ doc.stage = rollout[w].stage /\ SameWaves(w, doc)
        \/ doc.stage = "unset" /\ rollout[w].stage = "absent"
             /\ doc.fleet = {}
    BY <2>1 DEF MergeDispatched, RolloutDoc, NoDoc, SameWaves
  <2>5. rollout' = [rollout EXCEPT ![w] = doc] /\ Quiet
    BY <1>3 DEF DispatchSettles, Quiet
  <2> HIDE DEF doc
  <2>6. Touches(w, doc)
    BY <2>3, <2>4, <2>5 DEF Touches
  <2> QED
    BY <2>1, <2>2, <2>5, <2>6 DEF Moves, Consequence
<1>4. CASE HandlerDies
  BY <1>4 DEF HandlerDies, Quiet, Consequence
<1>5. ASSUME NEW m \in Machines, Agent(m)
      PROVE  Consequence
  BY <1>5 DEF Agent, SyncStarts, SyncEnds, AgentRestarts, Quiet, Installs,
              Consequence
<1> QED
  BY <1>1, <1>2, <1>3, <1>4, <1>5 DEF Dispatch, Settle

(* Every step has one of these consequences for the rollouts.              *)
LEMMA StepMoves ==
  ASSUME TypeOK, Evidence, Next
  PROVE  Consequence
BY RequestMoves, ScheduleMoves, ReportMoves, DispatchMoves DEF Next

(* A command that was sent was sent for good.                              *)
LEMMA SentGrows ==
  ASSUME TypeOK, Evidence, Next, NEW v \in Versions
  PROVE  queued[v] \subseteq queued'[v]
<1>1. ASSUME NEW w \in Versions, NEW doc \in RolloutDoc, Moves(w, doc)
      PROVE  queued[v] \subseteq queued'[v]
  BY <1>1 DEF TypeOK, Moves, Opens, StartWave, NoteQueued, Waits, Aborts,
              Forces, Advances, Touches, Quiet
<1>2. CASE Sends
  BY <1>2 DEF TypeOK, Sends
<1> QED
  BY <1>1, <1>2, StepMoves DEF Consequence, Installs, Quiet

(* Every step keeps the waves of a document apart.                         *)
LEMMA WavesApartStep ==
  ASSUME TypeOK, Evidence, WavesApart, Next
  PROVE  WavesApart'
<1>1. ASSUME NEW w \in Versions, NEW doc \in RolloutDoc, Moves(w, doc)
      PROVE  WavesApart'
  <2>1. doc.canary \cap doc.fleet = {}
    BY <1>1 DEF WavesApart, Moves, Opens, Splits, SameWaves, Waits, Aborts,
                Forces, Advances, Touches
  <2> QED
    BY <1>1, <2>1 DEF TypeOK, WavesApart, Moves
<1> QED
  BY <1>1, StepMoves DEF Consequence, Sends, Installs, WavesApart

(* Every step keeps CommandsSent: who queues a command notes it.           *)
LEMMA CommandsSentStep ==
  ASSUME TypeOK, Evidence, CommandsSent, Next
  PROVE  CommandsSent'
<1>1. \A v \in Versions : queued[v] \subseteq queued'[v]
  BY SentGrows
<1>2. ASSUME NEW m \in Machines, running[m] # NoCommand
      PROVE  m \in queued'[running[m].version]
  BY <1>1, <1>2 DEF TypeOK, Commands, CommandsSent
<1>3. ASSUME NEW m \in Machines, NEW c \in pending[m]
      PROVE  m \in queued'[c.version]
  BY <1>1, <1>3 DEF TypeOK, Commands, CommandsSent
<1>4. ASSUME NEW ms \in SUBSET Machines, NEW c \in Commands,
             NoteQueued(ms, c.version), UNCHANGED running,
             \A m \in Machines :
               pending'[m] \subseteq pending[m] \cup
                                       (IF m \in ms THEN {c} ELSE {})
      PROVE  CommandsSent'
  <2>1. c.version \in Versions
    BY DEF Commands
  <2>2. ms \subseteq queued'[c.version]
    BY <1>4, <2>1 DEF TypeOK, NoteQueued
  <2> QED
    BY <1>2, <1>3, <1>4, <2>2 DEF CommandsSent
<1>5. ASSUME NEW w \in Versions, NEW doc \in RolloutDoc, StartWave(w, doc),
             UNCHANGED running
      PROVE  CommandsSent'
  <2>1. Sync(w) \in Commands /\ Sync(w).version = w
    BY DEF Sync, Commands
  <2>2. doc.canary \in SUBSET Machines
    BY DEF RolloutDoc
  <2> QED
    BY <1>4, <1>5, <2>1, <2>2 DEF StartWave, Queue
<1>6. ASSUME \A m \in Machines : pending'[m] \subseteq pending[m],
             UNCHANGED running
      PROVE  CommandsSent'
  BY <1>2, <1>3, <1>6 DEF CommandsSent
<1>7. CASE Request
  BY <1>6, <1>7 DEF Request, Publish, RollbackHead, ResyncRead, DeployRead
<1>8. CASE FinishRequest
  <2>1. ASSUME NEW w \in resyncs, ResyncCommit(w)
        PROVE  CommandsSent'
    <3>1. Resync(w) \in Commands /\ Resync(w).version = w
      BY DEF Resync, Commands, TypeOK
    <3> QED
      BY <1>4, <2>1, <3>1 DEF ResyncCommit, Queue
  <2>2. ASSUME NEW d \in deploys, DeployCommit(d)
        PROVE  CommandsSent'
    <3>1. d.version \in Versions /\ d.machines \in SUBSET Machines
      BY DEF TypeOK
    <3>2. Waves("canary", d.machines, NameRank) \in RolloutDoc
      BY <3>1, WavesSplit
    <3> QED
      BY <1>5, <1>6, <2>2, <3>1, <3>2 DEF DeployCommit
  <2>3. ASSUME NEW r \in rollbacks, NEW S \in SUBSET r.todo,
               RollbackBatch(r, S)
        PROVE  CommandsSent'
    <3>1. S \in SUBSET Machines
      BY DEF TypeOK
    <3>2. Rollback(r.version) \in Commands
            /\ Rollback(r.version).version = r.version
      BY DEF Rollback, Commands, TypeOK
    <3> QED
      BY <1>4, <2>3, <3>1, <3>2 DEF RollbackBatch
  <2> QED
    BY <1>8, <2>1, <2>2, <2>3 DEF FinishRequest
<1>9. CASE Schedule \/ FanOut
  <2>1. ASSUME NEW w \in Versions, SweepClaim(w)
        PROVE  CommandsSent'
    <3>1. [rollout[w] EXCEPT !.stage = "canary"] \in RolloutDoc
      BY DEF TypeOK, RolloutDoc, Stages
    <3> QED
      BY <1>5, <1>6, <2>1, <3>1 DEF SweepClaim
  <2>2. ASSUME NEW w \in Versions, FanOutCommit(w)
        PROVE  CommandsSent'
    <3>1. Waves("canary", Machines, HashRank[w]) \in RolloutDoc
      BY WavesSplit
    <3> QED
      BY <1>5, <2>2, <3>1 DEF FanOutCommit
  <2> QED
    BY <1>6, <1>9, <2>1, <2>2 DEF Schedule, FanOut, WindowPasses, FanOutRead
<1>10. CASE \E m \in Machines, w \in Versions : OnReport(m, w)
  BY <1>6, <1>10 DEF OnReport, ReportIgnored, RetryDispatch, PromoteToFleet,
                     Conclude, TargetEvent
<1>11. CASE (\E w \in Versions : Dispatch(w) \/ Settle(w)) \/ HandlerDies
  <2>1. ASSUME NEW p \in plans, NEW S \in SUBSET p.todo, DispatchBatch(p, S)
        PROVE  CommandsSent'
    <3>1. S \in SUBSET Machines
      BY DEF TypeOK
    <3>2. Sync(p.version) \in Commands /\ Sync(p.version).version = p.version
      BY DEF Sync, Commands, TypeOK
    <3> QED
      BY <1>4, <2>1, <3>1, <3>2 DEF DispatchBatch, Queue
  <2> QED
    BY <1>6, <1>11, <2>1 DEF Dispatch, Settle, DispatchBatchFails,
                             DispatchSettles, HandlerDies
<1>12. ASSUME NEW m \in Machines, Agent(m)
       PROVE  CommandsSent'
  <2>1. /\ \A n \in Machines : pending'[n] \subseteq pending[n]
        /\ \A n \in Machines : running'[n] \in {running[n], NoCommand}
                                                 \cup pending[n]
    BY <1>12 DEF TypeOK, Agent, SyncStarts, SyncEnds, AgentRestarts
  <2> QED
    BY <1>2, <1>3, <2>1 DEF CommandsSent
<1> QED
  BY <1>7, <1>8, <1>9, <1>10, <1>11, <1>12 DEF Next

(* The verdict "complete" on a fleet wave means that three quarters of it  *)
(* have committed the version: all have reported, and no more than a       *)
(* quarter a failure.                                                      *)
LEMMA CompletionEvidence ==
  ASSUME TypeOK, TruthfulReports, NEW v \in Versions,
         rollout[v].stage = "fleet", Verdict(v) = "complete"
  PROVE  4 * Cardinality(rollout[v].fleet \cap committed[v])
           >= 3 * Cardinality(rollout[v].fleet)
<1> DEFINE wave == rollout[v].fleet
           status == StatusFor(v)
           e == EvaluateWave(wave, status)
           good == {m \in wave : status[m] = "succeeded"}
<1>1. wave \in SUBSET Machines
  BY DEF TypeOK, RolloutDoc
<1>2. /\ e \in [total : Nat, succeeded : Nat, failed : Nat]
      /\ IsFiniteSet(wave) /\ IsFiniteSet(good)
  BY <1>1, EvaluationCounts
<1>3. ~CanaryShouldAbort(e) /\ Settled(e)
  BY DEF Verdict, NextStage, CurrentWave, Terminal
<1>4. e.total = Cardinality(wave) /\ e.succeeded = Cardinality(good)
  BY DEF EvaluateWave
<1>5. good \subseteq wave \cap committed[v]
  BY <1>1 DEF StatusFor, TruthfulReports
<1>6. IsFiniteSet(wave \cap committed[v])
  BY <1>2, FS_Subset
<1>7. /\ Cardinality(good) <= Cardinality(wave \cap committed[v])
      /\ Cardinality(wave \cap committed[v]) \in Nat
  BY <1>5, <1>6, FS_Subset, FS_CardinalityType
<1> HIDE DEF wave, status, good, e
<1>8. 4 * Cardinality(wave \cap committed[v]) >= 3 * Cardinality(wave)
  BY <1>2, <1>3, <1>4, <1>7 DEF CanaryShouldAbort, Settled
<1> QED
  BY <1>8 DEF wave

(* A document written changes one entry of what the abstract release sees. *)
LEMMA DocumentMapped ==
  ASSUME TypeOK, NEW w \in Versions, NEW doc \in RolloutDoc,
         rollout' = [rollout EXCEPT ![w] = doc]
  PROVE  /\ [v \in Versions |-> StageOf(rollout'[v])]
              = [[v \in Versions |-> StageOf(rollout[v])]
                   EXCEPT ![w] = StageOf(doc)]
         /\ [v \in Versions |-> WaveOf(rollout'[v])]
              = [[v \in Versions |-> WaveOf(rollout[v])]
                   EXCEPT ![w] = WaveOf(doc)]
         /\ [v \in Versions |-> RestOf(rollout'[v])]
              = [[v \in Versions |-> RestOf(rollout[v])]
                   EXCEPT ![w] = RestOf(doc)]
BY DEF TypeOK

(* The abstract release counts as its implementation does: its module has  *)
(* an instance of FiniteSets of its own.                                   *)
LEMMA SameCount ==
  ASSUME NEW S
  PROVE  Release!Cardinality(S) = Cardinality(S)
BY DEF Cardinality, Release!Cardinality

(* The initial state is one of a staged release.                           *)
LEMMA ReleaseStarts == Init => Release!Init
BY DEF Init, Release!Init, NoDoc, StageOf, WaveOf, RestOf, Started

ReleaseVars ==
  <<[v \in Versions |-> StageOf(rollout[v])],
    [v \in Versions |-> WaveOf(rollout[v])],
    [v \in Versions |-> RestOf(rollout[v])],
    canaries, queued, committed, forced>>

(* Every step that writes a rollout document is a step of the release.     *)
LEMMA ReleaseMoves ==
  ASSUME TypeOK, TruthfulReports, WavesApart,
         NEW w \in Versions, NEW doc \in RolloutDoc, Moves(w, doc)
  PROVE  Release!Next \/ UNCHANGED ReleaseVars
<1> DEFINE Marked(s, c, f) ==
      /\ [v \in Versions |-> StageOf(rollout'[v])]
           = [[v \in Versions |-> StageOf(rollout[v])] EXCEPT ![w] = s]
      /\ [v \in Versions |-> WaveOf(rollout'[v])]
           = [[v \in Versions |-> WaveOf(rollout[v])] EXCEPT ![w] = c]
      /\ [v \in Versions |-> RestOf(rollout'[v])]
           = [[v \in Versions |-> RestOf(rollout[v])] EXCEPT ![w] = f]
<1>1. Marked(StageOf(doc), WaveOf(doc), RestOf(doc))
  BY DocumentMapped DEF Moves
<1>2. doc.canary \in SUBSET Machines /\ doc.fleet \in SUBSET Machines
  BY DEF RolloutDoc
<1>3. /\ [v \in Versions |-> StageOf(rollout[v])][w] = StageOf(rollout[w])
      /\ [v \in Versions |-> WaveOf(rollout[v])][w] = WaveOf(rollout[w])
      /\ [v \in Versions |-> RestOf(rollout[v])][w] = RestOf(rollout[w])
  OBVIOUS
<1>4. ASSUME ~Started(doc), doc.stage # "complete", Quiet
      PROVE  Release!Next
  <2>1. Marked("none", {}, {})
    BY <1>1, <1>4 DEF StageOf, WaveOf, RestOf
  <2>2. Release!Withdraw(w)
    BY <1>4, <2>1 DEF Release!Withdraw, Release!Waves, Quiet
  <2> QED
    BY <2>2 DEF Release!Next
<1>5. CASE Opens(w, doc)
  <2>1. Marked("canary", doc.canary, doc.fleet)
    BY <1>1, <1>5 DEF Opens, StageOf, WaveOf, RestOf, Started
  <2>2. doc.canary \cap doc.fleet = {}
    BY <1>5 DEF Opens, Splits, SameWaves, WavesApart
  <2>3. Release!Open(w, doc.canary, doc.fleet)
    BY <1>5, <2>1, <2>2
    DEF Release!Open, Release!Waves, Opens, StartWave, NoteQueued
  <2> QED
    BY <1>2, <2>3 DEF Release!Next
<1>6. CASE Waits(w, doc) \/ Aborts(w, doc)
  BY <1>4, <1>6 DEF Waits, Aborts, Started
<1>7. CASE Forces(w, doc)
  <2>1. Marked("none", {}, {}) \/ Marked("complete", {}, {})
    BY <1>1, <1>7 DEF Forces, StageOf, WaveOf, RestOf, Started
  <2>2. PICK S \in SUBSET Machines : queued' = [queued EXCEPT ![w] = @ \cup S]
    BY <1>7 DEF Forces
  <2>3. Release!Force(w, S)
    BY <1>7, <2>1, <2>2 DEF Forces, Release!Force, Release!Waves
  <2> QED
    BY <2>3 DEF Release!Next
<1>8. CASE Advances(w, doc)
  <2>1. Quiet /\ SameWaves(w, doc)
    BY <1>8 DEF Advances
  <2>2. ASSUME rollout[w].stage = "canary", Verdict(w) = "fleet"
        PROVE  Release!Earned(w)
    <3> DEFINE S == [v \in Versions |-> WaveOf(rollout[v])][w]
    <3>1. S = rollout[w].canary
      BY <1>3, <2>2 DEF WaveOf, Started
    <3>2. /\ 10 * Cardinality(S \cap committed[w]) >= 9 * Cardinality(S)
          /\ S \cap committed[w] # {}
      BY <2>2, <3>1, PromotionEvidence
    <3> QED
      BY <3>2, SameCount DEF Release!Earned, Release!Most
  <2>3. CASE doc.stage = "fleet"
    <3>1. rollout[w].stage = "canary" /\ Verdict(w) = "fleet"
      BY <1>8, <2>3 DEF Advances
    <3>2. /\ WaveOf(doc) = WaveOf(rollout[w])
          /\ RestOf(doc) = RestOf(rollout[w])
          /\ StageOf(doc) = "fleet" /\ StageOf(rollout[w]) = "canary"
      BY <2>1, <2>3, <3>1 DEF SameWaves, WaveOf, RestOf, StageOf, Started
    <3>3. /\ UNCHANGED [v \in Versions |-> WaveOf(rollout[v])]
          /\ UNCHANGED [v \in Versions |-> RestOf(rollout[v])]
      BY <1>1, <3>2
    <3>4. Release!Promote(w)
      BY <1>1, <1>3, <2>1, <2>2, <3>1, <3>2, <3>3
      DEF Release!Promote, Quiet
    <3> QED
      BY <3>4 DEF Release!Next
  <2>4. CASE doc.stage = "complete"
    <3>1. Marked("complete", {}, {})
      BY <1>1, <2>4 DEF StageOf, WaveOf, RestOf, Started
    <3>2. \/ /\ rollout[w].stage = "canary" /\ Verdict(w) = "fleet"
             /\ rollout[w].fleet = {}
          \/ rollout[w].stage = "fleet" /\ Verdict(w) = "complete"
      BY <1>8, <2>1, <2>4 DEF Advances, SameWaves
    <3>3. StageOf(rollout[w]) = rollout[w].stage
            /\ RestOf(rollout[w]) = rollout[w].fleet
      BY <3>2 DEF StageOf, RestOf, Started
    <3>4. \/ /\ StageOf(rollout[w]) = "canary" /\ Release!Earned(w)
             /\ RestOf(rollout[w]) = {}
          \/ /\ StageOf(rollout[w]) = "fleet"
             /\ Release!Most(3, 4, RestOf(rollout[w]), w)
      <4>1. rollout[w].stage = "fleet" /\ Verdict(w) = "complete"
              => Release!Most(3, 4, rollout[w].fleet, w)
        BY CompletionEvidence, SameCount DEF Release!Most
      <4> QED
        BY <2>2, <3>2, <3>3, <4>1
    <3>5. Release!Finish(w)
      BY <1>3, <2>1, <3>1, <3>4 DEF Release!Finish, Release!Waves, Quiet
    <3> QED
      BY <3>5 DEF Release!Next
  <2> QED
    BY <1>8, <2>3, <2>4 DEF Advances
<1>9. CASE Touches(w, doc)
  <2>1. /\ StageOf(doc) = StageOf(rollout[w])
        /\ WaveOf(doc) = WaveOf(rollout[w])
        /\ RestOf(doc) = RestOf(rollout[w])
    BY <1>9 DEF Touches, SameWaves, StageOf, WaveOf, RestOf, Started
  <2>2. /\ UNCHANGED [v \in Versions |-> StageOf(rollout[v])]
        /\ UNCHANGED [v \in Versions |-> WaveOf(rollout[v])]
        /\ UNCHANGED [v \in Versions |-> RestOf(rollout[v])]
    BY <1>1, <2>1
  <2> QED
    BY <1>9, <2>2 DEF Touches, Quiet, ReleaseVars
<1> QED
  BY <1>5, <1>6, <1>7, <1>8, <1>9 DEF Moves

(* Every step is a step of the release or changes nothing it can see.      *)
LEMMA ReleaseStep ==
  ASSUME TypeOK, TruthfulReports, Evidence, WavesApart, CommandsSent, Next
  PROVE  Release!Next \/ UNCHANGED ReleaseVars
<1>1. ASSUME UNCHANGED rollout
      PROVE  /\ UNCHANGED [v \in Versions |-> StageOf(rollout[v])]
             /\ UNCHANGED [v \in Versions |-> WaveOf(rollout[v])]
             /\ UNCHANGED [v \in Versions |-> RestOf(rollout[v])]
  BY <1>1
<1>2. CASE Sends
  <2>1. PICK w \in Versions, S \in SUBSET Machines :
               /\ w \in forced \/ Proven(w)
               /\ queued' = [queued EXCEPT ![w] = @ \cup S]
    BY <1>2 DEF Sends
  <2>2. Release!Send(w, S)
    BY <1>1, <1>2, <2>1 DEF Sends, Release!Send, Proven
  <2> QED
    BY <2>2 DEF Release!Next
<1>3. CASE Installs
  <2>1. PICK m \in Machines :
               /\ running[m] # NoCommand
               /\ committed' = [committed EXCEPT ![running[m].version] =
                                  @ \cup {m}]
    BY <1>3 DEF Installs
  <2>2. running[m].version \in Versions /\ m \in queued[running[m].version]
    BY <2>1 DEF TypeOK, Commands, CommandsSent
  <2>3. Release!Install(running[m].version, m)
    BY <1>1, <1>3, <2>1, <2>2 DEF Installs, Release!Install
  <2> QED
    BY <2>2, <2>3 DEF Release!Next
<1>4. CASE rollout' = rollout /\ Quiet
  BY <1>1, <1>4 DEF Quiet, ReleaseVars
<1> QED
  BY <1>2, <1>3, <1>4, StepMoves, ReleaseMoves DEF Consequence

(* The rollout of a roost implements a staged release, for every fleet.    *)
THEOREM ImplementsRelease == Spec => ReleaseSpec
<1> DEFINE Sound == IInv /\ WavesApart /\ CommandsSent
<1>1. Init => Sound
  BY IInvInit DEF Init, NoDoc, WavesApart, CommandsSent
<1>2. Sound /\ [Next]_vars => Sound'
  <2>1. ASSUME Sound, UNCHANGED vars
        PROVE  WavesApart' /\ CommandsSent'
    BY <2>1 DEF WavesApart, CommandsSent
  <2>2. ASSUME Sound, Next
        PROVE  WavesApart' /\ CommandsSent'
    BY <2>2, WavesApartStep, CommandsSentStep DEF IInv
  <2> QED
    BY <2>1, <2>2, IInvStep
<1>3. Sound /\ [Next]_vars => [Release!Next]_(Release!vars)
  <2>1. ASSUME Sound, UNCHANGED vars
        PROVE  UNCHANGED Release!vars
    BY <2>1 DEF Release!vars
  <2>2. ASSUME Sound, Next
        PROVE  Release!Next \/ UNCHANGED Release!vars
    BY <2>2, ReleaseStep DEF IInv, ReleaseVars, Release!vars
  <2> QED
    BY <2>1, <2>2
<1>4. Init => Release!Init
  BY ReleaseStarts
<1> QED
  BY <1>1, <1>2, <1>3, <1>4, PTL DEF Spec, ReleaseSpec, Release!Spec

----------------------------------------------------------------------------
(* The dispatch flag, when every deploy names the machines of the roost.   *)
(* Then every wave under way or waiting is a split of the same fleet; its  *)
(* canaries were sent the version when it started; and what a dispatch has *)
(* no more to send was sent, whichever rollout of the version it belongs   *)
(* to.                                                                     *)
WholeFleet ==
  /\ \A d \in deploys : d.machines = Machines
  /\ \A v \in Versions :
       rollout[v].stage \in {"scheduled", "canary", "fleet"} =>
         rollout[v].canary \cup rollout[v].fleet = Machines

CanariesSent ==
  \A v \in Versions :
    Started(rollout[v]) => rollout[v].canary \subseteq queued[v]

PlansCover == \A p \in plans : Machines \ p.todo \subseteq queued[p.version]

Covered == WholeFleet /\ CanariesSent /\ PlansCover /\ DispatchedMeansQueued

(* Every step keeps the fleet whole.                                       *)
LEMMA WholeFleetStep ==
  ASSUME DeploySets \subseteq {Machines},
         TypeOK, Evidence, WholeFleet, Next
  PROVE  WholeFleet'
<1>1. \A d \in deploys' : d.machines = Machines
  <2>1. ASSUME NEW v \in Versions, NEW ms \in DeploySets,
               NEW scheduled \in BOOLEAN, DeployRead(v, ms, scheduled)
        PROVE  \A d \in deploys' : d.machines = Machines
    BY <2>1 DEF DeployRead, WholeFleet
  <2>2. CASE deploys' \subseteq deploys
    BY <2>2 DEF WholeFleet
  <2>3. CASE Request
    BY <2>1, <2>2, <2>3 DEF Request, Publish, RollbackHead, ResyncRead
  <2>4. CASE FinishRequest \/ Schedule \/ FanOut
    BY <2>2, <2>4
    DEF FinishRequest, ResyncCommit, DeployCommit, RollbackBatch, Schedule,
        WindowPasses, SweepClaim, FanOut, FanOutRead, FanOutCommit
  <2>5. CASE \E m \in Machines, w \in Versions : OnReport(m, w)
    BY <2>2, <2>5 DEF OnReport, ReportIgnored, RetryDispatch, PromoteToFleet,
                      Conclude, TargetEvent
  <2>6. CASE (\E w \in Versions : Dispatch(w) \/ Settle(w)) \/ HandlerDies
    BY <2>2, <2>6 DEF Dispatch, Settle, DispatchBatch, DispatchBatchFails,
                      DispatchSettles, HandlerDies
  <2>7. CASE \E m \in Machines : Agent(m)
    BY <2>2, <2>7 DEF Agent, SyncStarts, SyncEnds, AgentRestarts
  <2> QED
    BY <2>3, <2>4, <2>5, <2>6, <2>7 DEF Next
<1>2. ASSUME NEW w \in Versions, NEW doc \in RolloutDoc, Moves(w, doc)
      PROVE  WholeFleet'
  <2>1. doc.stage \in {"scheduled", "canary", "fleet"}
          => doc.canary \cup doc.fleet = Machines
    BY <1>2 DEF WholeFleet, Moves, Opens, Splits, SameWaves, Waits, Aborts,
                Forces, Advances, Touches
  <2> QED
    BY <1>1, <1>2, <2>1 DEF TypeOK, WholeFleet, Moves
<1> QED
  BY <1>1, <1>2, StepMoves DEF Consequence, Sends, Installs, WholeFleet

(* Every step keeps CanariesSent: a first wave starts with its commands.   *)
LEMMA CanariesSentStep ==
  ASSUME TypeOK, Evidence, CanariesSent, Next
  PROVE  CanariesSent'
<1>1. \A v \in Versions : queued[v] \subseteq queued'[v]
  BY SentGrows
<1>2. ASSUME NEW w \in Versions, NEW doc \in RolloutDoc, Moves(w, doc)
      PROVE  CanariesSent'
  <2>1. Started(doc) => doc.canary \subseteq queued'[w]
    <3>1. CASE Opens(w, doc)
      BY <3>1 DEF TypeOK, Opens, StartWave, NoteQueued
    <3>2. CASE Advances(w, doc) \/ Touches(w, doc)
      BY <1>1, <3>2 DEF CanariesSent, Advances, Touches, SameWaves, Started
    <3>3. CASE Waits(w, doc) \/ Aborts(w, doc) \/ Forces(w, doc)
      BY <3>3 DEF Waits, Aborts, Forces, Started
    <3> QED
      BY <1>2, <3>1, <3>2, <3>3 DEF Moves
  <2>2. \A v \in Versions \ {w} : rollout'[v] = rollout[v]
    BY <1>2 DEF TypeOK, Moves
  <2>3. rollout'[w] = doc
    BY <1>2 DEF TypeOK, Moves
  <2> QED
    BY <1>1, <2>1, <2>2, <2>3 DEF CanariesSent
<1> QED
  BY <1>1, <1>2, StepMoves
  DEF Consequence, Sends, Installs, CanariesSent

(* Every step keeps PlansCover: a dispatch starts with the fleet wave left *)
(* to do, and its canaries were sent the version before.                   *)
LEMMA PlansCoverStep ==
  ASSUME TypeOK, Evidence, WholeFleet, CanariesSent, PlansCover, Next
  PROVE  PlansCover'
<1>1. \A v \in Versions : queued[v] \subseteq queued'[v]
  BY SentGrows
<1>2. ASSUME NEW p \in plans
      PROVE  Machines \ p.todo \subseteq queued'[p.version]
  BY <1>1 DEF TypeOK, PlansCover
<1>3. CASE plans' \subseteq plans
  BY <1>2, <1>3 DEF PlansCover
<1>4. ASSUME NEW v \in Versions, Started(rollout[v]),
             plans' \subseteq plans \cup {Plan(v)}
      PROVE  PlansCover'
  <2>1. Machines \ rollout[v].fleet \subseteq queued'[v]
    BY <1>1, <1>4 DEF WholeFleet, CanariesSent, Started
  <2> QED
    BY <1>2, <1>4, <2>1 DEF PlansCover, Plan
<1>5. CASE Request \/ FinishRequest
  BY <1>3, <1>5 DEF Request, Publish, RollbackHead, ResyncRead, DeployRead,
                    FinishRequest, ResyncCommit, DeployCommit, RollbackBatch
<1>6. CASE Schedule \/ FanOut
  BY <1>3, <1>6 DEF Schedule, WindowPasses, SweepClaim, FanOut, FanOutRead,
                    FanOutCommit
<1>7. ASSUME NEW m \in Machines, NEW v \in Versions, OnReport(m, v)
      PROVE  PlansCover'
  <2>1. CASE ReportIgnored(m, v) \/ Conclude(m, v)
    BY <1>3, <2>1 DEF ReportIgnored, Conclude
  <2>2. CASE RetryDispatch(m, v) \/ PromoteToFleet(m, v)
    BY <1>4, <2>2 DEF RetryDispatch, MustRetry, PromoteToFleet, Started
  <2> QED
    BY <1>7, <2>1, <2>2 DEF OnReport
<1>8. ASSUME NEW p \in plans, NEW S \in SUBSET p.todo, DispatchBatch(p, S)
      PROVE  PlansCover'
  <2> DEFINE q == [p EXCEPT !.todo = @ \ S]
  <2>1. q.version = p.version /\ q.todo = p.todo \ S
    BY DEF TypeOK
  <2>2. S \subseteq queued'[p.version]
    BY <1>8 DEF TypeOK, DispatchBatch, NoteQueued
  <2>3. Machines \ q.todo \subseteq queued'[q.version]
    BY <1>2, <2>1, <2>2
  <2>4. plans' \subseteq plans \cup {q}
    BY <1>8 DEF DispatchBatch
  <2> QED
    BY <1>2, <2>3, <2>4 DEF PlansCover
<1>9. ASSUME NEW p \in plans, DispatchBatchFails(p)
      PROVE  PlansCover'
  <2> DEFINE q == [p EXCEPT !.failed = TRUE]
  <2>1. q.version = p.version /\ q.todo = p.todo
    BY DEF TypeOK
  <2>2. plans' \subseteq plans \cup {q}
    BY <1>9 DEF DispatchBatchFails
  <2> QED
    BY <1>2, <2>1, <2>2 DEF PlansCover
<1>10. CASE (\E v \in Versions : Dispatch(v) \/ Settle(v)) \/ HandlerDies
  BY <1>3, <1>8, <1>9, <1>10 DEF Dispatch, Settle, DispatchSettles,
                                 HandlerDies
<1>11. CASE \E m \in Machines : Agent(m)
  BY <1>3, <1>11 DEF Agent, SyncStarts, SyncEnds, AgentRestarts
<1> QED
  BY <1>5, <1>6, <1>7, <1>10, <1>11 DEF Next

(* Every step keeps DispatchedMeansQueued: a promotion resets the flag,    *)
(* and only a dispatch with nothing left to do sets it.                    *)
LEMMA DispatchedStep ==
  ASSUME TypeOK, Evidence, PlansCover, DispatchedMeansQueued, Next
  PROVE  DispatchedMeansQueued'
<1>1. \A v \in Versions : queued[v] \subseteq queued'[v]
  BY SentGrows
<1>2. ASSUME NEW w \in Versions, NEW doc \in RolloutDoc, Moves(w, doc)
      PROVE  DispatchedMeansQueued'
  <2>1. ASSUME doc.stage = "fleet", doc.dispatched = "yes"
        PROVE  doc.fleet \subseteq queued'[w]
    <3>1. Touches(w, doc) /\ rollout[w].stage = "fleet" /\ SameWaves(w, doc)
      BY <1>2, <2>1
      DEF Moves, Opens, Waits, Aborts, Forces, Advances, Touches
    <3>2. CASE rollout[w].dispatched = "yes"
      BY <1>1, <3>1, <3>2 DEF DispatchedMeansQueued, SameWaves
    <3>3. CASE rollout[w].dispatched # "yes"
      <4>1. PICK p \in plans : p.version = w /\ p.todo = {}
        BY <2>1, <3>1, <3>3 DEF Touches
      <4> QED
        BY <1>1, <4>1 DEF PlansCover, RolloutDoc
    <3> QED
      BY <3>2, <3>3
  <2>2. \A v \in Versions \ {w} : rollout'[v] = rollout[v]
    BY <1>2 DEF TypeOK, Moves
  <2>3. rollout'[w] = doc
    BY <1>2 DEF TypeOK, Moves
  <2> QED
    BY <1>1, <2>1, <2>2, <2>3 DEF DispatchedMeansQueued
<1> QED
  BY <1>1, <1>2, StepMoves
  DEF Consequence, Sends, Installs, DispatchedMeansQueued

(* When every deploy names the machines of the roost, a fleet wave marked  *)
(* as dispatched has been sent to every machine of it, however the runs of *)
(* the dispatch, its retries and later rollouts of the version overlap.    *)
THEOREM FlagTellsTheTruth ==
  DeploySets \subseteq {Machines} => (Spec => []DispatchedMeansQueued)
<1> SUFFICES ASSUME DeploySets \subseteq {Machines}
             PROVE  Spec => []DispatchedMeansQueued
  OBVIOUS
<1>1. Init => Covered
  BY DEF Init, NoDoc, Covered, WholeFleet, CanariesSent, PlansCover,
         DispatchedMeansQueued, Started
<1>2. IInv /\ Covered /\ [Next]_vars => Covered'
  <2>1. ASSUME Covered, UNCHANGED vars
        PROVE  Covered'
    BY <2>1 DEF Covered, WholeFleet, CanariesSent, PlansCover,
                DispatchedMeansQueued
  <2>2. ASSUME IInv, Covered, Next
        PROVE  Covered'
    BY <2>2, WholeFleetStep, CanariesSentStep, PlansCoverStep, DispatchedStep
    DEF IInv, Covered
  <2> QED
    BY <2>1, <2>2
<1>3. Covered => DispatchedMeansQueued
  BY DEF Covered
<1> QED
  BY <1>1, <1>2, <1>3, IInvInit, IInvStep, PTL DEF Spec
=============================================================================

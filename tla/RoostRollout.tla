---------------------------- MODULE RoostRollout ----------------------------
(***************************************************************************)
(* The staged distribution of one roost (a synced folder) to its target    *)
(* machines.  Operators act through the web API, cloud functions react to  *)
(* document writes, agents run commands; they share nothing but Firestore  *)
(* documents:                                                              *)
(*                                                                         *)
(*   roosts/{r}                      head (currentVersionId)               *)
(*   roosts/{r}/versions/{v}         created                               *)
(*   roosts/{r}/rollouts/{v}         rollout                               *)
(*   roosts/{r}/target_state/{m}     target                                *)
(*   machines/{m}/commands/pending   pending                               *)
(*                                                                         *)
(* A step is what one Firestore transaction or batch makes atomic.  Reads  *)
(* a handler does outside of the write that follows them are steps of      *)
(* their own, and what the handler remembers in between is kept in         *)
(* fanningOut, deploys, resyncs, rollbacks and plans.  Trigger events are  *)
(* delivered in any order, at least once; a redelivery, a handler that     *)
(* dies and a write that is lost use up the same Budget as a request.      *)
(***************************************************************************)
EXTENDS FanoutLogic

CONSTANTS Machines,     \* the machines in roost.targets
          Versions,     \* content-addressed version ids
          NoVersion,    \* no version: a roost never published to, no report
          HashRank,     \* HashRank[v][m]: order of stableHash(m::v)
          NameRank,     \* NameRank[m]: lexicographic order of machine ids
          DeploySets,   \* the machine lists a deploy may name
          Outcomes,     \* how a sync on an agent may end
          BatchSize,    \* machines whose writes fit one batch
          Budget,       \* bound on operator requests and faults together
          Faulty        \* whether there are faults at all

ASSUME RolloutAssumption ==
  /\ IsFiniteSet(Machines) /\ Machines # {}
  /\ NoVersion \notin Versions
  /\ HashRank \in [Versions -> [Machines -> Nat]]
  /\ NameRank \in [Machines -> Nat]
  /\ DeploySets \subseteq SUBSET Machines /\ {} \notin DeploySets
  /\ Outcomes \subseteq {"succeeded", "failed"}
  /\ BatchSize \in Nat \ {0}
  /\ Budget \in Nat /\ Faulty \in BOOLEAN

VARIABLES head, created, rollout, target, pending,
          roostEvents, targetEvents,
          fanningOut, plans, deploys, resyncs, rollbacks,
          running,
          queued, canaries, committed, forced,
          spent

documents == <<head, created, rollout, target, pending>>
events    == <<roostEvents, targetEvents>>
handlers  == <<fanningOut, plans, deploys, resyncs, rollbacks>>
history   == <<queued, canaries, committed, forced>>
vars == <<documents, events, handlers, running, history, spent>>

----------------------------------------------------------------------------
(* Documents.                                                              *)

RolloutDoc ==
  [stage      : Stages \cup {"absent"},
   canary     : SUBSET Machines,
   fleet      : SUBSET Machines,
   dispatched : {"unset", "no", "yes"},    \* pendingCommandsDispatched
   window     : {"none", "future", "due", "late"}]  \* now against scheduledAt

NoDoc == [stage |-> "absent", canary |-> {}, fleet |-> {},
          dispatched |-> "unset", window |-> "none"]

Waves(stage, ms, rank) ==
  [stage |-> stage, canary |-> CanaryOf(ms, rank),
   fleet |-> ms \ CanaryOf(ms, rank), dispatched |-> "unset",
   window |-> IF stage = "scheduled" THEN "future" ELSE "none"]

(* set(..., {merge: true}) of the dispatch flag alone: on a document that  *)
(* is gone it leaves one with no stage and no waves.                       *)
MergeDispatched(doc, flag) ==
  IF doc.stage = "absent"
  THEN [NoDoc EXCEPT !.stage = "unset", !.dispatched = flag]
  ELSE [doc EXCEPT !.dispatched = flag]

Report   == [version : Versions \cup {NoVersion}, status : Statuses]
NoReport == [version |-> NoVersion, status |-> "pending"]

(* The id of a fan-out or deploy command is a function of the version; a   *)
(* rollback or resync command carries a nonce, so its id is never the same *)
(* as that of a "sync" command.                                            *)
Commands  == [kind : {"sync", "rollback", "resync"}, version : Versions]
NoCommand == [kind |-> "none", version |-> NoVersion]
Sync(v)     == [kind |-> "sync", version |-> v]
Rollback(v) == [kind |-> "rollback", version |-> v]
Resync(v)   == [kind |-> "resync", version |-> v]

Queue(ms, c) ==
  pending' = [m \in Machines |-> IF m \in ms THEN pending[m] \cup {c}
                                             ELSE pending[m]]
NoteQueued(ms, v) == queued' = [queued EXCEPT ![v] = @ \cup ms]

Operator == spent < Budget /\ spent' = spent + 1
Fault    == Faulty /\ spent < Budget /\ spent' = spent + 1

(* An event may be delivered again after this delivery.                    *)
Deliver(set, e) ==
  \/ set' = set \ {e} /\ UNCHANGED spent
  \/ set' = set /\ Fault

Init ==
  /\ head = NoVersion
  /\ created = {}
  /\ rollout = [v \in Versions |-> NoDoc]
  /\ target = [m \in Machines |-> NoReport]
  /\ pending = [m \in Machines |-> {}]
  /\ roostEvents = {} /\ targetEvents = {}
  /\ fanningOut = {} /\ plans = {} /\ deploys = {}
  /\ resyncs = {} /\ rollbacks = {}
  /\ running = [m \in Machines |-> NoCommand]
  /\ queued = [v \in Versions |-> {}]
  /\ canaries = [v \in Versions |-> {}]
  /\ committed = [v \in Versions |-> {}]
  /\ forced = {}
  /\ spent = 0

----------------------------------------------------------------------------
(* Operators.                                                              *)

(* POST /versions: the finalizing transaction.  A version already in the   *)
(* history is promoted: the head moves and nothing else.                   *)
Publish(v) ==
  /\ Operator
  /\ head # v
  /\ head' = v
  /\ created' = created \cup {v}
  /\ roostEvents' = roostEvents \cup {v}
  /\ UNCHANGED <<rollout, target, pending, targetEvents, handlers, running,
                 history>>

(* POST /rollback, the transaction: the head moves back and the rollout of *)
(* the version it moves to is closed, whatever it was doing.               *)
RollbackHead(v) ==
  /\ Operator
  /\ v \in created
  /\ head # v
  /\ head' = v
  /\ rollout' = [rollout EXCEPT ![v] =
                   [@ EXCEPT !.stage = "complete", !.canary = Machines,
                             !.fleet = {}, !.dispatched = "yes"]]
  /\ roostEvents' = roostEvents \cup {v}
  /\ rollbacks' = rollbacks \cup {[version |-> v, todo |-> Machines]}
  /\ forced' = forced \cup {v}
  /\ UNCHANGED <<created, target, pending, targetEvents, fanningOut, plans,
                 deploys, resyncs, running, queued, canaries, committed>>

(* ... and after it dispatchRollbackSyncPulls, one batch of machines at a  *)
(* time: a fresh command each, the fan-out command and the report dropped. *)
RollbackBatch(r, S) ==
  /\ r \in rollbacks
  /\ S \subseteq r.todo /\ S # {} /\ Cardinality(S) <= BatchSize
  /\ pending' = [m \in Machines |->
                   IF m \in S
                   THEN (pending[m] \cup {Rollback(r.version)})
                          \ {Sync(r.version)}
                   ELSE pending[m]]
  /\ target' = [m \in Machines |-> IF m \in S THEN NoReport ELSE target[m]]
  /\ rollbacks' = (rollbacks \ {r}) \cup
                    (IF S = r.todo THEN {}
                     ELSE {[r EXCEPT !.todo = @ \ S]})
  /\ NoteQueued(S, r.version)
  /\ UNCHANGED <<head, created, rollout, events, fanningOut, plans, deploys,
                 resyncs, running, canaries, committed, forced, spent>>

(* POST /resync reads the head, then writes everything in one batch.       *)
ResyncRead ==
  /\ Operator
  /\ head # NoVersion
  /\ resyncs' = resyncs \cup {head}
  /\ UNCHANGED <<documents, events, fanningOut, plans, deploys, rollbacks,
                 running, history>>

ResyncCommit(v) ==
  /\ v \in resyncs
  /\ resyncs' = resyncs \ {v}
  /\ Queue(Machines, Resync(v))
  /\ target' = [m \in Machines |-> NoReport]
  /\ rollout' = [rollout EXCEPT ![v] = NoDoc]
  /\ NoteQueued(Machines, v)
  /\ forced' = forced \cup {v}
  /\ UNCHANGED <<head, created, events, fanningOut, plans, deploys, rollbacks,
                 running, canaries, committed, spent>>

(* POST /deploy reads the roost and the rollout and answers alreadyRunning *)
(* unless the rollout is over; a document without a stage reads as a       *)
(* canary.  The batch that follows overwrites the rollout document.        *)
DeployRead(v, ms, scheduled) ==
  /\ Operator
  /\ v \in created
  /\ rollout[v].stage = "absent" \/ Terminal(rollout[v].stage)
  /\ deploys' = deploys \cup
                  {[version |-> v, machines |-> ms, scheduled |-> scheduled]}
  /\ UNCHANGED <<documents, events, fanningOut, plans, resyncs, rollbacks,
                 running, history>>

(* The first wave starts: its commands are queued with the document.       *)
StartWave(v, doc) ==
  /\ rollout' = [rollout EXCEPT ![v] = doc]
  /\ canaries' = [canaries EXCEPT ![v] = @ \cup doc.canary]
  /\ Queue(doc.canary, Sync(v))
  /\ NoteQueued(doc.canary, v)
  /\ UNCHANGED <<committed, forced>>

DeployCommit(d) ==
  /\ d \in deploys
  /\ deploys' = deploys \ {d}
  /\ IF d.scheduled
     THEN /\ rollout' = [rollout EXCEPT ![d.version] =
                           Waves("scheduled", d.machines, NameRank)]
          /\ UNCHANGED <<pending, history>>
     ELSE StartWave(d.version, Waves("canary", d.machines, NameRank))
  /\ UNCHANGED <<head, created, target, events, fanningOut, plans, resyncs,
                 rollbacks, running, spent>>

----------------------------------------------------------------------------
(* The scheduler sweep.                                                    *)

(* The clock reaches scheduledAt, then the end of the grace window.        *)
WindowPasses(v) ==
  /\ rollout[v].stage = "scheduled"
  /\ rollout[v].window \in {"future", "due"}
  /\ rollout' = [rollout EXCEPT ![v].window =
                   IF @ = "future" THEN "due" ELSE "late"]
  /\ UNCHANGED <<head, created, target, pending, events, handlers, running,
                 history, spent>>

(* One claim transaction of sweepDueScheduledRollouts: re-read, decide and *)
(* write.  A rollout that somebody else has claimed is left alone.         *)
SweepClaim(v) ==
  LET doc == rollout[v] IN
  /\ doc.stage = "scheduled"
  /\ \/ /\ doc.window = "due"
        /\ StartWave(v, [doc EXCEPT !.stage = "canary"])
     \/ /\ doc.window = "late"
        /\ rollout' = [rollout EXCEPT ![v].stage = "aborted"]
        /\ UNCHANGED <<pending, history>>
  /\ UNCHANGED <<head, created, target, events, handlers, running, spent>>

----------------------------------------------------------------------------
(* onRoostWritten.                                                         *)

(* The head moved to v: skip when v has a rollout document already.        *)
FanOutRead(v) ==
  /\ v \in roostEvents
  /\ Deliver(roostEvents, v)
  /\ fanningOut' = IF rollout[v].stage = "absent"
                   THEN fanningOut \cup {v} ELSE fanningOut
  /\ UNCHANGED <<documents, targetEvents, plans, deploys, resyncs, rollbacks,
                 running, history>>

(* The batch writes the document without looking at it again.              *)
FanOutCommit(v) ==
  /\ v \in fanningOut
  /\ fanningOut' = fanningOut \ {v}
  /\ StartWave(v, Waves("canary", Machines, HashRank[v]))
  /\ UNCHANGED <<head, created, target, events, plans, deploys, resyncs,
                 rollbacks, running, spent>>

----------------------------------------------------------------------------
(* onTargetStateWritten: one transaction that reads the rollout and every  *)
(* report of the current wave.                                             *)

(* Mutant: whatever the machine reported last counts.                      *)
MutStatusForAny(v) == [m \in Machines |-> target[m].status]

(* readWaveStates: a report about another version counts as none.          *)
StatusFor(v) ==
  [m \in Machines |-> IF target[m].version = v THEN target[m].status
                                               ELSE "pending"]

(* Mutant: the first wave is looked at for ever.                           *)
MutCurrentWave(doc) == doc.canary

CurrentWave(doc) == IF doc.stage = "canary" THEN doc.canary ELSE doc.fleet

MustRetry(doc) == doc.stage = "fleet" /\ doc.dispatched = "no"

(* A document without a stage makes the handler throw before it writes.    *)
Evaluates(m, v) ==
  /\ rollout[v].stage \in {"scheduled", "canary", "fleet"}
  /\ ~MustRetry(rollout[v])
  /\ m \in CurrentWave(rollout[v])

Verdict(v) ==
  NextStage(rollout[v].stage,
            EvaluateWave(CurrentWave(rollout[v]), StatusFor(v)))

Plan(v) == [version |-> v, todo |-> rollout[v].fleet, failed |-> FALSE]

TargetEvent(m, v) ==
  /\ <<m, v>> \in targetEvents
  /\ Deliver(targetEvents, <<m, v>>)
  /\ UNCHANGED <<head, created, target, pending, roostEvents, fanningOut,
                 deploys, resyncs, rollbacks, running, history>>

ReportIgnored(m, v) ==
  /\ TargetEvent(m, v)
  /\ ~MustRetry(rollout[v])
  /\ Evaluates(m, v) => Verdict(v) = rollout[v].stage
  /\ UNCHANGED <<rollout, plans>>

RetryDispatch(m, v) ==
  /\ TargetEvent(m, v)
  /\ MustRetry(rollout[v])
  /\ plans' = plans \cup {Plan(v)}
  /\ UNCHANGED rollout

(* The stage moves in the transaction; the commands follow outside of it.  *)
PromoteToFleet(m, v) ==
  /\ TargetEvent(m, v)
  /\ Evaluates(m, v) /\ rollout[v].stage = "canary"
  /\ Verdict(v) = "fleet"
  /\ IF rollout[v].fleet # {}
     THEN /\ rollout' = [rollout EXCEPT ![v] =
                           [@ EXCEPT !.stage = "fleet", !.dispatched = "no"]]
          /\ plans' = plans \cup {Plan(v)}
     ELSE /\ rollout' = [rollout EXCEPT ![v] =
                           [@ EXCEPT !.stage = "complete",
                                     !.dispatched = "yes"]]
          /\ UNCHANGED plans

Conclude(m, v) ==
  /\ TargetEvent(m, v)
  /\ Evaluates(m, v)
  /\ Verdict(v) # rollout[v].stage
  /\ Verdict(v) \in {"aborted", "complete"}
  /\ rollout' = [rollout EXCEPT ![v].stage = Verdict(v)]
  /\ UNCHANGED plans

(* dispatchFleetCommands.  Batches go out side by side; when one fails the *)
(* flag is reset, and whatever had not been written yet is not written.    *)
DispatchBatch(p, S) ==
  /\ p \in plans
  /\ S \subseteq p.todo /\ S # {} /\ Cardinality(S) <= BatchSize
  /\ Queue(S, Sync(p.version))
  /\ plans' = (plans \ {p}) \cup {[p EXCEPT !.todo = @ \ S]}
  /\ NoteQueued(S, p.version)
  /\ UNCHANGED <<head, created, rollout, target, events, fanningOut, deploys,
                 resyncs, rollbacks, running, canaries, committed, forced,
                 spent>>

DispatchBatchFails(p) ==
  /\ p \in plans /\ p.todo # {} /\ ~p.failed
  /\ Fault
  /\ plans' = (plans \ {p}) \cup {[p EXCEPT !.failed = TRUE]}
  /\ UNCHANGED <<documents, events, fanningOut, deploys, resyncs, rollbacks,
                 running, history>>

(* Mutant: the flag is set although a batch failed.                        *)
MutSettleDispatched(p) ==
  /\ p \in plans
  /\ p.failed \/ p.todo = {}
  /\ plans' = plans \ {p}
  /\ rollout' = [rollout EXCEPT ![p.version] = MergeDispatched(@, "yes")]
  /\ UNCHANGED <<head, created, target, pending, events, fanningOut, deploys,
                 resyncs, rollbacks, running, history, spent>>

DispatchSettles(p) ==
  /\ p \in plans
  /\ p.failed \/ p.todo = {}
  /\ plans' = plans \ {p}
  /\ rollout' = [rollout EXCEPT ![p.version] =
                   MergeDispatched(@, IF p.failed THEN "no" ELSE "yes")]
  /\ UNCHANGED <<head, created, target, pending, events, fanningOut, deploys,
                 resyncs, rollbacks, running, history, spent>>

(* The instance that runs a handler, or the server that answers a rollback *)
(* request, dies.  Triggers are not configured to be retried.              *)
HandlerDies ==
  /\ Fault
  /\ \/ /\ \E v \in fanningOut : fanningOut' = fanningOut \ {v}
        /\ UNCHANGED <<plans, rollbacks>>
     \/ /\ \E p \in plans : plans' = plans \ {p}
        /\ UNCHANGED <<fanningOut, rollbacks>>
     \/ /\ \E r \in rollbacks : rollbacks' = rollbacks \ {r}
        /\ UNCHANGED <<fanningOut, plans>>
  /\ UNCHANGED <<documents, events, deploys, resyncs, running, history>>

----------------------------------------------------------------------------
(* The agent: its slow lane runs one sync_pull at a time.                  *)

(* Mutant: the report does not say which version it is about.              *)
MutReportUnversioned(m, v, status) ==
  /\ target' = [target EXCEPT ![m] = [status |-> status]]
  /\ targetEvents' = targetEvents \cup {<<m, v>>}
  /\ UNCHANGED spent

Reports(m, v, status) ==
  /\ target' = [target EXCEPT ![m] = [version |-> v, status |-> status]]
  /\ targetEvents' = targetEvents \cup {<<m, v>>}

(* set_document on target_state is best effort: it may be lost.            *)
ReportState(m, v, status) ==
  \/ Reports(m, v, status) /\ UNCHANGED spent
  \/ Fault /\ UNCHANGED <<target, targetEvents>>

SyncStarts(m, c) ==
  /\ running[m] = NoCommand
  /\ c \in pending[m]
  /\ running' = [running EXCEPT ![m] = c]
  /\ ReportState(m, c.version, "pending")
  /\ UNCHANGED <<head, created, rollout, pending, roostEvents, handlers,
                 history>>

(* The sync ends, reports, and the command leaves the pending document;    *)
(* or it stays there, since the service dies or the removal fails, and the *)
(* next process runs it again.                                             *)
SyncEnds(m, status) ==
  LET c == running[m] IN
  /\ c # NoCommand
  /\ running' = [running EXCEPT ![m] = NoCommand]
  /\ committed' = IF status = "succeeded"
                  THEN [committed EXCEPT ![c.version] = @ \cup {m}]
                  ELSE committed
  /\ \/ /\ ReportState(m, c.version, status)
        /\ pending' = [pending EXCEPT ![m] = @ \ {c}]
     \/ /\ Reports(m, c.version, status) /\ Fault
        /\ UNCHANGED pending
  /\ UNCHANGED <<head, created, rollout, roostEvents, handlers, queued,
                 canaries, forced>>

(* After a restart the command is marked failed and nothing is reported,   *)
(* or it is found pending and runs again: see CommandDelivery.             *)
AgentRestarts(m) ==
  /\ Fault
  /\ running[m] # NoCommand
  /\ running' = [running EXCEPT ![m] = NoCommand]
  /\ pending' \in {pending, [pending EXCEPT ![m] = @ \ {running[m]}]}
  /\ UNCHANGED <<head, created, rollout, target, events, handlers, history>>

----------------------------------------------------------------------------
Request ==
  \/ \E v \in Versions : Publish(v) \/ RollbackHead(v)
  \/ ResyncRead
  \/ \E v \in Versions, ms \in DeploySets, scheduled \in BOOLEAN :
       DeployRead(v, ms, scheduled)

FinishRequest ==
  \/ \E v \in resyncs : ResyncCommit(v)
  \/ \E d \in deploys : DeployCommit(d)
  \/ \E r \in rollbacks : \E S \in SUBSET r.todo : RollbackBatch(r, S)

Schedule == \E v \in Versions : WindowPasses(v) \/ SweepClaim(v)

FanOut == \E v \in Versions : FanOutRead(v) \/ FanOutCommit(v)

OnReport(m, v) ==
  \/ ReportIgnored(m, v)
  \/ RetryDispatch(m, v)
  \/ PromoteToFleet(m, v)
  \/ Conclude(m, v)

Dispatch(v) == \E p \in plans : p.version = v /\
  \/ \E S \in SUBSET p.todo : DispatchBatch(p, S)
  \/ DispatchBatchFails(p)

Settle(v) == \E p \in plans : p.version = v /\ DispatchSettles(p)

Agent(m) ==
  \/ \E c \in pending[m] : SyncStarts(m, c)
  \/ \E status \in Outcomes : SyncEnds(m, status)
  \/ AgentRestarts(m)

Next ==
  \/ Request
  \/ FinishRequest
  \/ Schedule
  \/ FanOut
  \/ \E m \in Machines, v \in Versions : OnReport(m, v)
  \/ \E v \in Versions : Dispatch(v) \/ Settle(v)
  \/ HandlerDies
  \/ \E m \in Machines : Agent(m)

Spec == Init /\ [][Next]_vars

(* Accepted requests finish, the scheduler keeps sweeping, every event is  *)
(* delivered, a handler that does not die runs to its end, and an agent    *)
(* keeps working off its pending commands.  Operators owe nothing.         *)
Fairness ==
  /\ WF_vars(FinishRequest)
  /\ \A v \in Versions : WF_vars(WindowPasses(v)) /\ WF_vars(SweepClaim(v))
  /\ \A v \in Versions : WF_vars(FanOutRead(v)) /\ WF_vars(FanOutCommit(v))
  /\ \A m \in Machines, v \in Versions : WF_vars(OnReport(m, v))
  /\ \A v \in Versions : WF_vars(Dispatch(v)) /\ WF_vars(Settle(v))
  /\ \A m \in Machines : WF_vars(Agent(m))

FairSpec == Spec /\ Fairness

----------------------------------------------------------------------------
(* Properties.                                                             *)

(* Every document, event and command in flight has its type.               *)
TypeOK ==
  /\ head \in Versions \cup {NoVersion}
  /\ created \subseteq Versions
  /\ rollout \in [Versions -> RolloutDoc]
  /\ target \in [Machines -> Report]
  /\ pending \in [Machines -> SUBSET Commands]
  /\ roostEvents \subseteq Versions
  /\ targetEvents \subseteq Machines \X Versions
  /\ fanningOut \subseteq Versions
  /\ plans \subseteq [version : Versions, todo : SUBSET Machines,
                      failed : BOOLEAN]
  /\ deploys \subseteq [version : Versions, machines : SUBSET Machines,
                        scheduled : BOOLEAN]
  /\ resyncs \subseteq Versions
  /\ rollbacks \subseteq [version : Versions, todo : SUBSET Machines]
  /\ running \in [Machines -> Commands \cup {NoCommand}]
  /\ queued \in [Versions -> SUBSET Machines]
  /\ canaries \in [Versions -> SUBSET Machines]
  /\ committed \in [Versions -> SUBSET Machines]
  /\ forced \subseteq Versions
  /\ spent \in 0..Budget

(* The blast radius of a bad version: as long as nobody forces it on the   *)
(* whole fleet with a rollback or a resync, a version is sent to a machine *)
(* outside of its canary waves only after some canary machine has really   *)
(* committed it, whatever is redelivered, lost or overwritten meanwhile.   *)
BlastRadius ==
  \A v \in Versions \ forced :
    queued[v] \subseteq canaries[v] \/ canaries[v] \cap committed[v] # {}

(* A rollout in its fleet wave earned it: at least 90% of its own canary   *)
(* machines have committed that version on disk, not merely another one.   *)
EarnedPromotion ==
  \A v \in Versions :
    rollout[v].stage = "fleet" =>
      10 * Cardinality(rollout[v].canary \cap committed[v])
        >= 9 * Cardinality(rollout[v].canary)

(* The retry flag tells the truth: once a fleet wave is marked dispatched, *)
(* every machine of the wave has had a command queued, so nothing is left  *)
(* out that the retry branch of onTargetStateWritten would have to send.   *)
(* It holds when every deploy names the same machines.  The flag does not  *)
(* say which dispatch it is about: with a deploy to other machines that    *)
(* overtakes a dispatch under way, the old dispatch marks the new wave.    *)
DispatchedMeansQueued ==
  \A v \in Versions :
    rollout[v].stage = "fleet" /\ rollout[v].dispatched = "yes" =>
      rollout[v].fleet \subseteq queued[v]

(* What the rollout documents, commands and installs amount to: a staged   *)
(* release.  Only a wave that has started counts as one.                   *)
Started(doc) == doc.stage \in {"canary", "fleet"}

StageOf(doc) ==
  IF Started(doc) \/ doc.stage = "complete" THEN doc.stage ELSE "none"
WaveOf(doc) == IF Started(doc) THEN doc.canary ELSE {}
RestOf(doc) == IF Started(doc) THEN doc.fleet ELSE {}

Release == INSTANCE StagedRelease WITH
  stage <- [v \in Versions |-> StageOf(rollout[v])],
  wave <- [v \in Versions |-> WaveOf(rollout[v])],
  rest <- [v \in Versions |-> RestOf(rollout[v])],
  tried <- canaries,
  reached <- queued,
  has <- committed,
  exempt <- forced

(* Whatever is redelivered, lost, overwritten or dies half way, every step *)
(* of handlers, routes and agents is one a staged release allows: nobody   *)
(* has what was not sent to it, no promotion and no completion is called   *)
(* that installs on disk do not back.                                      *)
ReleaseSpec == Release!Spec

InFlight(v) == Started(rollout[v])
Over(v)     == Terminal(rollout[v].stage) \/ rollout[v].stage = "absent"

(* Every canary machine has reported, and what they reported is too bad to *)
(* promote and not bad enough to abort: between 10% and 25% have failed.   *)
Undecided(v) ==
  LET e == EvaluateWave(rollout[v].canary, StatusFor(v)) IN
  /\ rollout[v].stage = "canary"
  /\ e.succeeded + e.failed = e.total
  /\ e.total < 10 * e.failed /\ 4 * e.failed <= e.total

(* No wave waits for a report or an event that never comes: a rollout in   *)
(* flight becomes terminal, or a resync drops it, or its canary wave ends  *)
(* between the two thresholds.                                             *)
RolloutSettles ==
  \A v \in Versions : InFlight(v) ~> Over(v) \/ Undecided(v)

(* The last line of nextStage, "return null; // no transition - still in   *)
(* flight": no verdict means that some machine is still to report, so a    *)
(* rollout in flight always comes to an end.                               *)
RolloutConcludes == \A v \in Versions : InFlight(v) ~> Over(v)
=============================================================================

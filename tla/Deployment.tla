----------------------------- MODULE Deployment -----------------------------
(***************************************************************************)
(* One installer deployment: the routes that create, cancel, retry and     *)
(* delete it, the machines that work off its commands, the trigger that    *)
(* copies their answers into its document and the sweeper that times them  *)
(* out.  All of them read the document and write it back later, without a  *)
(* transaction, and a write carries the whole array of targets.            *)
(***************************************************************************)
EXTENDS Naturals, Sequences, FiniteSets

CONSTANTS Machines,
          NoDoc, NoRoute, NoSweep,
          ClosesProcesses, \* whether machines close processes before installs
          MaxAge,       \* bound on the quarters of an hour counted: 2 is all
          MaxEvents,    \* bound on trigger events that are on their way
          MaxInterference \* bound on cancels, retries and deletes, on crashes,
                          \* creates that die and lost events

ASSUME DeploymentAssumption ==
  /\ Machines # {} /\ IsFiniteSet(Machines)
  /\ ClosesProcesses \in BOOLEAN
  /\ MaxAge \in 0 .. 2
  /\ MaxEvents \in Nat /\ MaxInterference \in Nat

VARIABLES doc,      \* the deployment's document
          create,   \* the request that creates it
          route,    \* the operator's request on it
          sent,     \* sent[m]: types of the commands written for m so far
          pending,  \* pending[m]: numbers of those in m's pending document
          entry,    \* entry[m][n]: status of command n in the completed one
          agent,    \* agent[m]: m's slow lane
          events,   \* changes of completed documents, not yet handled
          handling, \* runs of the trigger between their read and their write
          sweep,    \* the sweeper between its read and its write
          age,      \* quarters of an hour since creation, counted to two
          watched,  \* whether the sweeper takes the site for active
          torn,     \* history: a write was based on what was no longer so
          spent     \* interference so far

dvars == <<create, route, sent>>
avars == <<pending, entry, agent>>
time == <<age, watched>>
vars == <<doc, dvars, avars, events, handling, sweep, time, torn, spent>>

Active == {"downloading", "installing"}
Terminal == {"completed", "failed", "cancelled"}
Shown == {"pending", "running", "closing_processes"} \cup Active \cup Terminal
Over == Terminal \cup {"partial"}
PreFlight == {"pending", "closing_processes", "downloading"}
InFlight == PreFlight \cup {"installing"}

Numbers == 1 .. MaxInterference + 1
Idle == 0   \* the number of no command
Docs == [status : {"pending", "in_progress"} \cup Over,
         targets : [Machines -> Shown]]
Requests == [op : {"cancel", "retry", "delete"},
             at : {"unqueue", "command", "write"},
             snap : Docs, asked : SUBSET Machines]
Lanes == [up : BOOLEAN, queue : Seq(Numbers), command : Numbers \cup {Idle},
          at : {"idle", "running", "closing_processes"} \cup Active]
Events == [machine : Machines, n : Numbers, status : Shown \ {"pending"}]

Interfere ==
  /\ spent < MaxInterference
  /\ spent' = spent + 1

AllTerminal(targets) == \A m \in Machines : targets[m] \in Terminal
Ended(d) == d # NoDoc => d.status \in Over

calculateDeploymentStatus(targets) ==
  LET shown == {targets[m] : m \in Machines} IN
  IF ~(shown \subseteq Terminal) THEN "in_progress"
  ELSE IF \E s \in Terminal : shown = {s}
       THEN CHOOSE s \in Terminal : shown = {s}
       ELSE "partial"

(* A write of what follows from snap; an update of a deleted document      *)
(* fails.                                                                  *)
Update(snap, new) ==
  /\ doc' = IF doc = NoDoc THEN NoDoc ELSE new
  /\ torn' = (torn \/ (doc # NoDoc /\ doc # snap))

Init ==
  /\ doc = NoDoc
  /\ create = "start"
  /\ route = NoRoute
  /\ sent = [m \in Machines |-> <<>>]
  /\ pending = [m \in Machines |-> {}]
  /\ entry = [m \in Machines |-> [n \in Numbers |-> "none"]]
  /\ agent = [m \in Machines |-> [up |-> TRUE, queue |-> <<>>,
                                  command |-> Idle, at |-> "idle"]]
  /\ events = {} /\ handling = {} /\ sweep = NoSweep
  /\ age = 0 /\ watched \in BOOLEAN
  /\ torn = FALSE
  /\ spent = 0

----------------------------------------------------------------------------
(* POST /deployments: the document, a command per machine, the status.     *)

(* The commands of a fan-out are written side by side, each to a document  *)
(* of its own; a request that dies has written some of them.               *)
FanOut(machines, type) ==
  /\ sent' = [m \in Machines |->
                IF m \in machines THEN Append(sent[m], type) ELSE sent[m]]
  /\ pending' = [m \in Machines |->
       IF m \in machines THEN pending[m] \cup {Len(sent[m]) + 1}
       ELSE pending[m]]
  /\ UNCHANGED <<entry, agent>>

SetDocument ==
  /\ create = "start"
  /\ doc' = [status |-> "pending",
             targets |-> [m \in Machines |-> "pending"]]
  /\ create' = "command"
  /\ UNCHANGED <<route, sent, avars, events, handling, sweep, time, torn,
                 spent>>

QueueInstalls ==
  /\ create = "command"
  /\ FanOut(Machines, "install")
  /\ create' = "start it"
  /\ UNCHANGED <<doc, route, events, handling, sweep, time, torn, spent>>

Started ==
  /\ create = "start it"
  /\ create' = "done"
  /\ doc' = IF doc = NoDoc THEN NoDoc
            ELSE [doc EXCEPT !.status = "in_progress"]
  /\ torn' = (torn \/ (doc # NoDoc /\ AllTerminal(doc.targets)))
  /\ UNCHANGED <<route, sent, avars, events, handling, sweep, time, spent>>

CreateDies ==
  /\ create \in {"command", "start it"}
  /\ Interfere
  /\ create' = "done"
  /\ \E reached \in SUBSET Machines :
       FanOut(IF create = "command" THEN reached ELSE {}, "install")
  /\ UNCHANGED <<doc, route, events, handling, sweep, time, torn>>

----------------------------------------------------------------------------
(* The operator's requests: each reads the document first.                 *)

Request(op, at, asked) ==
  /\ route = NoRoute /\ doc # NoDoc
  /\ Interfere
  /\ route' = [op |-> op, at |-> at, snap |-> doc, asked |-> asked]
  /\ UNCHANGED <<doc, create, sent, avars, events, handling, sweep, time,
                 torn>>

AskCancel ==
  /\ doc # NoDoc
  /\ LET cancellable == {m \in Machines : doc.targets[m] \in PreFlight} IN
       cancellable # {} /\ Request("cancel", "unqueue", cancellable)

AskRetry ==
  /\ doc # NoDoc
  /\ \E failed \in SUBSET {m \in Machines : doc.targets[m] = "failed"} :
       failed # {} /\ Request("retry", "command", failed)

AskDelete ==
  /\ doc # NoDoc
  /\ doc.status \in Over
  /\ \A m \in Machines : doc.targets[m] \notin InFlight
  /\ Request("delete", "write", {})

At(stage) == route # NoRoute /\ route.at = stage

Unqueue ==
  /\ At("unqueue")
  /\ pending' = [m \in Machines |->
       IF m \in route.asked THEN {n \in pending[m] : sent[m][n] # "install"}
       ELSE pending[m]]
  /\ route' = [route EXCEPT !.at = "command"]
  /\ UNCHANGED <<doc, create, sent, entry, agent, events, handling, sweep,
                 time, torn, spent>>

CommandType == IF route.op = "cancel" THEN "cancel" ELSE "install"

QueueCommands ==
  /\ At("command")
  /\ FanOut(route.asked, CommandType)
  /\ route' = [route EXCEPT !.at = "write"]
  /\ UNCHANGED <<doc, create, events, handling, sweep, time, torn, spent>>

Marked(status) ==
  [m \in Machines |-> IF m \in route.asked THEN status
                      ELSE route.snap.targets[m]]

(* The route's own rule for the status; it leaves the status alone while a *)
(* target is not done.                                                     *)
CancelledStatus(targets) ==
  LET shown == {targets[m] : m \in Machines} IN
  IF ~(shown \subseteq Terminal) THEN doc.status
  ELSE IF shown = {"cancelled"} THEN "cancelled"
  ELSE IF "failed" \in shown /\ "completed" \notin shown THEN "failed"
  ELSE "partial"

Written ==
  LET status == IF route.op = "cancel" THEN "cancelled" ELSE "pending"
      targets == Marked(status) IN
  [targets |-> targets,
   status |-> IF route.op = "cancel" THEN CancelledStatus(targets)
              ELSE "in_progress"]

WriteRoute ==
  /\ At("write")
  /\ route' = NoRoute
  /\ \/ route.op = "delete" /\ Update(route.snap, NoDoc)
     \/ route.op # "delete" /\ Update(route.snap, Written)
  /\ UNCHANGED <<create, sent, avars, events, handling, sweep, time, spent>>

RouteDies ==
  /\ route # NoRoute
  /\ route' = NoRoute
  /\ \E reached \in SUBSET route.asked :
       FanOut(IF At("command") THEN reached ELSE {}, CommandType)
  /\ UNCHANGED <<doc, create, events, handling, sweep, time, torn, spent>>

----------------------------------------------------------------------------
(* The machines.  Installs and cancel_installation share the slow lane.    *)

Room == Cardinality(events) + Cardinality(handling) < MaxEvents

Tell(m, n, status) ==
  /\ Room
  /\ entry' = [entry EXCEPT ![m][n] = status]
  /\ events' = events \cup {[machine |-> m, n |-> n, status |-> status]}
  /\ UNCHANGED <<doc, dvars, handling, sweep, time, torn>>

Has(m, n) ==
  \/ agent[m].command = n
  \/ \E i \in DOMAIN agent[m].queue : agent[m].queue[i] = n

Fetch(m) ==
  /\ agent[m].up
  /\ \E n \in pending[m] :
       /\ entry[m][n] = "none" /\ ~Has(m, n)
       /\ agent' = [agent EXCEPT ![m].queue = Append(@, n)]
  /\ UNCHANGED <<doc, dvars, pending, entry, events, handling, sweep, time,
                 torn, spent>>

Begin(m) ==
  /\ agent[m].at = "idle" /\ agent[m].queue # <<>>
  /\ LET n == Head(agent[m].queue) IN
       /\ Tell(m, n, "running")
       /\ agent' = [agent EXCEPT ![m].queue = Tail(@), ![m].command = n,
                                 ![m].at = "running"]
  /\ UNCHANGED <<pending, spent>>

Follows(at) ==
  CASE at = "running" /\ ClosesProcesses -> {"closing_processes"}
    [] at = "running" /\ ~ClosesProcesses -> {"downloading"}
    [] at = "closing_processes" -> {"downloading"}
    [] at = "downloading" -> {"installing"}
    [] OTHER -> {}

Progress(m) ==
  /\ agent[m].command # Idle
  /\ sent[m][agent[m].command] = "install"
  /\ \E phase \in Follows(agent[m].at) :
       /\ Tell(m, agent[m].command, phase)
       /\ agent' = [agent EXCEPT ![m].at = phase]
  /\ UNCHANGED <<pending, spent>>

(* Mutant: finish_command without its case for cancel_installation.        *)
MutOutcomes(m) ==
  IF agent[m].at = "installing" \/ sent[m][agent[m].command] = "cancel"
  THEN {"completed", "failed"} ELSE {"failed"}

(* An installer that is stopped, or a step that fails, ends the command; a *)
(* cancel_installation ends as cancelled, whether it found something to    *)
(* cancel or, on the lane of the installs, never did.                      *)
Outcomes(m) ==
  IF sent[m][agent[m].command] = "cancel" THEN {"cancelled"}
  ELSE {"failed"} \cup (IF agent[m].at = "installing" THEN {"completed"}
                        ELSE {})

Finish(m) ==
  /\ agent[m].command # Idle
  /\ \E status \in Outcomes(m) : Tell(m, agent[m].command, status)
  /\ pending' = [pending EXCEPT ![m] = @ \ {agent[m].command}]
  /\ agent' = [agent EXCEPT ![m].command = Idle, ![m].at = "idle"]
  /\ UNCHANGED spent

Crash(m) ==
  /\ agent[m].up
  /\ Interfere
  /\ agent' = [agent EXCEPT ![m] = [up |-> FALSE, queue |-> <<>>,
                                    command |-> Idle, at |-> "idle"]]
  /\ UNCHANGED <<doc, dvars, pending, entry, events, handling, sweep, time,
                 torn>>

(* _seed_seen_commands: an entry that is "running" is marked failed.       *)
Restart(m) ==
  LET cut == {n \in Numbers : entry[m][n] = "running"} IN
  /\ ~agent[m].up
  /\ cut # {} => Room
  /\ agent' = [agent EXCEPT ![m].up = TRUE]
  /\ entry' = [entry EXCEPT ![m] = [n \in Numbers |->
                 IF n \in cut THEN "failed" ELSE entry[m][n]]]
  /\ pending' = [pending EXCEPT ![m] = @ \ cut]
  /\ events' = events \cup
       {[machine |-> m, n |-> n, status |-> "failed"] : n \in cut}
  /\ UNCHANGED <<doc, dvars, handling, sweep, time, torn, spent>>

----------------------------------------------------------------------------
(* onCommandCompleted, one run per event, in any order and side by side.   *)

(* Mutant: what is over may go back to work.                               *)
MutIgnored(old, new) == old = new

Ignored(old, new) ==
  \/ old \in Terminal /\ new \notin Terminal
  \/ old = new

Deliver(e) ==
  /\ e \in events
  /\ events' = events \ {e}
  /\ handling' =
       IF doc = NoDoc \/ Ignored(doc.targets[e.machine], e.status)
       THEN handling
       ELSE handling \cup {[event |-> e, snap |-> doc]}
  /\ UNCHANGED <<doc, dvars, avars, sweep, time, torn, spent>>

(* Mutant: the status of the target is copied to the deployment.           *)
MutRespond(h) ==
  LET targets == [h.snap.targets EXCEPT ![h.event.machine] = h.event.status]
  IN
  /\ h \in handling
  /\ handling' = handling \ {h}
  /\ Update(h.snap, [targets |-> targets, status |-> h.event.status])
  /\ UNCHANGED <<dvars, avars, events, sweep, time, spent>>

Respond(h) ==
  LET targets == [h.snap.targets EXCEPT ![h.event.machine] = h.event.status]
      status == calculateDeploymentStatus(targets) IN
  /\ h \in handling
  /\ handling' = handling \ {h}
  /\ Update(h.snap, [targets |-> targets,
                     status |-> IF status # h.snap.status THEN status
                                ELSE doc.status])
  /\ UNCHANGED <<dvars, avars, events, sweep, time, spent>>

Lose ==
  /\ Interfere
  /\ \/ \E e \in events : events' = events \ {e} /\ UNCHANGED handling
     \/ \E h \in handling : handling' = handling \ {h} /\ UNCHANGED events
  /\ UNCHANGED <<doc, dvars, avars, sweep, time, torn>>

----------------------------------------------------------------------------
(* sweepStaleDeployments, every five minutes.                              *)

(* Mutant: a target that works is never timed out.                         *)
MutTimedOut(targets, quarters) ==
  [m \in Machines |->
     IF targets[m] = "pending" /\ quarters >= 1 THEN "failed" ELSE targets[m]]

TimedOut(targets, quarters) ==
  [m \in Machines |->
     IF \/ targets[m] = "pending" /\ quarters >= 1
        \/ targets[m] \in Active /\ quarters >= 2
     THEN "failed" ELSE targets[m]]

SweepReads ==
  /\ sweep = NoSweep
  /\ watched /\ ~Ended(doc)
  /\ TimedOut(doc.targets, age) # doc.targets
  /\ sweep' = [snap |-> doc, targets |-> TimedOut(doc.targets, age)]
  /\ UNCHANGED <<doc, dvars, avars, events, handling, time, torn, spent>>

(* Mutant: the status is left to the trigger.                              *)
MutSweepWrites ==
  /\ sweep # NoSweep
  /\ sweep' = NoSweep
  /\ Update(sweep.snap, [sweep.snap EXCEPT !.targets = sweep.targets])
  /\ UNCHANGED <<dvars, avars, events, handling, time, spent>>

SweepWrites ==
  /\ sweep # NoSweep
  /\ sweep' = NoSweep
  /\ Update(sweep.snap,
            [targets |-> sweep.targets,
             status |-> calculateDeploymentStatus(sweep.targets)])
  /\ UNCHANGED <<dvars, avars, events, handling, time, spent>>

(* Each sweep marks a site with an open deployment as active, so that it   *)
(* stays so until half an hour after the last of them has ended; nothing   *)
(* else marks a site.                                                      *)
SiteRests ==
  /\ watched /\ Ended(doc) /\ create # "start"
  /\ watched' = FALSE
  /\ UNCHANGED <<doc, dvars, avars, events, handling, sweep, age, torn, spent>>

Tick ==
  /\ create # "start"
  /\ age < MaxAge
  /\ age' = age + 1
  /\ UNCHANGED <<doc, dvars, avars, events, handling, sweep, watched, torn,
                 spent>>

----------------------------------------------------------------------------
Creates == SetDocument \/ QueueInstalls \/ Started
Routes == Unqueue \/ QueueCommands \/ WriteRoute
Works(m) == Begin(m) \/ Progress(m) \/ Finish(m)
Triggers == (\E e \in events : Deliver(e)) \/ \E h \in handling : Respond(h)
Sweeps == SweepReads \/ SweepWrites

Next ==
  \/ Creates \/ CreateDies
  \/ AskCancel \/ AskRetry \/ AskDelete \/ Routes \/ RouteDies
  \/ \E m \in Machines : Fetch(m) \/ Works(m) \/ Crash(m) \/ Restart(m)
  \/ Triggers \/ Lose
  \/ Sweeps \/ SiteRests \/ Tick

(* Requests run to their end, machines work and come back, events are      *)
(* handled, the sweeper comes and time passes.  Operators owe nothing.     *)
Fairness ==
  /\ WF_vars(Creates) /\ WF_vars(Routes)
  /\ \A m \in Machines :
       WF_vars(Fetch(m)) /\ WF_vars(Works(m)) /\ WF_vars(Restart(m))
  /\ WF_vars(Triggers) /\ WF_vars(Sweeps) /\ WF_vars(Tick)

Spec == Init /\ [][Next]_vars
FairSpec == Spec /\ Fairness

----------------------------------------------------------------------------
(* Documents, commands, events and snapshots are what the code writes.     *)
TypeOK ==
  /\ doc \in Docs \cup {NoDoc}
  /\ create \in {"start", "command", "start it", "done"}
  /\ route \in Requests \cup {NoRoute}
  /\ sent \in [Machines -> Seq({"install", "cancel"})]
  /\ \A m \in Machines : pending[m] \subseteq DOMAIN sent[m]
  /\ entry \in [Machines -> [Numbers -> (Shown \ {"pending"}) \cup {"none"}]]
  /\ agent \in [Machines -> Lanes]
  /\ events \subseteq Events
  /\ \A h \in handling : h.event \in Events /\ h.snap \in Docs
  /\ sweep \in [snap : Docs, targets : [Machines -> Shown]] \cup {NoSweep}
  /\ age \in 0 .. MaxAge /\ watched \in BOOLEAN
  /\ torn \in BOOLEAN
  /\ spent \in 0 .. MaxInterference

(* A target is shown as completed only if an installer ended well on that  *)
(* machine, whatever was overwritten, reordered, retried or timed out.     *)
Installed(m) ==
  \E n \in DOMAIN sent[m] :
    sent[m][n] = "install" /\ entry[m][n] = "completed"

CompletedIsInstalled ==
  doc # NoDoc =>
    \A m \in Machines : doc.targets[m] = "completed" => Installed(m)

(* deploymentUtils.ts: "If any target is non-terminal" the deployment is   *)
(* in progress.  Trigger, sweeper and routes keep the status and the       *)
(* targets in step as long as none of them writes over another.            *)
StatusFollowsTargets ==
  doc # NoDoc /\ ~torn => (doc.status \in Over <=> AllTerminal(doc.targets))

GoesBack(m) ==
  doc.targets[m] \in Terminal /\ doc'.targets[m] \notin Terminal

(* deploymentStatus.ts: "A terminal target must not regress to an          *)
(* intermediate state."  It does so only when its retry is written, or by  *)
(* a write over another; late and reordered events do not matter.          *)
RegressesOnlyByRetry ==
  [][doc # NoDoc /\ doc' # NoDoc =>
       \A m \in Machines : GoesBack(m) =>
         \/ torn'
         \/ route # NoRoute /\ route.op = "retry" /\ m \in route.asked]_vars

Untimed == {"running", "closing_processes"}

(* A deployment of a site the sweeper watches ends, whatever crashes, dies *)
(* or is lost, unless a write was overtaken or a target rests in a status  *)
(* the sweeper has no limit for.                                           *)
EndsWhereSwept ==
  <>[](\/ Ended(doc) \/ torn \/ ~watched
       \/ \E m \in Machines : doc.targets[m] \in Untimed)

(* deploymentSweeper.ts: it "fails deployments stuck in non-terminal       *)
(* states - an agent that crashes or loses network never reports back, so  *)
(* nothing else would ever move them".                                     *)
NothingStaysStuck == <>[](Ended(doc) \/ torn)

(* deployments.mdx: "cancelled | Deployment work was cancelled for this    *)
(* target."                                                                *)
CancelledIsNotInstalled ==
  doc # NoDoc =>
    \A m \in Machines : doc.targets[m] = "cancelled" => ~Installed(m)

(* deploymentStatus.ts: "A terminal target must not regress to an          *)
(* intermediate state."                                                    *)
NeverRegresses ==
  [][doc # NoDoc /\ doc' # NoDoc =>
       \A m \in Machines : GoesBack(m) =>
         route # NoRoute /\ route.op = "retry" /\ m \in route.asked]_vars

(* deploymentSweeper.ts: what it fails is "an agent that crashes or loses  *)
(* network".                                                               *)
FailsOnlyTheDead ==
  [][sweep' # sweep /\ sweep' # NoSweep =>
       \A m \in Machines :
         agent[m].at # "idle" => sweep'.targets[m] = doc.targets[m]]_vars
=============================================================================

-------------------------- MODULE CommandDelivery --------------------------
(***************************************************************************)
(* How one machine's agent takes commands out of the document they are     *)
(* queued in, runs them and answers them.                                  *)
(*                                                                         *)
(* The backend writes a command into commands/pending under its own id.    *)
(* The agent polls that document, remembers in memory which ids it has     *)
(* dispatched, and runs each on a thread of its own (fast commands) or on  *)
(* the one worker of a bounded queue (installs, syncs).  An answer is two  *)
(* writes: the entry in commands/completed, then the removal from          *)
(* commands/pending.  Each may fail; the process may die between any two   *)
(* steps; the connection may go, and with it the poller, which is replaced *)
(* while the old one may still be busy with what it read.                  *)
(***************************************************************************)
EXTENDS Integers, Sequences, FiniteSets

CONSTANTS Commands,
          Fast,       \* _FAST_COMMAND_TYPES: a thread each
          Stamped,    \* commands with a timestamp, which go stale
          QueueMax,   \* room in the slow lane
          MaxFaults,  \* bound on failing writes, dropped links and crashes
          NotRead

ASSUME DeliveryAssumption ==
  /\ Fast \subseteq Commands
  /\ Stamped \subseteq Commands
  /\ QueueMax \in Nat \ {0}
  /\ MaxFaults \in Nat
  /\ \A S \in SUBSET Commands : NotRead # S

VARIABLES
  pending,    \* ids in commands/pending
  completed,  \* the status of each id in commands/completed
  aged,       \* ids over an hour in pending, and entries over a day old
  boot,       \* "booting" until start() has come to the seeding
  connected,
  seen,       \* _seen_commands
  lastRead,   \* what the poller that is not stopped read last
  poll,       \* what each poller has read and not yet handled
  lane,       \* _slow_command_queue
  jobs,       \* commands being executed or answered, and by which thread
  issued,     \* history: ids the backend has queued
  spoiled,    \* history: ids whose answer could not be written
  faults

documents == <<pending, completed, aged>>
history   == <<issued, spoiled>>
vars == <<documents, boot, connected, seen, lastRead, poll, lane, jobs,
          history, faults>>

(* A poller that is told to stop still handles what it has read.           *)
Pollers == {"live", "stopped"}
Idle == [ids |-> NotRead, todo |-> {}]

Threads == {"fast", "slow", "poll", "start"}
Stages == {"marking", "running", "reporting", "dropping"}
Jobs == [id : Commands, thread : Threads, stage : Stages]
Job(c, t, g) == [id |-> c, thread |-> t, stage |-> g]

Recorded == {c \in Commands : completed[c] # "none"}
Fault == faults < MaxFaults /\ faults' = faults + 1

Init ==
  /\ pending = {} /\ completed = [c \in Commands |-> "none"]
  /\ aged = [pending |-> {}, completed |-> {}]
  /\ boot = "booting" /\ connected \in BOOLEAN
  /\ seen = {} /\ lastRead = NotRead
  /\ poll = [p \in Pollers |-> Idle]
  /\ lane = <<>> /\ jobs = {}
  /\ issued = {} /\ spoiled = {}
  /\ faults = 0

----------------------------------------------------------------------------
(* The backend and the clock.                                              *)

(* Every command is queued once, under an id of its own.                   *)
Queue(c) ==
  /\ c \notin issued
  /\ issued' = issued \cup {c}
  /\ pending' = pending \cup {c}
  /\ UNCHANGED <<completed, aged, boot, connected, seen, lastRead, poll, lane,
                 jobs, spoiled,
                 faults>>

(* Hours do not pass while a request is on its way (30 s at most), though  *)
(* a command may take them.                                                *)
Quiet == /\ \A p \in Pollers : poll[p] = Idle
         /\ \A j \in jobs : j.stage = "running"

HourPasses(c) ==
  /\ Quiet /\ c \in pending
  /\ aged' = [aged EXCEPT !.pending = @ \cup {c}]
  /\ UNCHANGED <<pending, completed, boot, connected, seen, lastRead, poll,
                 lane, jobs, history, faults>>

DayPasses(c) ==
  /\ Quiet /\ c \in Recorded
  /\ aged' = [pending   |-> aged.pending \cup ({c} \cap pending),
              completed |-> aged.completed \cup {c}]
  /\ UNCHANGED <<pending, completed, boot, connected, seen, lastRead, poll,
                 lane, jobs, history, faults>>

----------------------------------------------------------------------------
(* The life of the process and of its connection.                          *)

(* The service dies and comes back, with or without a network.  The new    *)
(* process polls as soon as it is connected: start_watchdog starts the     *)
(* supervised threads before start() comes to _seed_seen_commands.         *)
Restart ==
  /\ Fault
  /\ boot' = "booting" /\ connected' \in BOOLEAN
  /\ seen' = {} /\ lastRead' = NotRead
  /\ poll' = [p \in Pollers |-> Idle]
  /\ lane' = <<>> /\ jobs' = {}
  /\ UNCHANGED <<documents, history>>

(* Mutant: commands that died with the service stay as they are.           *)
MutSeedOnly ==
  /\ boot = "booting" /\ connected
  /\ boot' = "up"
  /\ seen' = IF Recorded = {} THEN seen ELSE Recorded
  /\ UNCHANGED <<documents, connected, lastRead, poll, lane, jobs, history,
                 faults>>

(* _seed_seen_commands: what has an entry has been seen; what is running   *)
(* died with the service and is marked failed.                             *)
Seed ==
  /\ boot = "booting" /\ connected
  /\ boot' = "up"
  /\ seen' = IF Recorded = {} THEN seen ELSE Recorded
  /\ jobs' = jobs \cup {Job(c, "start", "reporting") :
                          c \in {d \in Commands : completed[d] = "running"}}
  /\ UNCHANGED <<documents, connected, lastRead, poll, lane, history, faults>>

(* The completed document cannot be read.                                  *)
SeedFails ==
  /\ boot = "booting" /\ connected
  /\ Fault
  /\ boot' = "up"
  /\ UNCHANGED <<documents, connected, seen, lastRead, poll, lane, jobs,
                 history>>

(* start() finds itself offline and seeds nothing, then or later.          *)
SeedSkipped ==
  /\ boot = "booting" /\ ~connected
  /\ boot' = "up"
  /\ UNCHANGED <<documents, connected, seen, lastRead, poll, lane, jobs,
                 history, faults>>

(* The poller is stopped, and goes on if it is busy.  Bound: one such.     *)
Disconnect ==
  /\ connected /\ poll["stopped"] = Idle
  /\ Fault
  /\ connected' = FALSE
  /\ poll' = [live |-> Idle, stopped |-> poll["live"]]
  /\ lastRead' = NotRead
  /\ UNCHANGED <<documents, boot, seen, lane, jobs, history>>

Reconnect ==
  /\ ~connected
  /\ connected' = TRUE
  /\ UNCHANGED <<documents, boot, seen, lastRead, poll, lane, jobs, history,
                 faults>>

----------------------------------------------------------------------------
(* Polling.                                                                *)

(* listen_to_document: a document that has not changed is not handled, and *)
(* on_commands_changed ignores an empty one.                               *)
ReadPending ==
  /\ connected /\ poll["live"] = Idle
  /\ pending # lastRead
  /\ lastRead' = pending
  /\ poll' = IF pending = {} THEN poll
             ELSE [poll EXCEPT !["live"] = [ids |-> pending, todo |-> pending]]
  /\ UNCHANGED <<documents, boot, connected, seen, lane, jobs, history,
                 faults>>

(* _process_command                                                        *)
Dispatch(c) ==
  IF c \in Fast
  THEN jobs' = jobs \cup {Job(c, "fast", "marking")} /\ UNCHANGED lane
  ELSE IF Len(lane) < QueueMax
       THEN lane' = Append(lane, c) /\ UNCHANGED jobs
       ELSE jobs' = jobs \cup {Job(c, "poll", "reporting")} /\ UNCHANGED lane

(* on_commands_changed, one id after the other.  The answer to a rejected  *)
(* command is written by the poller itself.                                *)
Consider(p, c) ==
  /\ c \in poll[p].todo
  /\ \A j \in jobs : j.thread # "poll"
  /\ poll' = [poll EXCEPT ![p].todo = @ \ {c}]
  /\ IF c \in seen
     THEN UNCHANGED <<seen, lane, jobs>>
     ELSE /\ seen' = seen \cup {c}
          /\ Dispatch(c)
  /\ UNCHANGED <<documents, boot, connected, lastRead, history, faults>>

(* Mutant: forgets the ids it has just handled.                            *)
MutForgetHandled(p) ==
  /\ poll[p].ids # NotRead /\ poll[p].todo = {}
  /\ seen' = seen \ poll[p].ids
  /\ poll' = [poll EXCEPT ![p] = Idle]
  /\ UNCHANGED <<documents, boot, connected, lastRead, lane, jobs, history,
                 faults>>

(* ... and forgets the ids that are gone from the document it has read.    *)
Forget(p) ==
  /\ poll[p].ids # NotRead /\ poll[p].todo = {}
  /\ seen' = seen \cap poll[p].ids
  /\ poll' = [poll EXCEPT ![p] = Idle]
  /\ UNCHANGED <<documents, boot, connected, lastRead, lane, jobs, history,
                 faults>>

----------------------------------------------------------------------------
(* Executing and answering.                                                *)

Advance(j, stage) == jobs' = (jobs \ {j}) \cup {[j EXCEPT !.stage = stage]}
Ends(j) == jobs' = jobs \ {j}

(* Mutant: a worker of its own for every command in the queue.             *)
MutTakeSlow ==
  /\ lane # <<>>
  /\ lane' = Tail(lane)
  /\ jobs' = jobs \cup {Job(Head(lane), "slow", "marking")}
  /\ UNCHANGED <<documents, boot, connected, seen, lastRead, poll, history,
                 faults>>

(* _slow_command_worker_loop: one at a time.                               *)
TakeSlow ==
  /\ lane # <<>>
  /\ \A j \in jobs : j.thread # "slow"
  /\ lane' = Tail(lane)
  /\ jobs' = jobs \cup {Job(Head(lane), "slow", "marking")}
  /\ UNCHANGED <<documents, boot, connected, seen, lastRead, poll, history,
                 faults>>

(* _mark_command_running                                                   *)
MarkRunning(j) ==
  /\ j \in jobs /\ j.stage = "marking" /\ connected
  /\ completed' = [completed EXCEPT ![j.id] = "running"]
  /\ Advance(j, "running")
  /\ UNCHANGED <<pending, aged, boot, connected, seen, lastRead, poll, lane,
                 history, faults>>

(* Without its marker a command runs all the same.                         *)
MarkFails(j) ==
  /\ j \in jobs /\ j.stage = "marking"
  /\ Advance(j, "running")
  /\ \/ ~connected /\ UNCHANGED faults
     \/ connected /\ Fault
  /\ UNCHANGED <<documents, boot, connected, seen, lastRead, poll, lane,
                 history>>

(* The callback returns or raises; either way there is an answer.          *)
RunCommand(j) ==
  /\ j \in jobs /\ j.stage = "running"
  /\ Advance(j, "reporting")
  /\ UNCHANGED <<documents, boot, connected, seen, lastRead, poll, lane,
                 history, faults>>

(* Mutant: out of pending first, into completed afterwards.                *)
MutReportLast(j) ==
  /\ j \in jobs /\ j.stage = "reporting" /\ connected
  /\ pending' = pending \ {j.id}
  /\ Advance(j, "dropping")
  /\ UNCHANGED <<completed, aged, boot, connected, seen, lastRead, poll, lane,
                 history, faults>>

(* _mark_command_terminal: the entry in completed first, ...               *)
Report(j) ==
  /\ j \in jobs /\ j.stage = "reporting" /\ connected
  /\ completed' = [completed EXCEPT ![j.id] = "ended"]
  /\ aged' = [aged EXCEPT !.completed = @ \ {j.id}]
  /\ Advance(j, "dropping")
  /\ UNCHANGED <<pending, boot, connected, seen, lastRead, poll, lane,
                 history, faults>>

(* ... and the removal from pending second.                                *)
Drop(j) ==
  /\ j \in jobs /\ j.stage = "dropping" /\ connected
  /\ pending' = pending \ {j.id}
  /\ aged' = [aged EXCEPT !.pending = @ \ {j.id}]
  /\ Ends(j)
  /\ UNCHANGED <<completed, boot, connected, seen, lastRead, poll, lane,
                 history, faults>>

(* Nobody waits for a connection: offline there is no answer, and one that *)
(* fails is logged and left.                                               *)
ReportFails(j) ==
  /\ j \in jobs /\ j.stage = "reporting"
  /\ \/ ~connected /\ UNCHANGED faults
     \/ connected /\ Fault
  /\ Ends(j)
  /\ spoiled' = spoiled \cup {j.id}
  /\ UNCHANGED <<documents, boot, connected, seen, lastRead, poll, lane,
                 issued>>

DropFails(j) ==
  /\ j \in jobs /\ j.stage = "dropping"
  /\ Fault
  /\ Ends(j)
  /\ UNCHANGED <<documents, boot, connected, seen, lastRead, poll, lane,
                 history>>

(* _cleanup_stale_commands, every ten minutes: what is over an hour old    *)
(* and says so leaves pending; entries over a day old leave completed; and *)
(* either may be seen again.                                               *)
Stale == pending \cap aged.pending \cap Stamped

Cleanup ==
  /\ connected
  /\ Stale \cup aged.completed # {}
  /\ pending' = pending \ Stale
  /\ completed' = [c \in Commands |->
                     IF c \in aged.completed THEN "none" ELSE completed[c]]
  /\ aged' = [pending |-> aged.pending \ Stale, completed |-> {}]
  /\ seen' = seen \ (Stale \cup aged.completed)
  /\ UNCHANGED <<boot, connected, lastRead, poll, lane, jobs, history, faults>>

----------------------------------------------------------------------------
Handle(p) == (\E c \in Commands : Consider(p, c)) \/ Forget(p)

Execute(c) ==
  \E j \in jobs : j.id = c /\ ( \/ MarkRunning(j) \/ MarkFails(j)
                                \/ RunCommand(j)
                                \/ Report(j) \/ Drop(j)
                                \/ ReportFails(j) \/ DropFails(j) )

Clock == \E c \in Commands : HourPasses(c) \/ DayPasses(c)

Next ==
  \/ \E c \in Commands : Queue(c)
  \/ Clock
  \/ Restart \/ Seed \/ SeedFails \/ SeedSkipped
  \/ Disconnect \/ Reconnect
  \/ ReadPending
  \/ \E p \in Pollers : Handle(p)
  \/ TakeSlow
  \/ \E c \in Commands : Execute(c)
  \/ Cleanup

Spec == Init /\ [][Next]_vars

(* start() goes on, the metrics loop keeps asking for a connection, the    *)
(* poller and the worker loop, and commands end.  A command's thread makes *)
(* its next step even if that step fails.                                  *)
Fairness ==
  /\ WF_vars(Seed \/ SeedSkipped)
  /\ WF_vars(Reconnect)
  /\ WF_vars(ReadPending)
  /\ \A p \in Pollers : WF_vars(Handle(p))
  /\ WF_vars(TakeSlow)
  /\ \A c \in Commands : WF_vars(Execute(c))

FairSpec == Spec /\ Fairness

----------------------------------------------------------------------------
(* Properties.                                                             *)

(* The documents, the queue and the threads hold what they should, and the *)
(* one worker has one command at a time.                                   *)
TypeOK ==
  /\ pending \subseteq issued /\ issued \subseteq Commands
  /\ completed \in [Commands -> {"none", "running", "ended"}]
  /\ aged.pending \subseteq pending /\ aged.completed \subseteq Recorded
  /\ boot \in {"booting", "up"} /\ connected \in BOOLEAN
  /\ seen \subseteq issued
  /\ lastRead = NotRead \/ lastRead \subseteq issued
  /\ \A p \in Pollers : \/ poll[p] = Idle
                        \/ poll[p].todo \subseteq poll[p].ids
                             /\ poll[p].ids \subseteq issued
  /\ Len(lane) <= QueueMax /\ \A i \in 1..Len(lane) : lane[i] \in issued \ Fast
  /\ jobs \subseteq Jobs
  /\ \A j, k \in jobs : j.thread = "slow" /\ k.thread = "slow" => j = k
  /\ spoiled \subseteq issued
  /\ faults \in 0..MaxFaults

(* "The reverse order can lose it entirely": a command leaves the pending  *)
(* document only when the completed one has an entry for it, unless it is  *)
(* over an hour old: a restart finds every other command in one of the two.*)
NothingLost ==
  [][\A c \in pending \ pending' : c \in Recorded \cup Stale]_vars

(* Every command is answered, unless the write of its answer fails or it   *)
(* gets stale first: the process may die at any point, before the answer   *)
(* or half way through it, and the lane may be full.                       *)
Answered ==
  \A c \in Commands :
    c \in issued ~> \/ completed[c] = "ended"
                    \/ c \in spoiled
                    \/ c \in aged.pending \cup aged.completed
                    \/ c \notin pending

InHand(c) == {j \in jobs : j.id = c}

(* _mark_command_terminal: "on failure the command stays in pending        *)
(* (retryable)".  Then a command whose answer could not be written is      *)
(* tried again, unless it has got stale.                                   *)
Retried ==
  \A c \in Commands :
    c \in spoiled /\ c \in pending
      ~> \/ completed[c] = "ended"
         \/ InHand(c) # {}
         \/ c \in aged.pending \cup aged.completed
=============================================================================

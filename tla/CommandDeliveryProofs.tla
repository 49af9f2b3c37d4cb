----------------------- MODULE CommandDeliveryProofs -----------------------
(***************************************************************************)
(* For any commands, any room in the slow lane and any number of faults:   *)
(* no command leaves the pending document without a trace, documents,      *)
(* pollers, lane and threads hold what they should, and a process repeats  *)
(* no command but those it was made to unlearn.                            *)
(***************************************************************************)
EXTENDS DeliveryHistory, TLAPS

(* A thread removes a command from pending only after it has written the   *)
(* answer; no cleaning takes that answer away in between, because it is    *)
(* not a day old, and nothing else ever takes an entry out of completed.   *)
Answers ==
  /\ completed \in [Commands -> {"none", "running", "ended"}]
  /\ jobs \subseteq Jobs
  /\ lane \in Seq(Commands)
  /\ \A j \in jobs : j.stage = "dropping" =>
       completed[j.id] # "none" /\ j.id \notin aged.completed

USE DEF documents, history, vars

(* No command is being answered at the start.                              *)
LEMMA AnswersInit == Init => Answers
BY DEF Init, Answers, Jobs

(* A new job starts at the beginning.                                      *)
LEMMA NewJobs ==
  ASSUME Answers, UNCHANGED <<completed, aged>>,
         NEW S \in SUBSET Commands, NEW t \in Threads,
         NEW g \in Stages \ {"dropping"},
         jobs' = jobs \cup {Job(c, t, g) : c \in S},
         lane' \in Seq(Commands)
  PROVE  Answers'
<1>1. \A c \in S : Job(c, t, g) \in Jobs /\ Job(c, t, g).stage # "dropping"
  BY DEF Job, Jobs
<1> QED
  BY <1>1 DEF Answers

(* A job that goes on to a stage other than the last.                      *)
LEMMA Advances ==
  ASSUME Answers, NEW j \in jobs, NEW g \in Stages \ {"dropping"},
         Advance(j, g), UNCHANGED <<aged, lane>>,
         completed' \in [Commands -> {"none", "running", "ended"}],
         \A c \in Commands : completed[c] # "none" => completed'[c] # "none"
  PROVE  Answers'
<1> DEFINE k == [j EXCEPT !.stage = g]
<1>1. j \in Jobs
  BY DEF Answers
<1>2. k \in Jobs /\ k.stage = g
  BY <1>1 DEF Jobs
<1>3. jobs' = (jobs \ {j}) \cup {k}
  BY DEF Advance
<1> HIDE DEF k
<1>4. \A i \in jobs' : i.stage = "dropping" => i \in jobs /\ i.id \in Commands
  BY <1>2, <1>3 DEF Answers, Jobs
<1> QED
  BY <1>2, <1>3, <1>4 DEF Answers

(* The steps of a command's own thread keep Answers: a job is about to     *)
(* leave the pending document only once its entry has been written.        *)
LEMMA AnswersExecute ==
  ASSUME Answers, NEW c \in Commands, Execute(c)
  PROVE  Answers'
<1>1. PICK j \in jobs : /\ j.id = c
                        /\ \/ MarkRunning(j) \/ MarkFails(j)
                           \/ RunCommand(j)
                           \/ Report(j) \/ Drop(j)
                           \/ ReportFails(j) \/ DropFails(j)
  BY DEF Execute
<1>2. j \in Jobs
  BY DEF Answers
<1>3. CASE MarkRunning(j)
  <2>1. /\ completed' = [completed EXCEPT ![j.id] = "running"]
        /\ Advance(j, "running") /\ UNCHANGED <<aged, lane>>
    BY <1>3 DEF MarkRunning
  <2>2. completed' \in [Commands -> {"none", "running", "ended"}]
    BY <2>1 DEF Answers
  <2>3. \A d \in Commands : completed[d] # "none" => completed'[d] # "none"
    BY <2>1 DEF Answers
  <2> QED
    BY <2>1, <2>2, <2>3, Advances DEF Stages
<1>4. CASE MarkFails(j) \/ RunCommand(j)
  <2>1. \E g \in Stages \ {"dropping"} : Advance(j, g)
    BY <1>4 DEF MarkFails, RunCommand, Stages
  <2>2. UNCHANGED <<completed, aged, lane>>
    BY <1>4 DEF MarkFails, RunCommand
  <2> QED
    BY <2>1, <2>2, Advances DEF Answers
<1>5. CASE Report(j)
  <2> DEFINE k == [j EXCEPT !.stage = "dropping"]
  <2>1. k \in Jobs /\ k.id = j.id
    BY <1>2 DEF Jobs, Stages
  <2>2. /\ jobs' = (jobs \ {j}) \cup {k}
        /\ completed' = [completed EXCEPT ![j.id] = "ended"]
        /\ UNCHANGED lane
    BY <1>5 DEF Report, Advance
  <2>3. aged'.completed = aged.completed \ {j.id}
    BY <1>5 DEF Report
  <2> HIDE DEF k
  <2> QED
    BY <1>2, <2>1, <2>2, <2>3 DEF Answers, Jobs
<1>6. CASE Drop(j)
  BY <1>6 DEF Answers, Drop, Ends
<1>7. CASE ReportFails(j) \/ DropFails(j)
  BY <1>7 DEF Answers, ReportFails, DropFails, Ends
<1> QED
  BY <1>1, <1>3, <1>4, <1>5, <1>6, <1>7

(* A day passes only between the writes of an answer.                      *)
LEMMA AnswersElsewhere ==
  ASSUME Answers,
         \/ \E c \in Commands : Queue(c)
         \/ Clock
         \/ Seed \/ SeedFails \/ SeedSkipped
         \/ Disconnect \/ Reconnect \/ ReadPending
         \/ \E p \in Pollers : Handle(p)
         \/ TakeSlow
         \/ Cleanup
         \/ Restart
  PROVE  Answers'
<1>1. CASE \/ \E c \in Commands : Queue(c)
           \/ SeedFails \/ SeedSkipped
           \/ Disconnect \/ Reconnect \/ ReadPending
           \/ \E p \in Pollers : Forget(p)
  BY <1>1 DEF Answers, Queue, SeedFails, SeedSkipped, Disconnect, Reconnect,
              ReadPending, Forget
<1>2. CASE Clock
  <2>1. \A j \in jobs : j.stage = "running"
    BY <1>2 DEF Clock, HourPasses, DayPasses, Quiet
  <2>2. UNCHANGED <<completed, jobs, lane>>
    BY <1>2 DEF Clock, HourPasses, DayPasses
  <2> QED
    BY <2>1, <2>2 DEF Answers
<1>3. CASE Seed
  <2> DEFINE S == {d \in Commands : completed[d] = "running"}
  <2>1. /\ jobs' = jobs \cup {Job(c, "start", "reporting") : c \in S}
        /\ UNCHANGED <<completed, aged, lane>>
    BY <1>3 DEF Seed
  <2>2. S \in SUBSET Commands
    OBVIOUS
  <2> HIDE DEF S
  <2> QED
    BY <2>1, <2>2, NewJobs DEF Answers, Threads, Stages
<1>4. ASSUME NEW p \in Pollers, NEW c \in Commands, Consider(p, c)
      PROVE  Answers'
  <2>1. UNCHANGED <<completed, aged>>
    BY <1>4 DEF Consider
  <2>2. CASE UNCHANGED <<lane, jobs>>
    BY <2>1, <2>2 DEF Answers
  <2>3. CASE Dispatch(c)
    <3>1. CASE /\ UNCHANGED lane
               /\ \/ jobs' = jobs \cup {Job(c, "fast", "marking")}
                  \/ jobs' = jobs \cup {Job(c, "poll", "reporting")}
      <4>1. {c} \in SUBSET Commands
        OBVIOUS
      <4>2. PICK t \in Threads, g \in Stages \ {"dropping"} :
              jobs' = jobs \cup {Job(c, t, g)}
        BY <3>1 DEF Threads, Stages
      <4>3. jobs' = jobs \cup {Job(d, t, g) : d \in {c}}
        BY <4>2
      <4>4. lane' \in Seq(Commands)
        BY <3>1 DEF Answers
      <4> QED
        BY <2>1, <4>1, <4>3, <4>4, NewJobs
    <3>2. CASE lane' = Append(lane, c) /\ UNCHANGED jobs
      <4>1. lane' \in Seq(Commands)
        BY <3>2 DEF Answers
      <4> QED
        BY <2>1, <3>2, <4>1 DEF Answers
    <3> QED
      BY <2>3, <3>1, <3>2 DEF Dispatch
  <2> QED
    BY <1>4, <2>2, <2>3 DEF Consider
<1>5. CASE TakeSlow
  <2>1. /\ lane # <<>> /\ lane' = Tail(lane)
        /\ jobs' = jobs \cup {Job(Head(lane), "slow", "marking")}
        /\ UNCHANGED <<completed, aged>>
    BY <1>5 DEF TakeSlow
  <2>2. Head(lane) \in Commands /\ lane' \in Seq(Commands)
    BY <2>1 DEF Answers
  <2>3. {Head(lane)} \in SUBSET Commands
    BY <2>2
  <2>4. {Job(Head(lane), "slow", "marking")}
          = {Job(d, "slow", "marking") : d \in {Head(lane)}}
    OBVIOUS
  <2> QED
    BY <2>1, <2>2, <2>3, <2>4, NewJobs DEF Threads, Stages
<1>6. CASE Cleanup
  <2>1. /\ completed' = [c \in Commands |->
                           IF c \in aged.completed THEN "none"
                                                   ELSE completed[c]]
        /\ aged'.completed = {} /\ UNCHANGED <<lane, jobs>>
    BY <1>6 DEF Cleanup
  <2>2. \A j \in jobs : j.id \in Commands
    BY DEF Answers, Jobs
  <2> QED
    BY <2>1, <2>2 DEF Answers
<1>7. CASE Restart
  BY <1>7 DEF Answers, Restart
<1> QED
  BY <1>1, <1>2, <1>3, <1>4, <1>5, <1>6, <1>7 DEF Handle

(* Every step keeps Answers.                                               *)
LEMMA AnswersStep == Answers /\ [Next]_vars => Answers'
<1> SUFFICES ASSUME Answers, [Next]_vars PROVE Answers'
  OBVIOUS
<1>1. CASE UNCHANGED vars
  BY <1>1 DEF Answers
<1>2. CASE Next
  BY <1>2, AnswersExecute, AnswersElsewhere DEF Next
<1> QED
  BY <1>1, <1>2

(* Only an answering thread and the cleaning take anything out of pending. *)
LEMMA LeavesWithAnswer ==
  ASSUME Answers, Next, NEW c \in pending \ pending'
  PROVE  c \in Recorded \cup Stale
<1>1. CASE Cleanup
  BY <1>1 DEF Cleanup
<1>2. ASSUME NEW d \in Commands, Execute(d)
      PROVE  c \in Recorded
  <2>1. PICK j \in jobs : Drop(j)
    BY <1>2 DEF Execute, MarkRunning, MarkFails, RunCommand, Report,
                ReportFails, DropFails
  <2>2. c = j.id /\ j.stage = "dropping" /\ j.id \in Commands
    BY <2>1 DEF Drop, Answers, Jobs
  <2> QED
    BY <2>2 DEF Answers, Recorded
<1>3. CASE ~Cleanup /\ ~\E d \in Commands : Execute(d)
  <2>1. \/ \E d \in Commands : Queue(d)
        \/ Clock \/ Restart \/ Seed \/ SeedFails \/ SeedSkipped
        \/ Disconnect \/ Reconnect \/ ReadPending
        \/ \E p \in Pollers : Handle(p)
        \/ TakeSlow
    BY <1>3 DEF Next
  <2>2. pending \subseteq pending'
    BY <2>1 DEF Queue, Clock, HourPasses, DayPasses, Restart, Seed, SeedFails,
                SeedSkipped, Disconnect, Reconnect, ReadPending, Handle,
                Consider, Forget, TakeSlow
  <2> QED
    BY <2>2
<1> QED
  BY <1>1, <1>2, <1>3

(* A command leaves the pending document only when the completed one has   *)
(* an entry for it or when it is over an hour old, whatever fails and      *)
(* whenever the process dies.                                              *)
THEOREM NothingIsLost == Spec => NothingLost
<1>1. Answers /\ [Next]_vars
        => [\A c \in pending \ pending' : c \in Recorded \cup Stale]_vars
  BY LeavesWithAnswer
<1> QED
  BY <1>1, AnswersInit, AnswersStep, PTL DEF Spec, NothingLost

----------------------------------------------------------------------------
(* Type correctness, in the parts that the steps disturb.                  *)
Known ==
  /\ pending \subseteq issued /\ issued \subseteq Commands
  /\ Recorded \subseteq issued /\ spoiled \subseteq issued
  /\ \A j \in jobs : j.id \in issued

Clocks == aged \in [pending : SUBSET pending, completed : SUBSET Recorded]

Reading(p) == \/ poll[p] = Idle
              \/ /\ poll[p].todo \subseteq poll[p].ids
                 /\ poll[p].ids \subseteq issued

Polls ==
  /\ seen \subseteq issued
  /\ lastRead = NotRead \/ lastRead \subseteq issued
  /\ poll \in [Pollers -> [ids : (SUBSET Commands) \cup {NotRead},
                         todo : SUBSET Commands]]
  /\ \A p \in Pollers : Reading(p)

Roomy == /\ Len(lane) <= QueueMax
         /\ \A i \in 1 .. Len(lane) : lane[i] \in issued \ Fast

OneSlow == \A j, k \in jobs : j.thread = "slow" /\ k.thread = "slow" => j = k

Rest == /\ boot \in {"booting", "up"} /\ connected \in BOOLEAN
        /\ faults \in 0 .. MaxFaults

Typed == Answers /\ Known /\ Clocks /\ Polls /\ Roomy /\ OneSlow /\ Rest

(* Nothing is queued, read or run at the start.                            *)
LEMMA TypedInit == Init => Typed
<1> SUFFICES ASSUME Init PROVE Typed
  OBVIOUS
<1>1. Known /\ Clocks
  BY DEF Init, Known, Clocks, Recorded
<1>2. Polls
  BY DEF Init, Polls, Reading, Idle
<1>3. Roomy /\ OneSlow /\ Rest
  BY DeliveryAssumption DEF Init, Roomy, OneSlow, Rest
<1> QED
  BY <1>1, <1>2, <1>3, AnswersInit DEF Typed

(* The steps that a command's own thread takes, one by one.                *)
LEMMA Executing ==
  ASSUME NEW c \in Commands, Execute(c)
  PROVE  \E j \in jobs : \/ MarkRunning(j) \/ MarkFails(j) \/ RunCommand(j)
                        \/ Report(j) \/ Drop(j)
                        \/ ReportFails(j) \/ DropFails(j)
BY DEF Execute

(* A thread that goes on works on the same command, and stays the only one *)
(* on the slow lane.                                                       *)
LEMMA GoesOn ==
  ASSUME Answers, OneSlow, NEW j \in jobs, NEW g \in Stages, Advance(j, g)
  PROVE  /\ OneSlow'
         /\ \A S : (\A k \in jobs : k.id \in S) => \A k \in jobs' : k.id \in S
<1> DEFINE n == [j EXCEPT !.stage = g]
<1>1. n.id = j.id /\ n.thread = j.thread
  BY DEF Answers, Jobs
<1>2. jobs' = (jobs \ {j}) \cup {n}
  BY DEF Advance
<1> HIDE DEF n
<1> QED
  BY <1>1, <1>2 DEF OneSlow

(* What is known stays known: ids come from the backend, and from nowhere  *)
(* else.                                                                   *)
LEMMA KnownStep == Typed /\ [Next]_vars => Known'
<1> SUFFICES ASSUME Typed, [Next]_vars PROVE Known'
  OBVIOUS
<1> USE DEF Typed, Known
<1>1. CASE UNCHANGED vars
  BY <1>1 DEF Recorded
<1>2. ASSUME NEW c \in Commands, Queue(c) PROVE Known'
  BY <1>2 DEF Queue, Recorded
<1>3. CASE \/ Clock \/ Restart \/ SeedFails \/ SeedSkipped \/ Disconnect
           \/ Reconnect \/ ReadPending \/ \E p \in Pollers : Forget(p)
  BY <1>3 DEF Clock, HourPasses, DayPasses, Restart, SeedFails, SeedSkipped,
              Disconnect, Reconnect, ReadPending, Forget, Recorded
<1>4. CASE Seed
  <2>1. UNCHANGED <<pending, issued, completed, spoiled>>
    BY <1>4 DEF Seed
  <2>2. \A j \in jobs' : j \in jobs \/ j.id \in Recorded
    BY <1>4 DEF Seed, Job, Recorded
  <2> QED
    BY <2>1, <2>2 DEF Recorded
<1>5. ASSUME NEW p \in Pollers, NEW c \in Commands, Consider(p, c)
      PROVE  Known'
  <2>1. UNCHANGED <<pending, issued, completed, spoiled>>
    BY <1>5 DEF Consider
  <2>2. c \in issued
    BY <1>5 DEF Consider, Polls, Reading, Idle
  <2>3. \A j \in jobs' : j \in jobs \/ j.id = c
    BY <1>5 DEF Consider, Dispatch, Job
  <2> QED
    BY <2>1, <2>2, <2>3 DEF Recorded
<1>6. CASE TakeSlow
  <2>1. /\ UNCHANGED <<pending, issued, completed, spoiled>>
        /\ \A j \in jobs' : j \in jobs \/ j.id = Head(lane)
    BY <1>6 DEF TakeSlow, Job
  <2>2. Head(lane) \in issued
    BY <1>6 DEF TakeSlow, Roomy, Answers
  <2> QED
    BY <2>1, <2>2 DEF Recorded
<1>7. CASE Cleanup
  BY <1>7 DEF Cleanup, Recorded
<1>8. ASSUME NEW c \in Commands, Execute(c) PROVE Known'
  <2>1. PICK j \in jobs : \/ MarkRunning(j) \/ MarkFails(j)
                         \/ RunCommand(j) \/ Report(j) \/ Drop(j)
                         \/ ReportFails(j) \/ DropFails(j)
    BY <1>8, Executing
  <2>2. j.id \in issued /\ j.id \in Commands
    OBVIOUS
  <2>3. CASE MarkRunning(j) \/ MarkFails(j) \/ RunCommand(j) \/ Report(j)
    <3>1. \E g \in Stages : Advance(j, g)
      BY <2>3 DEF MarkRunning, MarkFails, RunCommand, Report, Stages
    <3>2. \A k \in jobs' : k.id \in issued
      BY <3>1, GoesOn
    <3>3. UNCHANGED <<pending, issued, spoiled>>
      BY <2>3 DEF MarkRunning, MarkFails, RunCommand, Report
    <3>4. Recorded' \subseteq Recorded \cup {j.id}
      BY <2>3 DEF MarkRunning, MarkFails, RunCommand, Report, Recorded,
                  Answers
    <3> QED
      BY <2>2, <3>2, <3>3, <3>4
  <2>4. CASE Drop(j) \/ ReportFails(j) \/ DropFails(j)
    BY <2>2, <2>4 DEF Drop, ReportFails, DropFails, Ends, Recorded
  <2> QED
    BY <2>1, <2>3, <2>4
<1> QED
  BY <1>1, <1>2, <1>3, <1>4, <1>5, <1>6, <1>7, <1>8 DEF Next, Handle

(* Only what is there is old.                                              *)
LEMMA ClocksStep == Typed /\ [Next]_vars => Clocks'
<1> SUFFICES ASSUME Typed, [Next]_vars PROVE Clocks'
  OBVIOUS
<1> USE DEF Typed
<1>1. CASE UNCHANGED <<pending, completed, aged>>
  BY <1>1 DEF Clocks, Recorded
<1>2. ASSUME NEW c \in Commands, Queue(c) PROVE Clocks'
  BY <1>2 DEF Queue, Clocks, Recorded
<1>3. CASE Clock
  BY <1>3 DEF Clock, HourPasses, DayPasses, Clocks, Recorded
<1>4. CASE Cleanup
  <2>1. /\ aged' = [pending |-> aged.pending \ Stale, completed |-> {}]
        /\ pending' = pending \ Stale
    BY <1>4 DEF Cleanup
  <2> QED
    BY <2>1 DEF Clocks
<1>5. ASSUME NEW c \in Commands, Execute(c) PROVE Clocks'
  <2>1. PICK j \in jobs : \/ MarkRunning(j) \/ MarkFails(j)
                         \/ RunCommand(j) \/ Report(j) \/ Drop(j)
                         \/ ReportFails(j) \/ DropFails(j)
    BY <1>5, Executing
  <2>2. CASE MarkRunning(j)
    <3>1. Recorded \subseteq Recorded' /\ UNCHANGED <<pending, aged>>
      BY <2>2 DEF MarkRunning, Recorded, Answers
    <3> QED
      BY <3>1 DEF Clocks
  <2>3. CASE Report(j)
    <3>1. Recorded \subseteq Recorded' /\ UNCHANGED pending
      BY <2>3 DEF Report, Recorded, Answers
    <3>2. aged' = [aged EXCEPT !.completed = @ \ {j.id}]
      BY <2>3 DEF Report
    <3> QED
      BY <3>1, <3>2 DEF Clocks
  <2>4. CASE Drop(j)
    BY <2>4 DEF Drop, Clocks, Recorded
  <2>5. CASE MarkFails(j) \/ RunCommand(j) \/ ReportFails(j) \/ DropFails(j)
    BY <1>1, <2>5 DEF MarkFails, RunCommand, ReportFails, DropFails
  <2> QED
    BY <2>1, <2>2, <2>3, <2>4, <2>5
<1>6. CASE \/ Restart \/ Seed \/ SeedFails \/ SeedSkipped \/ Disconnect
           \/ Reconnect \/ ReadPending \/ \E p \in Pollers : Handle(p)
           \/ TakeSlow \/ UNCHANGED vars
  BY <1>1, <1>6 DEF Restart, Seed, SeedFails, SeedSkipped, Disconnect,
     Reconnect, ReadPending, Handle, Consider, Forget, TakeSlow
<1> QED
  BY <1>2, <1>3, <1>4, <1>5, <1>6 DEF Next

(* Pollers and the seen set hold ids the backend has queued.               *)
LEMMA PollsStep == Typed /\ [Next]_vars => Polls'
<1> SUFFICES ASSUME Typed, [Next]_vars PROVE Polls'
  OBVIOUS
<1> USE DEF Typed
<1>1. CASE /\ UNCHANGED <<lastRead, poll>>
           /\ seen' \subseteq issued' /\ issued \subseteq issued'
  BY <1>1 DEF Polls, Reading
<1>2. ASSUME NEW c \in Commands, Queue(c) PROVE Polls'
  BY <1>1, <1>2 DEF Queue, Polls
<1>3. CASE Clock \/ SeedFails \/ SeedSkipped \/ Reconnect \/ TakeSlow
           \/ (\E c \in Commands : Execute(c)) \/ UNCHANGED vars
  BY <1>1, <1>3 DEF Clock, HourPasses, DayPasses, SeedFails, SeedSkipped,
     Reconnect, TakeSlow, Execute, MarkRunning, MarkFails, RunCommand,
     Report, Drop, ReportFails, DropFails, Polls
<1>4. CASE Seed \/ Cleanup
  BY <1>1, <1>4 DEF Seed, Cleanup, Polls, Known
<1>5. CASE Restart
  BY <1>5 DEF Restart, Polls, Reading, Idle
<1>6. CASE Disconnect
  <2>1. /\ poll' = [live |-> Idle, stopped |-> poll["live"]]
        /\ lastRead' = NotRead /\ UNCHANGED <<seen, issued>>
    BY <1>6 DEF Disconnect
  <2>2. poll["live"] \in [ids : (SUBSET Commands) \cup {NotRead},
                         todo : SUBSET Commands]
    BY DEF Polls, Pollers
  <2>3. Idle \in [ids : (SUBSET Commands) \cup {NotRead},
                 todo : SUBSET Commands]
    BY DEF Idle
  <2>4. /\ poll'["live"] = Idle /\ poll'["stopped"] = poll["live"]
        /\ poll' \in [Pollers -> [ids : (SUBSET Commands) \cup {NotRead},
                                todo : SUBSET Commands]]
    BY <2>1, <2>2, <2>3 DEF Pollers
  <2> QED
    BY <2>1, <2>4 DEF Polls, Reading, Pollers
<1>7. CASE ReadPending
  <2>1. /\ lastRead' = pending /\ UNCHANGED <<seen, issued>>
        /\ pending \subseteq issued /\ pending \subseteq Commands
    BY <1>7 DEF ReadPending, Known
  <2>2. CASE poll' = poll
    BY <2>1, <2>2 DEF Polls, Reading
  <2>3. CASE poll' = [poll EXCEPT !["live"] = [ids |-> pending,
                                               todo |-> pending]]
    BY <2>1, <2>3 DEF Polls, Reading, Pollers
  <2> QED
    BY <1>7, <2>2, <2>3 DEF ReadPending
<1>8. ASSUME NEW p \in Pollers, NEW c \in Commands, Consider(p, c)
      PROVE  Polls'
  <2>1. /\ c \in poll[p].todo /\ UNCHANGED <<lastRead, issued>>
        /\ poll' = [poll EXCEPT ![p].todo = @ \ {c}]
    BY <1>8 DEF Consider
  <2>2. c \in issued /\ poll[p] # Idle
    BY <2>1 DEF Polls, Reading, Idle
  <2>3. seen' \subseteq issued'
    BY <1>8, <2>1, <2>2 DEF Consider, Polls
  <2>4. /\ poll'[p].ids = poll[p].ids
        /\ poll'[p].todo = poll[p].todo \ {c}
        /\ \A q \in Pollers \ {p} : poll'[q] = poll[q]
        /\ poll' \in [Pollers -> [ids : (SUBSET Commands) \cup {NotRead},
                                todo : SUBSET Commands]]
    BY <2>1 DEF Polls
  <2> QED
    BY <2>1, <2>2, <2>3, <2>4 DEF Polls, Reading
<1>9. ASSUME NEW p \in Pollers, Forget(p) PROVE Polls'
  <2>1. /\ seen' \subseteq seen /\ UNCHANGED <<lastRead, issued>>
        /\ poll' = [poll EXCEPT ![p] = Idle]
    BY <1>9 DEF Forget
  <2> QED
    BY <2>1 DEF Polls, Reading, Idle
<1> QED
  BY <1>2, <1>3, <1>4, <1>5, <1>6, <1>7, <1>8, <1>9 DEF Next, Handle

(* The lane holds slow commands and no more than it has room for.          *)
LEMMA RoomyStep == Typed /\ [Next]_vars => Roomy'
<1> SUFFICES ASSUME Typed, [Next]_vars PROVE Roomy'
  OBVIOUS
<1> USE DEF Typed
<1>1. CASE UNCHANGED lane /\ issued \subseteq issued'
  BY <1>1 DEF Roomy
<1>2. CASE \/ Clock \/ Seed \/ SeedFails \/ SeedSkipped \/ Disconnect
           \/ Reconnect \/ ReadPending \/ Cleanup \/ UNCHANGED vars
           \/ \E p \in Pollers : Forget(p)
           \/ \E c \in Commands : Queue(c) \/ Execute(c)
  BY <1>1, <1>2 DEF Clock, HourPasses, DayPasses, Seed, SeedFails,
     SeedSkipped, Disconnect, Reconnect, ReadPending, Cleanup, Forget, Queue,
     Execute, MarkRunning, MarkFails, RunCommand, Report, Drop, ReportFails,
     DropFails
<1>3. CASE Restart
  BY <1>3, DeliveryAssumption DEF Restart, Roomy
<1>4. ASSUME NEW p \in Pollers, NEW c \in Commands, Consider(p, c)
      PROVE  Roomy'
  <2>1. c \in issued /\ UNCHANGED issued
    BY <1>4 DEF Consider, Polls, Reading, Idle
  <2>2. CASE UNCHANGED lane
    BY <1>1, <2>1, <2>2
  <2>3. CASE c \notin Fast /\ Len(lane) < QueueMax /\ lane' = Append(lane, c)
    <3>1. /\ lane \in Seq(Commands) /\ Len(lane') = Len(lane) + 1
          /\ \A i \in 1 .. Len(lane) : lane'[i] = lane[i]
          /\ lane'[Len(lane) + 1] = c
      BY <2>3 DEF Answers
    <3>2. Len(lane') <= QueueMax
      BY <2>3, <3>1, DeliveryAssumption
    <3>3. \A i \in 1 .. Len(lane') : i \in 1 .. Len(lane) \/ i = Len(lane) + 1
      BY <3>1
    <3> QED
      BY <2>1, <2>3, <3>1, <3>2, <3>3 DEF Roomy
  <2> QED
    BY <1>4, <2>2, <2>3 DEF Consider, Dispatch
<1>5. CASE TakeSlow
  <2>1. /\ lane # <<>> /\ lane' = Tail(lane) /\ UNCHANGED issued
        /\ lane \in Seq(Commands)
    BY <1>5 DEF TakeSlow, Answers
  <2>2. /\ Len(lane') = Len(lane) - 1
        /\ \A i \in 1 .. Len(lane') : lane'[i] = lane[i + 1]
    BY <2>1
  <2>3. Len(lane) \in Nat /\ Len(lane) <= QueueMax
    BY <2>1 DEF Roomy
  <2>4. Len(lane') <= QueueMax
    BY <2>2, <2>3, DeliveryAssumption
  <2>5. \A i \in 1 .. Len(lane') : i + 1 \in 1 .. Len(lane)
    BY <2>2, <2>3
  <2>6. \A i \in 1 .. Len(lane') : lane'[i] \in issued \ Fast
    BY <2>2, <2>5 DEF Roomy
  <2> QED
    BY <2>1, <2>4, <2>6 DEF Roomy
<1> QED
  BY <1>2, <1>3, <1>4, <1>5 DEF Next, Handle

(* Only the worker of the slow lane starts a command on it, and only when  *)
(* it has none.                                                            *)
LEMMA OneSlowStep == Typed /\ [Next]_vars => OneSlow'
<1> SUFFICES ASSUME Typed, [Next]_vars PROVE OneSlow'
  OBVIOUS
<1> USE DEF Typed
<1>1. CASE \A j \in jobs' : j \in jobs \/ j.thread # "slow"
  BY <1>1 DEF OneSlow
<1>2. CASE \/ Clock \/ Restart \/ SeedFails \/ SeedSkipped \/ Disconnect
           \/ Reconnect \/ ReadPending \/ Cleanup \/ UNCHANGED vars
           \/ \E p \in Pollers : Forget(p)
           \/ \E c \in Commands : Queue(c)
  BY <1>1, <1>2 DEF Clock, HourPasses, DayPasses, Restart, SeedFails,
     SeedSkipped, Disconnect, Reconnect, ReadPending, Cleanup, Forget, Queue
<1>3. CASE Seed
  BY <1>1, <1>3 DEF Seed, Job
<1>4. ASSUME NEW p \in Pollers, NEW c \in Commands, Consider(p, c)
      PROVE  OneSlow'
  BY <1>1, <1>4 DEF Consider, Dispatch, Job
<1>5. CASE TakeSlow
  <2>1. /\ \A j \in jobs : j.thread # "slow"
        /\ jobs' = jobs \cup {Job(Head(lane), "slow", "marking")}
    BY <1>5 DEF TakeSlow
  <2> QED
    BY <2>1 DEF OneSlow
<1>6. ASSUME NEW c \in Commands, Execute(c) PROVE OneSlow'
  <2>1. PICK j \in jobs : \/ MarkRunning(j) \/ MarkFails(j)
                         \/ RunCommand(j) \/ Report(j) \/ Drop(j)
                         \/ ReportFails(j) \/ DropFails(j)
    BY <1>6, Executing
  <2>2. CASE MarkRunning(j) \/ MarkFails(j) \/ RunCommand(j) \/ Report(j)
    <3>1. \E g \in Stages : Advance(j, g)
      BY <2>2 DEF MarkRunning, MarkFails, RunCommand, Report, Stages
    <3> QED
      BY <3>1, GoesOn
  <2>3. CASE Drop(j) \/ ReportFails(j) \/ DropFails(j)
    BY <1>1, <2>3 DEF Drop, ReportFails, DropFails, Ends
  <2> QED
    BY <2>1, <2>2, <2>3
<1> QED
  BY <1>2, <1>3, <1>4, <1>5, <1>6 DEF Next, Handle

(* Flags are flags, and faults are counted up to their bound.              *)
LEMMA RestStep == Typed /\ [Next]_vars => Rest'
<1> SUFFICES ASSUME Typed, [Next]_vars PROVE Rest'
  OBVIOUS
<1> USE DEF Typed
<1>1. \/ faults' = faults
      \/ faults < MaxFaults /\ faults' = faults + 1
  BY DEF Next, Queue, Clock, HourPasses, DayPasses, Restart, Seed, SeedFails,
     SeedSkipped, Disconnect, Reconnect, ReadPending, Handle, Consider,
     Forget, TakeSlow, Execute, MarkRunning, MarkFails, RunCommand, Report,
     Drop, ReportFails, DropFails, Cleanup, Fault
<1>2. faults' \in 0 .. MaxFaults
  BY <1>1, DeliveryAssumption DEF Rest
<1>3. boot' \in {"booting", "up"} /\ connected' \in BOOLEAN
  BY DEF Rest, Next, Queue, Clock, HourPasses, DayPasses, Restart, Seed,
     SeedFails, SeedSkipped, Disconnect, Reconnect, ReadPending, Handle,
     Consider, Forget, TakeSlow, Execute, MarkRunning, MarkFails, RunCommand,
     Report, Drop, ReportFails, DropFails, Cleanup
<1> QED
  BY <1>2, <1>3 DEF Rest

(* Whatever is queued, fails, dies or is polled twice: documents, seen set *)
(* and pollers hold ids the backend has queued, the lane keeps within its  *)
(* room, and its one worker has one command at a time.                     *)
THEOREM TypeCorrect == Spec => []TypeOK
<1>1. Typed /\ [Next]_vars => Typed'
  BY AnswersStep, KnownStep, ClocksStep, PollsStep, RoomyStep, OneSlowStep,
     RestStep DEF Typed
<1>2. Typed => TypeOK
  BY DEF Typed, TypeOK, Answers, Known, Clocks, Polls, Reading, Roomy, OneSlow,
         Rest
<1> QED
  BY <1>1, <1>2, TypedInit, PTL DEF Spec

----------------------------------------------------------------------------
(* Repetition.                                                             *)

(* A command the poller has forgotten is gone from the document and from   *)
(* what is read of it: it can come back only by way of the stopped poller. *)
Gone(c) == c \notin pending /\ c \notin poll["live"].todo

Remembered ==
  /\ dispatched \subseteq issued
  /\ \A c \in dispatched : c \in seen \/ c \in slipped \/ Gone(c)
  /\ poll["live"] # Idle =>
       dispatched \cap pending \subseteq poll["live"].ids \cup slipped
  /\ OncePerProcess

(* A step that leaves the pollers alone dispatches nothing, and what it    *)
(* takes from the seen set has slipped.                                    *)
LEMMA PollersRest ==
  ASSUME Remembered, Observe, ~Restart, UNCHANGED poll,
         issued \subseteq issued', pending' \cap issued \subseteq pending
  PROVE  Remembered'
<1>1. /\ dispatched' = dispatched /\ repeated' = repeated
      /\ slipped \cup (seen \ seen') \subseteq slipped'
  BY DEF Observe, Dispatched, Unlearnt
<1> QED
  BY <1>1 DEF Remembered, OncePerProcess, Gone

(* Reading and losing the connection: a command still in the document is   *)
(* read with it, and one that is gone is not.                              *)
LEMMA ReadsRemember ==
  ASSUME Typed, Remembered, Observe, ~Restart, ReadPending \/ Disconnect
  PROVE  Remembered'
<1>1. /\ UNCHANGED <<pending, seen, issued>>
      /\ poll'["live"] = Idle \/ poll' = poll
         \/ poll'["live"] = [ids |-> pending, todo |-> pending]
  BY DEF ReadPending, Disconnect, Typed, Polls, Pollers
<1>2. /\ dispatched' = dispatched /\ repeated' = repeated
      /\ slipped \subseteq slipped'
  BY <1>1 DEF Observe, Dispatched
<1> QED
  BY <1>1, <1>2 DEF Remembered, OncePerProcess, Gone, Idle

(* A command is dispatched when it is not in the seen set: for the second  *)
(* time only if it has slipped, since it is not gone.                      *)
LEMMA ConsiderRemembers ==
  ASSUME Typed, Remembered, Observe, ~Restart,
         NEW p \in Pollers, NEW c \in Commands, Consider(p, c)
  PROVE  Remembered'
<1>1. /\ UNCHANGED <<pending, issued>>
      /\ c \in poll[p].todo /\ c \in issued
      /\ c \in poll[p].ids /\ poll[p] # Idle
      /\ seen' = seen \cup {c}
  BY DEF Consider, Typed, Polls, Reading, Idle
<1>2. /\ \A q \in Pollers : poll'[q].ids = poll[q].ids
      /\ \A q \in Pollers : poll'[q].todo \subseteq poll[q].todo
      /\ c \notin poll'[p].todo
      /\ \A q \in Pollers : poll[q] = Idle => poll'[q] = Idle
  BY <1>1 DEF Consider, Typed, Polls, Idle
<1>3. Dispatched \subseteq {c} /\ (c \in Dispatched => c \notin seen)
  BY <1>1 DEF Dispatched
<1>4. /\ dispatched' = dispatched \cup Dispatched
      /\ repeated' = repeated \cup (dispatched \cap Dispatched)
      /\ slipped \subseteq slipped'
      /\ p = "stopped" => c \in slipped'
  BY <1>1, <1>2 DEF Observe, HandledLate
<1>5. dispatched \cap Dispatched \subseteq slipped'
  BY <1>1, <1>3, <1>4 DEF Remembered, Gone, Pollers
<1>6. OncePerProcess'
  BY <1>4, <1>5 DEF Remembered, OncePerProcess
<1>7. poll'["live"] # Idle =>
        dispatched' \cap pending' \subseteq poll'["live"].ids \cup slipped'
  BY <1>1, <1>2, <1>3, <1>4 DEF Remembered, Pollers
<1>8. \A d \in dispatched' : d \in seen' \/ d \in slipped' \/ Gone(d)'
  BY <1>1, <1>2, <1>3, <1>4 DEF Remembered, Gone, Pollers
<1> QED
  BY <1>1, <1>3, <1>4, <1>6, <1>7, <1>8 DEF Remembered

(* The live poller forgets what is gone from the document it has read; a   *)
(* stopped one makes the process unlearn it.                               *)
LEMMA ForgetRemembers ==
  ASSUME Typed, Remembered, Observe, ~Restart,
         NEW p \in Pollers, Forget(p)
  PROVE  Remembered'
<1>1. /\ UNCHANGED <<pending, issued>>
      /\ poll[p].ids # NotRead /\ poll[p].todo = {} /\ poll'[p] = Idle
      /\ \A q \in Pollers : q # p => poll'[q] = poll[q]
      /\ seen' = seen \cap poll[p].ids
  BY DEF Forget, Typed, Polls
<1>2. /\ dispatched' = dispatched /\ repeated' = repeated
      /\ slipped \subseteq slipped'
      /\ p = "stopped" => seen \ seen' \subseteq slipped'
  BY <1>1 DEF Observe, Dispatched, Unlearnt, Pollers
<1>3. poll[p] # Idle
  BY <1>1 DEF Idle
<1>4. CASE p = "live"
  BY <1>1, <1>2, <1>3, <1>4 DEF Remembered, OncePerProcess, Gone, Idle
<1>5. CASE p = "stopped"
  BY <1>1, <1>2, <1>5 DEF Remembered, OncePerProcess, Gone, Pollers
<1> QED
  BY <1>4, <1>5 DEF Pollers

(* Every step that is observed keeps Remembered.                           *)
LEMMA RememberedStep ==
  Typed /\ Remembered /\ [Next /\ Observe]_<<vars, observed>> => Remembered'
<1> SUFFICES ASSUME Typed, Remembered, [Next /\ Observe]_<<vars, observed>>
             PROVE  Remembered'
  OBVIOUS
<1>1. CASE UNCHANGED <<vars, observed>>
  BY <1>1 DEF observed, Remembered, OncePerProcess, Gone
<1>2. CASE Restart /\ Observe
  BY <1>2 DEF Restart, Observe, Remembered, OncePerProcess
<1>3. ASSUME Next, Observe, ~Restart PROVE Remembered'
  <2>1. CASE ReadPending \/ Disconnect
    BY <1>3, <2>1, ReadsRemember
  <2>2. CASE \E p \in Pollers : Handle(p)
    BY <1>3, <2>2, ConsiderRemembers, ForgetRemembers DEF Handle
  <2>3. ASSUME NEW c \in Commands, Queue(c) PROVE Remembered'
    BY <1>3, <2>3, PollersRest DEF Queue
  <2>4. ASSUME NEW c \in Commands, Execute(c) PROVE Remembered'
    <3>1. UNCHANGED <<poll, issued>> /\ pending' \subseteq pending
      BY <2>4 DEF Execute, MarkRunning, MarkFails, RunCommand, Report, Drop,
         ReportFails, DropFails
    <3> QED
      BY <1>3, <3>1, PollersRest
  <2>5. CASE \/ Clock \/ Seed \/ SeedFails \/ SeedSkipped \/ Reconnect
             \/ TakeSlow \/ Cleanup
    <3>1. UNCHANGED <<poll, issued>> /\ pending' \subseteq pending
      BY <2>5 DEF Clock, HourPasses, DayPasses, Seed, SeedFails, SeedSkipped,
         Reconnect, TakeSlow, Cleanup
    <3> QED
      BY <1>3, <3>1, PollersRest
  <2> QED
    BY <1>3, <2>1, <2>2, <2>3, <2>4, <2>5 DEF Next
<1> QED
  BY <1>1, <1>2, <1>3

(* A process dispatches a command once, unless the seeding or the cleaning *)
(* has made it unlearn the id, or a stopped poller has handled it.         *)
THEOREM NothingIsRepeated == HistSpec => []OncePerProcess
<1>1. Typed /\ [Next]_vars => Typed'
  BY AnswersStep, KnownStep, ClocksStep, PollsStep, RoomyStep, OneSlowStep,
     RestStep DEF Typed
<1>2. [Next /\ Observe]_<<vars, observed>> => [Next]_vars
  OBVIOUS
<1>3. HistInit => Typed /\ Remembered
  BY TypedInit DEF HistInit, Remembered, OncePerProcess
<1>4. Remembered => OncePerProcess
  BY DEF Remembered
<1> QED
  BY <1>1, <1>2, <1>3, <1>4, RememberedStep, PTL DEF HistSpec
=============================================================================

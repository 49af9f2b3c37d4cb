------------------------- MODULE SupervisionProofs -------------------------
(***************************************************************************)
(* For any threads, pids and bounds: the variables keep their types, no    *)
(* program of somebody else is ended, where an instance can be told there  *)
(* is a second one only after an overlap, and without an overlap a reboot  *)
(* is proposed only once more has gone wrong or been commanded than        *)
(* relaunch_attempts, and a process that was killed stays down.            *)
(***************************************************************************)
EXTENDS Supervision, FiniteSetTheorems, TLAPS

(* A thread that is about to use a pid has one, and one that is about to   *)
(* apply a mode has a mode.                                                *)
Needy == {"alive", "seize", "term", "record", "finish"}
Fits(at, cmd, p) == /\ at \in Needy => p \in Pids
                    /\ at = "apply" => cmd \in Modes
Fitting == \A t \in Threads : Fits(job[t].at, job[t].cmd, job[t].pid)

(* The parts of TypeOK, as the steps disturb them.                         *)
JobsTyped ==
  /\ job \in [Threads -> Job] /\ Fitting
  /\ first \in BOOLEAN /\ overlapped \in BOOLEAN
TablesTyped == os \in [Pids -> {"free", "ours", "other"}]
               /\ rows \in [Pids -> Row]
Marked == last_started \in Marks \cup {Tracking(p) : p \in Pids}
Budgeted == attempts \in 0..(RELAUNCHES + 1)
RestTyped ==
  /\ mode \in Modes /\ seen \in Modes \cup {"unset"}
  /\ lock \in Threads \cup {NoThread}
  /\ install_lock \in BOOLEAN /\ prompt \in BOOLEAN

Typed == JobsTyped /\ TablesTyped /\ Marked /\ Budgeted /\ RestTyped

(* A record that matches tells the truth.                                  *)
Honest == \A p \in Pids : rows[p].record = "match" => os[p] = "ours"

(* What is being ended is not somebody else's.                             *)
Held == \A t \in Threads : job[t].at = "term" => os[job[t].pid] # "other"

Others(t) == \A u \in Threads \ {t} : job'[u] = job[u]

(* A change of the rows that claims no new record.                         *)
Softened(s) ==
  /\ s \in [Pids -> Row]
  /\ \A p \in Pids : s[p].record = "match" => rows[p].record = "match"

-----------------------------------------------------------------------------
(* The ways in which a thread moves. One that goes on to another place     *)
(* keeps what it executes.                                                 *)
LEMMA Going ==
  ASSUME JobsTyped, NEW t \in Threads, NEW at \in Places,
         NEW p \in Pids \cup {NoPid}, Go(t, at, p),
         at # "apply", at \in Needy => p \in Pids
  PROVE  /\ JobsTyped' /\ Others(t)
         /\ job'[t].at = at /\ job'[t].pid = p /\ job'[t].cmd = job[t].cmd
<1>1. job[t] \in Job
  BY DEF JobsTyped
<1>2. job' = [job EXCEPT ![t] = [job[t] EXCEPT !.at = at, !.pid = p]]
  BY DEF Go
<1>3. [job[t] EXCEPT !.at = at, !.pid = p] \in Job
  BY <1>1 DEF Job
<1>4. /\ job' \in [Threads -> Job] /\ Others(t)
      /\ job'[t].at = at /\ job'[t].pid = p /\ job'[t].cmd = job[t].cmd
  BY <1>1, <1>2, <1>3 DEF JobsTyped, Others, Job
<1>5. Fitting'
  BY <1>4 DEF JobsTyped, Fitting, Fits, Others
<1>6. first' = first /\ overlapped' = overlapped
  BY DEF Go
<1> QED BY <1>4, <1>5, <1>6 DEF JobsTyped

(* A thread that begins something executes it from its first place on. *)
LEMMA Beginning ==
  ASSUME JobsTyped, NEW t \in Threads, NEW cmd \in Commands,
         NEW at \in Places, NEW p \in Pids \cup {NoPid}, Begin(t, cmd, at, p),
         Fits(at, cmd, p)
  PROVE  /\ JobsTyped' /\ Others(t)
         /\ job'[t].at = at /\ job'[t].pid = p /\ job'[t].cmd = cmd
<1>2. job' = [job EXCEPT ![t] = [cmd |-> cmd, at |-> at, pid |-> p,
                                 failed |-> FALSE]]
  BY DEF Begin
<1>3. [cmd |-> cmd, at |-> at, pid |-> p, failed |-> FALSE] \in Job
  BY DEF Job
<1>4. /\ job' \in [Threads -> Job] /\ Others(t)
      /\ job'[t].at = at /\ job'[t].pid = p /\ job'[t].cmd = cmd
  BY <1>2, <1>3 DEF JobsTyped, Others
<1>5. Fitting'
  BY <1>4 DEF JobsTyped, Fitting, Fits, Others
<1>6. first' \in BOOLEAN
  BY DEF Begin, JobsTyped
<1>7. overlapped' \in BOOLEAN
  BY Zenon DEF Begin
<1> QED BY <1>4, <1>5, <1>6, <1>7 DEF JobsTyped

(* A thread that is done is idle. *)
LEMMA Ending ==
  ASSUME JobsTyped, NEW t \in Threads, Done(t)
  PROVE  JobsTyped' /\ Others(t) /\ job'[t].at = "idle"
<1>1. job' = [job EXCEPT ![t] = Idle] /\ Idle \in Job /\ Idle.at = "idle"
  BY DEF Done, Idle, Job, Commands, Places
<1>2. job' \in [Threads -> Job] /\ Others(t) /\ job'[t].at = "idle"
  BY <1>1 DEF JobsTyped, Others
<1>3. Fitting'
  BY <1>2 DEF JobsTyped, Fitting, Fits, Needy, Others
<1>4. first' \in BOOLEAN
  BY Zenon DEF Done
<1>5. overlapped' \in BOOLEAN
  BY DEF Done, JobsTyped
<1> QED BY <1>2, <1>3, <1>4, <1>5 DEF JobsTyped

(* Where no thread moves, the jobs keep their types. *)
LEMMA Standing ==
  ASSUME JobsTyped, UNCHANGED <<job, first, overlapped>>
  PROVE  JobsTyped' /\ job' = job
BY DEF JobsTyped, Fitting

-----------------------------------------------------------------------------
(* What the rows are made into. A status written claims no record.         *)
LEMMA Stamping ==
  ASSUME TablesTyped, NEW p, NEW status \in Statuses, Stamp(p, status)
  PROVE  Softened(rows')
<1>1. rows' = [q \in Pids |-> IF q = p THEN [rows[q] EXCEPT !.status = status]
                                       ELSE rows[q]]
  BY DEF Stamp, TablesTyped
<1>2. \A q \in Pids : rows'[q] \in Row /\ rows'[q].record = rows[q].record
  BY <1>1 DEF TablesTyped, Row
<1> QED BY <1>1, <1>2 DEF Softened

(* A row that is bound to a pid gets a record only if the process is ours. *)
LEMMA Binding ==
  ASSUME TablesTyped, NEW p \in Pids, NEW status \in Statuses,
         Bind(p, status)
  PROVE  /\ rows' \in [Pids -> Row]
         /\ \A q \in Pids : rows'[q].record = "match"
                              => rows[q].record = "match" \/ os[q] = "ours"
<1>1. rows' = [rows EXCEPT ![p] =
                 [status |-> status,
                  record |-> IF os[p] = "ours" THEN "match" ELSE "none"]]
  BY DEF Bind
<1>2. [status |-> status,
       record |-> IF os[p] = "ours" THEN "match" ELSE "none"] \in Row
  BY DEF Row
<1> QED BY <1>1, <1>2 DEF TablesTyped

(* Neither an empty row nor a mark of a failure holds a record. *)
LEMMA Emptied == NoRow \in Row /\ NoRow.record = "none"
                 /\ FailedRow \in Row /\ FailedRow.record = "none"
BY DEF NoRow, FailedRow, Row, Statuses

(* Marking a failure claims no record. *)
LEMMA Surfacing ==
  ASSUME NEW r, Softened(r), NEW p, NEW s \in Surfaced(r, p)
  PROVE  Softened(s)
<1>1. CASE s = r
  BY <1>1
<1>2. CASE s # r
  <2>1. PICK q : s = [x \in Pids |-> IF x = q THEN FailedRow
                        ELSE IF r[x].status = "LAUNCH_FAILED" THEN NoRow
                        ELSE r[x]]
    BY <1>2 DEF Surfaced
  <2> QED BY <2>1, Emptied DEF Softened
<1> QED BY <1>1, <1>2

(* Dropping a row claims no record. *)
LEMMA Dropping ==
  ASSUME TablesTyped, NEW p
  PROVE  Softened([rows EXCEPT ![p] = NoRow])
BY Emptied DEF Softened, TablesTyped

(* A refusal by the gate claims no record. *)
LEMMA Refusing ==
  ASSUME TablesTyped, NEW p, NEW s \in Refused(p)
  PROVE  Softened(s)
<1>1. Softened(rows)
  BY DEF Softened, TablesTyped
<1>2. CASE rows[p].record = "stale"
  BY <1>2, Dropping, Surfacing DEF Refused
<1>3. CASE rows[p].record # "stale"
  BY <1>1, <1>3, Surfacing DEF Refused
<1> QED BY <1>2, <1>3

(* Retiring dead rows claims no record. *)
LEMMA Retiring ==
  ASSUME TablesTyped
  PROVE  Softened(Retired) /\ \A p : Softened([rows EXCEPT ![p] = Retired[p]])
<1>1. Softened(Retired)
  BY Emptied DEF Retired, Softened, TablesTyped
<1> QED BY <1>1 DEF Softened, TablesTyped

(* The row of a process that has ended has no record that matches. *)
LEMMA RowEnded ==
  ASSUME TablesTyped, NEW p \in Pids
  PROVE  /\ Softened(Ended(rows, p)) /\ Ended(rows, p)[p].record # "match"
         /\ \A q \in Pids \ {p} : Ended(rows, p)[q] = rows[q]
<1>1. Ended(rows, p) = [rows EXCEPT ![p] = [rows[p] EXCEPT !.record =
                          IF rows[p].record = "match" THEN "stale"
                                                      ELSE rows[p].record]]
  BY DEF Ended
<1>2. [rows[p] EXCEPT !.record =
         IF rows[p].record = "match" THEN "stale" ELSE rows[p].record] \in Row
  BY DEF TablesTyped, Row
<1>3. [rows[p] EXCEPT !.record =
         IF rows[p].record = "match" THEN "stale" ELSE rows[p].record].record
           # "match"
  BY DEF TablesTyped, Row
<1> QED BY <1>1, <1>2, <1>3 DEF TablesTyped, Softened

(* What last_started is set to without a pid is one of Marks. *)
LEMMA Marking ==
  /\ Untracked \in Marks /\ LaunchFailed \in Marks /\ Killed \in Marks
  /\ [pid |-> NoPid, mark |-> "cooled"] \in Marks
BY DEF Marks

(* A pid that is tracked and runs is one of Pids.                          *)
LEMMA Tracked ==
  ASSUME Marked
  PROVE  /\ last_started.pid \in Pids \cup {NoPid}
         /\ Running(last_started.pid) => last_started.pid \in Pids
         /\ last_started.mark = "pid" => last_started.pid \in Pids
BY DEF Marked, Marks, Tracking, Untracked, LaunchFailed, Killed, Running

(* What is found by its command line is the process itself. *)
LEMMA FoundIsOurs == Found \subseteq Ours /\ Ours \subseteq Pids
BY DEF Found, Ours

(* An attempt is counted up to one above the limit. *)
LEMMA Spending ==
  ASSUME Budgeted, Spend
  PROVE  Budgeted'
BY SupervisionAssumption DEF Budgeted, Spend, Spent

(* Adopting a running instance keeps the types. *)
LEMMA Adopting ==
  ASSUME Typed, UNCHANGED os, NEW t \in Threads, NEW p \in Found, Adopt(t, p)
  PROVE  JobsTyped' /\ TablesTyped' /\ Marked'
<1>1. p \in Pids
  BY FoundIsOurs
<1>2. JobsTyped'
  BY Ending DEF Typed, Adopt
<1>3. TablesTyped'
  BY <1>1, Binding DEF Typed, Adopt, TablesTyped, Statuses, LiveClaims
<1>4. Marked'
  BY <1>1 DEF Adopt, Marked
<1> QED BY <1>2, <1>3, <1>4

(* Applying a change of mode keeps the types. *)
LEMMA Transiting ==
  ASSUME Typed, UNCHANGED os, NEW t \in Threads, NEW m, Transition(t, m)
  PROVE  JobsTyped' /\ TablesTyped' /\ Marked' /\ Budgeted'
<1>1. CASE m = "off"
  <2>1. Softened(rows') /\ Done(t) /\ UNCHANGED <<last_started, attempts>>
    BY <1>1, Retiring DEF Typed, Transition
  <2> QED BY <2>1, Ending DEF Typed, TablesTyped, Softened, Marked, Budgeted
<1>2. CASE m # "off"
  <2>1. /\ last_started' = Untracked /\ attempts' = 0 /\ rows' = rows
        /\ Begin(t, "handle", "look", NoPid)
    BY <1>2 DEF Transition
  <2>2. JobsTyped'
    BY <2>1, Beginning DEF Typed, Commands, Places, Fits, Needy
  <2>3. Marked' /\ Budgeted'
    BY <2>1, Marking, SupervisionAssumption DEF Marked, Budgeted
  <2> QED BY <2>1, <2>2, <2>3 DEF Typed, TablesTyped
<1> QED BY <1>1, <1>2

(* A service that starts again has well-typed variables. *)
LEMMA Forgetting ==
  ASSUME Typed, Forgotten, UNCHANGED <<mode, overlapped>>
  PROVE  JobsTyped' /\ Marked' /\ Budgeted' /\ RestTyped'
<1>1. /\ [Idle EXCEPT !.at = "recover"] \in Job /\ Idle \in Job
      /\ [Idle EXCEPT !.at = "recover"].at = "recover" /\ Idle.at = "idle"
  BY DEF Idle, Job, Commands, Places
<1>2. job' = [t \in Threads |-> IF t = monitor
                                THEN [Idle EXCEPT !.at = "recover"] ELSE Idle]
  BY DEF Forgotten
<1>3. JobsTyped'
  BY <1>1, <1>2 DEF Typed, JobsTyped, Fitting, Fits, Needy, Forgotten
<1>4. Marked' /\ Budgeted'
  BY Marking, SupervisionAssumption DEF Marked, Budgeted, Forgotten
<1>5. RestTyped'
  BY DEF Typed, RestTyped, Forgotten
<1> QED BY <1>3, <1>4, <1>5

(* A round that passes the entry over keeps the types. *)
LEMMA SkipTyped ==
  ASSUME Typed, NEW t \in Threads, Skip(t) PROVE Typed'
<1> USE DEF Typed
<1>1. JobsTyped'
  BY Ending DEF Skip, Steady
<1>2. TablesTyped'
  BY DEF Skip, Steady, TablesTyped
<1>3. Marked'
  BY DEF Skip, Steady, Marked
<1>4. Budgeted'
  BY DEF Skip, Steady, Budgeted
<1>5. RestTyped'
  BY DEF Skip, Steady, RestTyped
<1> QED BY <1>1, <1>2, <1>3, <1>4, <1>5

(* The first look after a start of the service keeps the types. *)
LEMMA FirstLookTyped ==
  ASSUME Typed, NEW t \in Threads, FirstLook(t) PROVE Typed'
<1> USE DEF Typed
<1>1. JobsTyped'
  BY Going, Ending, Adopting, Tracked, FoundIsOurs
     DEF FirstLook, Steady, Places, Needy
<1>2. TablesTyped'
  BY Stamping, Adopting, Tracked, FoundIsOurs
     DEF FirstLook, Steady, TablesTyped, Softened, Statuses, LiveClaims
<1>3. Marked'
  BY Adopting, FoundIsOurs DEF FirstLook, Steady, Marked
<1>4. Budgeted'
  BY DEF FirstLook, Steady, Budgeted
<1>5. RestTyped'
  BY DEF FirstLook, Steady, RestTyped
<1> QED BY <1>1, <1>2, <1>3, <1>4, <1>5

(* A look at the tracked pid keeps the types. *)
LEMMA LookTyped ==
  ASSUME Typed, NEW t \in Threads, Look(t) PROVE Typed'
<1> USE DEF Typed
<1>1. JobsTyped'
  BY Going, Tracked DEF Look, Steady, Places, Needy
<1>2. TablesTyped'
  BY DEF Look, Steady, TablesTyped
<1>3. Marked'
  BY DEF Look, Steady, Marked
<1>4. Budgeted'
  BY DEF Look, Steady, Budgeted
<1>5. RestTyped'
  BY DEF Look, Steady, RestTyped
<1> QED BY <1>1, <1>2, <1>3, <1>4, <1>5

(* A look after a failed launch keeps the types. *)
LEMMA LookAgainTyped ==
  ASSUME Typed, NEW t \in Threads, LookAgain(t) PROVE Typed'
<1> USE DEF Typed
<1>1. JobsTyped'
  <2>1. CASE \E p \in Found : Adopt(t, p)
    BY <2>1, Adopting DEF LookAgain
  <2>2. CASE Done(t)
    BY <2>2, Ending
  <2>3. CASE /\ job' = [job EXCEPT ![t].at = "fresh", ![t].failed = TRUE]
             /\ UNCHANGED <<first, overlapped>>
    <3>1. /\ job[t] \in Job
          /\ job' = [job EXCEPT ![t] =
                       [job[t] EXCEPT !.at = "fresh", !.failed = TRUE]]
      BY <2>3 DEF JobsTyped
    <3>2. LET j == [job[t] EXCEPT !.at = "fresh", !.failed = TRUE]
          IN  j \in Job /\ j.at = "fresh"
      BY <3>1 DEF Job, Places
    <3> QED BY <2>3, <3>1, <3>2 DEF JobsTyped, Fitting, Fits, Needy
  <2> QED BY <2>1, <2>2, <2>3 DEF LookAgain
<1>2. TablesTyped'
  BY Adopting, Tracked, FoundIsOurs DEF LookAgain, Steady, TablesTyped
<1>3. Marked'
  BY Adopting, FoundIsOurs DEF LookAgain, Steady, Marked
<1>4. Budgeted'
  BY DEF LookAgain, Steady, Budgeted
<1>5. RestTyped'
  BY DEF LookAgain, Steady, RestTyped
<1> QED BY <1>1, <1>2, <1>3, <1>4, <1>5

(* Finding the process up keeps the types. *)
LEMMA AliveTyped ==
  ASSUME Typed, NEW t \in Threads, Alive(t) PROVE Typed'
<1> USE DEF Typed
<1>1. JobsTyped'
  BY Ending DEF Alive, Steady, JobsTyped, Fitting, Fits, At
<1>2. TablesTyped'
  BY Stamping, Tracked
     DEF Alive, Steady, TablesTyped, Softened, Statuses, LiveClaims, JobsTyped,
         Fitting, Fits, Needy, At
<1>3. Marked'
  BY DEF Alive, Steady, Marked
<1>4. Budgeted'
  BY DEF Alive, Steady, Budgeted
<1>5. RestTyped'
  BY DEF Alive, Steady, RestTyped
<1> QED BY <1>1, <1>2, <1>3, <1>4, <1>5

(* Reading the configuration again keeps the types. *)
LEMMA FreshTyped ==
  ASSUME Typed, NEW t \in Threads, Fresh(t) PROVE Typed'
<1> USE DEF Typed
<1>1. JobsTyped'
  BY Going, Ending, Adopting, FoundIsOurs
     DEF Fresh, Steady, Places, Needy, JobsTyped, Fitting, Fits, At
<1>2. TablesTyped'
  BY Retiring, Adopting, Tracked, FoundIsOurs
     DEF Fresh, Steady, TablesTyped, Softened, JobsTyped, Fitting, Fits, Needy,
         At
<1>3. Marked'
  BY Marking, Adopting, FoundIsOurs DEF Fresh, Steady, Marked
<1>4. Budgeted'
  BY DEF Fresh, Steady, Budgeted
<1>5. RestTyped'
  BY DEF Fresh, Steady, RestTyped
<1> QED BY <1>1, <1>2, <1>3, <1>4, <1>5

(* Forgetting the pid before a launch keeps the types. *)
LEMMA PopTyped ==
  ASSUME Typed, NEW t \in Threads, Pop(t) PROVE Typed'
<1> USE DEF Typed
<1>1. JobsTyped'
  BY Going, Tracked DEF Pop, bounds, Places, Needy
<1>2. TablesTyped'
  BY DEF Pop, bounds, TablesTyped
<1>3. Marked'
  BY Marking DEF Pop, bounds, Marked
<1>4. Budgeted'
  BY DEF Pop, bounds, Budgeted
<1>5. RestTyped'
  BY DEF Pop, bounds, RestTyped
<1> QED BY <1>1, <1>2, <1>3, <1>4, <1>5

(* Finding that another thread has launched it keeps the types. *)
LEMMA FindLaunchedTyped ==
  ASSUME Typed, NEW t \in Threads, FindLaunched(t) PROVE Typed'
<1> USE DEF Typed
<1>1. JobsTyped'
  BY Going, Ending, Tracked DEF FindLaunched, Steady, Places, Needy, Return
<1>2. TablesTyped'
  BY DEF FindLaunched, Steady, TablesTyped
<1>3. Marked'
  BY DEF FindLaunched, Steady, Marked
<1>4. Budgeted'
  BY DEF FindLaunched, Steady, Budgeted
<1>5. RestTyped'
  BY DEF FindLaunched, Steady, RestTyped
<1> QED BY <1>1, <1>2, <1>3, <1>4, <1>5

(* Taking the launch lock keeps the types. *)
LEMMA ReserveTyped ==
  ASSUME Typed, NEW t \in Threads, Reserve(t) PROVE Typed'
<1> USE DEF Typed
<1>1. JobsTyped'
  BY Going, Ending DEF Reserve, bounds, Places, Needy
<1>2. TablesTyped'
  BY DEF Reserve, bounds, TablesTyped
<1>3. Marked'
  BY DEF Reserve, bounds, Marked
<1>4. Budgeted'
  BY Spending DEF Reserve, bounds, Budgeted
<1>5. RestTyped'
  BY DEF Reserve, bounds, RestTyped, Threads
<1> QED BY <1>1, <1>2, <1>3, <1>4, <1>5

(* A launch that waits for the reboot prompt keeps the types. *)
LEMMA SuspendedTyped ==
  ASSUME Typed, NEW t \in Threads, Suspended(t) PROVE Typed'
<1> USE DEF Typed
<1>1. JobsTyped'
  BY Ending DEF Suspended, Steady
<1>2. TablesTyped'
  BY DEF Suspended, Steady, TablesTyped
<1>3. Marked'
  BY DEF Suspended, Steady, Marked
<1>4. Budgeted'
  BY DEF Suspended, Steady, Budgeted
<1>5. RestTyped'
  BY DEF Suspended, Steady, RestTyped
<1> QED BY <1>1, <1>2, <1>3, <1>4, <1>5

(* Opening the reboot prompt keeps the types. *)
LEMMA EscalateTyped ==
  ASSUME Typed, NEW t \in Threads, Escalate(t) PROVE Typed'
<1> USE DEF Typed
<1>1. JobsTyped'
  BY Ending DEF Escalate, bounds
<1>2. TablesTyped'
  BY DEF Escalate, bounds, TablesTyped
<1>3. Marked'
  BY DEF Escalate, bounds, Marked
<1>4. Budgeted'
  BY SupervisionAssumption DEF Escalate, bounds, Budgeted
<1>5. RestTyped'
  BY DEF Escalate, bounds, RestTyped
<1> QED BY <1>1, <1>2, <1>3, <1>4, <1>5

(* The launch keeps the types. *)
LEMMA LaunchTyped ==
  ASSUME Typed, NEW t \in Threads, Launch(t) PROVE Typed'
<1> USE DEF Typed
<1>1. JobsTyped'
  BY Going DEF Launch, Steady, Places, Needy
<1>2. TablesTyped'
  BY DEF Launch, Steady, TablesTyped
<1>3. Marked'
  BY DEF Launch, Steady, Marked
<1>4. Budgeted'
  BY DEF Launch, Steady, Budgeted
<1>5. RestTyped'
  BY DEF Launch, Steady, RestTyped
<1> QED BY <1>1, <1>2, <1>3, <1>4, <1>5

(* Recording what was launched keeps the types. *)
LEMMA RecordTyped ==
  ASSUME Typed, NEW t \in Threads, Record(t) PROVE Typed'
<1> USE DEF Typed
<1>1. JobsTyped'
  BY Going, Ending
     DEF Record, bounds, Places, Needy, Return, JobsTyped, Fitting, Fits, At
<1>2. TablesTyped'
  BY Binding, Tracked
     DEF Record, bounds, TablesTyped, Softened, Statuses, LiveClaims,
         JobsTyped, Fitting, Fits, Needy, At
<1>3. Marked'
  BY Marking DEF Record, bounds, Marked, JobsTyped, Fitting, Fits, Needy, At
<1>4. Budgeted'
  BY DEF Record, bounds, Budgeted
<1>5. RestTyped'
  BY DEF Record, bounds, RestTyped
<1> QED BY <1>1, <1>2, <1>3, <1>4, <1>5

(* Tracking what was launched keeps the types. *)
LEMMA FinishTyped ==
  ASSUME Typed, NEW t \in Threads, Finish(t) PROVE Typed'
<1> USE DEF Typed
<1>1. JobsTyped'
  BY Ending DEF Finish, Steady, JobsTyped, Fitting, Fits, At
<1>2. TablesTyped'
  BY DEF Finish, Steady, TablesTyped
<1>3. Marked'
  BY Marking DEF Finish, Steady, Marked, JobsTyped, Fitting, Fits, Needy, At
<1>4. Budgeted'
  BY DEF Finish, Steady, Budgeted
<1>5. RestTyped'
  BY DEF Finish, Steady, RestTyped
<1> QED BY <1>1, <1>2, <1>3, <1>4, <1>5

(* The gate of kill_and_relaunch_process keeps the types. *)
LEMMA SeizeTyped ==
  ASSUME Typed, NEW t \in Threads, Seize(t) PROVE Typed'
<1> USE DEF Typed
<1>1. JobsTyped'
  BY Going, Ending, Tracked
     DEF Seize, bounds, Places, Needy, JobsTyped, Fitting, Fits, At
<1>2. TablesTyped'
  <2>1. CASE rows' \in {[r EXCEPT ![job[t].pid].status = "RUNNING"] :
                          r \in Refused(job[t].pid)}
    <3>1. PICK r : /\ r \in Refused(job[t].pid)
                   /\ rows' = [r EXCEPT ![job[t].pid].status = "RUNNING"]
      BY <2>1
    <3>2. r \in [Pids -> Row]
      BY <3>1, Refusing DEF Softened
    <3>3. rows' \in [Pids -> Row]
      BY <3>1, <3>2 DEF Row, Statuses, LiveClaims
    <3> QED BY <3>3 DEF Seize, TablesTyped
  <2>2. CASE \/ Stamp(job[t].pid, "RUNNING") \/ Stamp(job[t].pid, "KILLED")
    BY <2>2, Stamping DEF Seize, TablesTyped, Softened, Statuses, LiveClaims
  <2> QED BY <2>1, <2>2 DEF Seize
<1>3. Marked'
  BY Marking DEF Seize, bounds, Marked
<1>4. Budgeted'
  BY Spending, SupervisionAssumption DEF Seize, bounds, Budgeted
<1>5. RestTyped'
  BY DEF Seize, bounds, RestTyped, Threads
<1> QED BY <1>1, <1>2, <1>3, <1>4, <1>5

(* Ending the process keeps the types. *)
LEMMA TerminateTyped ==
  ASSUME Typed, NEW t \in Threads, Terminate(t) PROVE Typed'
<1> USE DEF Typed
<1>1. JobsTyped'
  BY Going
     DEF Terminate, Steady, Places, Needy, AfterTerm, JobsTyped, Fitting, Fits,
         At
<1>2. TablesTyped'
  BY RowEnded, Tracked
     DEF Terminate, Steady, TablesTyped, Softened, JobsTyped, Fitting, Fits,
         Needy, At
<1>3. Marked'
  BY DEF Terminate, Steady, Marked
<1>4. Budgeted'
  BY DEF Terminate, Steady, Budgeted
<1>5. RestTyped'
  BY DEF Terminate, Steady, RestTyped
<1> QED BY <1>1, <1>2, <1>3, <1>4, <1>5

(* Noting that it was ended keeps the types. *)
LEMMA MarkEndedTyped ==
  ASSUME Typed, NEW t \in Threads, MarkEnded(t) PROVE Typed'
<1> USE DEF Typed
<1>1. JobsTyped'
  BY Going, Ending
     DEF MarkEnded, Steady, Places, Needy, JobsTyped, Fitting, Fits, At
<1>2. TablesTyped'
  BY Stamping, Tracked
     DEF MarkEnded, Steady, TablesTyped, Softened, Statuses, LiveClaims,
         JobsTyped, Fitting, Fits, Needy, At
<1>3. Marked'
  BY Marking DEF MarkEnded, Steady, Marked
<1>4. Budgeted'
  BY DEF MarkEnded, Steady, Budgeted
<1>5. RestTyped'
  BY DEF MarkEnded, Steady, RestTyped
<1> QED BY <1>1, <1>2, <1>3, <1>4, <1>5

(* Forgetting it before an operator's launch keeps the types. *)
LEMMA ClearTyped ==
  ASSUME Typed, NEW t \in Threads, Clear(t) PROVE Typed'
<1> USE DEF Typed
<1>1. JobsTyped'
  BY Going DEF Clear, bounds, Places, Needy
<1>2. TablesTyped'
  BY DEF Clear, bounds, TablesTyped
<1>3. Marked'
  BY Marking DEF Clear, bounds, Marked
<1>4. Budgeted'
  BY SupervisionAssumption DEF Clear, bounds, Budgeted
<1>5. RestTyped'
  BY DEF Clear, bounds, RestTyped
<1> QED BY <1>1, <1>2, <1>3, <1>4, <1>5

(* Applying a launch mode keeps the types. *)
LEMMA ApplyModeTyped ==
  ASSUME Typed, NEW t \in Threads, ApplyMode(t) PROVE Typed'
<1> USE DEF Typed
<1>1. JobsTyped'
  BY Transiting DEF ApplyMode, bounds
<1>2. TablesTyped'
  BY Transiting DEF ApplyMode, bounds, TablesTyped
<1>3. Marked'
  BY Transiting DEF ApplyMode, bounds, Marked
<1>4. Budgeted'
  BY Transiting DEF ApplyMode, bounds, Budgeted
<1>5. RestTyped'
  BY DEF ApplyMode, At, RestTyped, JobsTyped, Fitting, Fits
<1> QED BY <1>1, <1>2, <1>3, <1>4, <1>5

(* The end of an installation keeps the types. *)
LEMMA InstalledTyped ==
  ASSUME Typed, NEW t \in Threads, Installed(t) PROVE Typed'
<1> USE DEF Typed
<1>1. JobsTyped'
  BY Ending DEF Installed, bounds
<1>2. TablesTyped'
  BY DEF Installed, bounds, TablesTyped
<1>3. Marked'
  BY DEF Installed, bounds, Marked
<1>4. Budgeted'
  BY DEF Installed, bounds, Budgeted
<1>5. RestTyped'
  BY DEF Installed, bounds, RestTyped
<1> QED BY <1>1, <1>2, <1>3, <1>4, <1>5

(* Finding the process hung keeps the types. *)
LEMMA HungTyped ==
  ASSUME Typed, NEW t \in Threads, Hung(t) PROVE Typed'
<1> USE DEF Typed
<1>1. JobsTyped'
  BY Beginning
     DEF Hung, memory, Places, Commands, Fits, Needy, JobsTyped, Fitting, At
<1>2. TablesTyped'
  BY DEF Hung, memory, TablesTyped
<1>3. Marked'
  BY DEF Hung, memory, Marked
<1>4. Budgeted'
  BY DEF Hung, memory, Budgeted
<1>5. RestTyped'
  BY DEF Hung, memory, RestTyped
<1> QED BY <1>1, <1>2, <1>3, <1>4, <1>5

(* Finding the executable gone keeps the types. *)
LEMMA MissingTyped ==
  ASSUME Typed, NEW t \in Threads, Missing(t) PROVE Typed'
<1> USE DEF Typed
<1>1. JobsTyped'
  BY Ending DEF Missing
<1>2. TablesTyped'
  BY Surfacing, Tracked DEF Missing, TablesTyped, Softened
<1>3. Marked'
  BY Marking DEF Missing, Marked
<1>4. Budgeted'
  BY DEF Missing, Budgeted
<1>5. RestTyped'
  BY DEF Missing, RestTyped
<1> QED BY <1>1, <1>2, <1>3, <1>4, <1>5

(* A launch that fails keeps the types. *)
LEMMA LaunchFailsTyped ==
  ASSUME Typed, NEW t \in Threads, LaunchFails(t) PROVE Typed'
<1> USE DEF Typed
<1>1. JobsTyped'
  BY Ending DEF LaunchFails, JobsTyped, Fitting, Fits, At
<1>2. TablesTyped'
  BY Stamping, Surfacing, Tracked
     DEF LaunchFails, TablesTyped, Softened, Statuses, LiveClaims, JobsTyped,
         Fitting, Fits, Needy, At
<1>3. Marked'
  BY Marking DEF LaunchFails, Marked
<1>4. Budgeted'
  BY DEF LaunchFails, Budgeted
<1>5. RestTyped'
  BY DEF LaunchFails, RestTyped
<1> QED BY <1>1, <1>2, <1>3, <1>4, <1>5

(* kill_process keeps the types. *)
LEMMA KillTyped ==
  ASSUME Typed, NEW t \in Threads, Kill(t) PROVE Typed'
<1> USE DEF Typed
<1>1. JobsTyped'
  BY Beginning, Standing, Tracked, FoundIsOurs
     DEF Kill, Commanded, Places, Commands, Fits, Needy
<1>2. TablesTyped'
  BY Refusing, Tracked, FoundIsOurs DEF Kill, Commanded, TablesTyped, Softened
<1>3. Marked'
  BY Marking, FoundIsOurs DEF Kill, Commanded, Marked
<1>4. Budgeted'
  BY DEF Kill, Commanded, Budgeted
<1>5. RestTyped'
  BY DEF Kill, Commanded, RestTyped
<1> QED BY <1>1, <1>2, <1>3, <1>4, <1>5

(* start_process keeps the types. *)
LEMMA StartTyped ==
  ASSUME Typed, NEW t \in Threads, Start(t) PROVE Typed'
<1> USE DEF Typed
<1>1. JobsTyped'
  BY Beginning, Standing, Tracked, FoundIsOurs
     DEF Start, Commanded, Places, Commands, Fits, Needy
<1>2. TablesTyped'
  BY Binding, Tracked, FoundIsOurs
     DEF Start, Commanded, TablesTyped, Softened, Statuses, LiveClaims
<1>3. Marked'
  BY Marking, FoundIsOurs DEF Start, Commanded, Marked
<1>4. Budgeted'
  BY DEF Start, Commanded, Budgeted
<1>5. RestTyped'
  BY DEF Start, Commanded, RestTyped
<1> QED BY <1>1, <1>2, <1>3, <1>4, <1>5

(* restart_process keeps the types. *)
LEMMA RestartProcessTyped ==
  ASSUME Typed, NEW t \in Threads, RestartProcess(t) PROVE Typed'
<1> USE DEF Typed
<1>1. JobsTyped'
  BY Beginning, Standing, Tracked, FoundIsOurs
     DEF RestartProcess, Commanded, Places, Commands, Fits, Needy
<1>2. TablesTyped'
  BY Stamping, Dropping, Tracked, FoundIsOurs
     DEF RestartProcess, Commanded, TablesTyped, Softened, Statuses, LiveClaims
<1>3. Marked'
  BY Marking, FoundIsOurs DEF RestartProcess, Commanded, Marked
<1>4. Budgeted'
  BY DEF RestartProcess, Commanded, Budgeted
<1>5. RestTyped'
  BY DEF RestartProcess, Commanded, RestTyped
<1> QED BY <1>1, <1>2, <1>3, <1>4, <1>5

(* set_launch_mode keeps the types. *)
LEMMA SetModeTyped ==
  ASSUME Typed, NEW t \in Threads, SetMode(t) PROVE Typed'
<1> USE DEF Typed
<1>1. JobsTyped'
  BY Beginning DEF SetMode, Commanded, Places, Commands, Fits, Needy, Modes
<1>2. TablesTyped'
  BY DEF SetMode, Commanded, TablesTyped
<1>3. Marked'
  BY DEF SetMode, Commanded, Marked
<1>4. Budgeted'
  BY DEF SetMode, Commanded, Budgeted
<1>5. RestTyped'
  BY DEF SetMode, Commanded, RestTyped
<1> QED BY <1>1, <1>2, <1>3, <1>4, <1>5

(* install_software keeps the types. *)
LEMMA InstallTyped ==
  ASSUME Typed, NEW t \in Threads, Install(t) PROVE Typed'
<1> USE DEF Typed
<1>1. JobsTyped'
  BY Beginning, Tracked DEF Install, Commanded, Places, Commands, Fits, Needy
<1>2. TablesTyped'
  BY Refusing, Tracked DEF Install, Commanded, TablesTyped, Softened
<1>3. Marked'
  BY Marking DEF Install, Commanded, Marked
<1>4. Budgeted'
  BY DEF Install, Commanded, Budgeted
<1>5. RestTyped'
  BY DEF Install, Commanded, RestTyped
<1> QED BY <1>1, <1>2, <1>3, <1>4, <1>5

(* A round of the loop keeps the types. *)
LEMMA TickTyped ==
  ASSUME Typed, Tick PROVE Typed'
<1> USE DEF Typed
<1>1. JobsTyped'
  <2>1. monitor \in Threads
    BY DEF Threads
  <2> QED BY <2>1, Beginning, Ending, Transiting
          DEF Tick, Places, Commands, Fits, Needy
<1>2. TablesTyped'
  BY Transiting DEF Tick, TablesTyped, Threads
<1>3. Marked'
  BY Transiting DEF Tick, Marked, Threads
<1>4. Budgeted'
  BY Transiting DEF Tick, Budgeted, Threads
<1>5. RestTyped'
  BY DEF Tick, bounds, RestTyped
<1> QED BY <1>1, <1>2, <1>3, <1>4, <1>5

(* A restart of the service keeps the types. *)
LEMMA RestartTyped ==
  ASSUME Typed, Restart PROVE Typed'
<1> USE DEF Typed
<1>1. JobsTyped'
  BY Forgetting DEF Restart
<1>2. TablesTyped'
  BY DEF Restart, TablesTyped
<1>3. Marked'
  BY Forgetting DEF Restart, Marked
<1>4. Budgeted'
  BY Forgetting DEF Restart, Budgeted
<1>5. RestTyped'
  BY Forgetting DEF Restart, RestTyped
<1> QED BY <1>1, <1>2, <1>3, <1>4, <1>5

(* A reboot of the machine keeps the types. *)
LEMMA RebootTyped ==
  ASSUME Typed, Reboot PROVE Typed'
<1> USE DEF Typed
<1>1. JobsTyped'
  BY Forgetting DEF Reboot, bounds
<1>2. TablesTyped'
  BY RowEnded DEF Reboot, bounds, TablesTyped, Softened
<1>3. Marked'
  BY Forgetting DEF Reboot, bounds, Marked
<1>4. Budgeted'
  BY Forgetting DEF Reboot, bounds, Budgeted
<1>5. RestTyped'
  BY Forgetting DEF Reboot, bounds, RestTyped
<1> QED BY <1>1, <1>2, <1>3, <1>4, <1>5

(* recover_running_processes keeps the types. *)
LEMMA RecoverTyped ==
  ASSUME Typed, Recover PROVE Typed'
<1> USE DEF Typed
<1>1. JobsTyped'
  <2>1. /\ job' = [job EXCEPT ![monitor] = Idle] /\ Idle \in Job
        /\ Idle.at = "idle" /\ UNCHANGED <<first, overlapped>>
    BY DEF Recover, Idle, Job, Commands, Places
  <2> QED BY <2>1 DEF JobsTyped, Fitting, Fits, Needy
<1>2. TablesTyped'
  BY Dropping, Tracked DEF Recover, Steady, TablesTyped, Softened
<1>3. Marked'
  BY Marking DEF Recover, Steady, Marked
<1>4. Budgeted'
  BY DEF Recover, Steady, Budgeted
<1>5. RestTyped'
  BY DEF Recover, Steady, RestTyped
<1> QED BY <1>1, <1>2, <1>3, <1>4, <1>5

(* An edit of the configuration keeps the types. *)
LEMMA EditModeTyped ==
  ASSUME Typed, EditMode PROVE Typed'
<1> USE DEF Typed
<1>1. JobsTyped'
  BY Standing DEF EditMode, memory, Modes
<1>2. TablesTyped'
  BY DEF EditMode, memory, TablesTyped
<1>3. Marked'
  BY DEF EditMode, memory, Marked
<1>4. Budgeted'
  BY DEF EditMode, memory, Budgeted
<1>5. RestTyped'
  BY DEF EditMode, memory, RestTyped
<1> QED BY <1>1, <1>2, <1>3, <1>4, <1>5

(* The end of the cooldown keeps the types. *)
LEMMA CoolTyped ==
  ASSUME Typed, Cool PROVE Typed'
<1> USE DEF Typed
<1>1. JobsTyped'
  BY Standing DEF Cool, Steady
<1>2. TablesTyped'
  BY DEF Cool, Steady, TablesTyped
<1>3. Marked'
  <2>1. last_started = LaunchFailed
    BY DEF Cool, Marked, Marks, Tracking, Untracked, Killed
  <2>2. last_started' = [pid |-> NoPid, mark |-> "cooled"]
    BY <2>1 DEF Cool, LaunchFailed
  <2> QED BY <2>2, Marking DEF Marked
<1>4. Budgeted'
  BY DEF Cool, Steady, Budgeted
<1>5. RestTyped'
  BY DEF Cool, Steady, RestTyped
<1> QED BY <1>1, <1>2, <1>3, <1>4, <1>5

(* The end of the prompt keeps the types. *)
LEMMA PromptEndsTyped ==
  ASSUME Typed, PromptEnds PROVE Typed'
<1> USE DEF Typed
<1>1. JobsTyped'
  BY Standing DEF PromptEnds
<1>2. TablesTyped'
  BY DEF PromptEnds, bounds, TablesTyped
<1>3. Marked'
  BY DEF PromptEnds, bounds, Marked
<1>4. Budgeted'
  BY DEF PromptEnds, bounds, Budgeted
<1>5. RestTyped'
  BY DEF PromptEnds, bounds, RestTyped
<1> QED BY <1>1, <1>2, <1>3, <1>4, <1>5

(* The death of the process keeps the types. *)
LEMMA DieTyped ==
  ASSUME Typed, NEW p \in Pids, Die(p) PROVE Typed'
<1> USE DEF Typed
<1>1. JobsTyped'
  BY Standing DEF Die, memory
<1>2. TablesTyped'
  BY RowEnded DEF Die, memory, TablesTyped, Softened
<1>3. Marked'
  BY DEF Die, memory, Marked
<1>4. Budgeted'
  BY DEF Die, memory, Budgeted
<1>5. RestTyped'
  BY DEF Die, memory, RestTyped
<1> QED BY <1>1, <1>2, <1>3, <1>4, <1>5

(* The reuse of a pid keeps the types. *)
LEMMA RecycleTyped ==
  ASSUME Typed, NEW p \in Pids, Recycle(p) PROVE Typed'
<1> USE DEF Typed
<1>1. JobsTyped'
  BY Standing DEF Recycle, memory, JobsTyped, Fitting, Fits, At
<1>2. TablesTyped'
  BY DEF Recycle, memory, TablesTyped
<1>3. Marked'
  BY DEF Recycle, memory, Marked
<1>4. Budgeted'
  BY DEF Recycle, memory, Budgeted
<1>5. RestTyped'
  BY DEF Recycle, memory, RestTyped
<1> QED BY <1>1, <1>2, <1>3, <1>4, <1>5

-----------------------------------------------------------------------------
(* Records tell the truth, and what a thread ends is not somebody else's.  *)
Safe == Honest /\ Held

(* The rows claim no more than before, or what the process table shows.    *)
Truthful ==
  \A p \in Pids : rows'[p].record = "match"
                    => rows[p].record = "match" \/ os[p] = "ours"

(* Records stay true while no process changes. *)
LEMMA StaysHonest ==
  ASSUME Honest, UNCHANGED os, Softened(rows') \/ Truthful \/ UNCHANGED rows
  PROVE  Honest'
BY DEF Honest, Softened, Truthful

(* A thread moves, but not to end something, and nothing becomes somebody  *)
(* else's.                                                                 *)
LEMMA StaysHeld ==
  ASSUME Typed, Held, NEW t \in Threads, Others(t), job'[t].at # "term",
         \A p \in Pids : os'[p] = "other" => os[p] = "other"
  PROVE  Held'
BY DEF Typed, Held, Others, JobsTyped, Fitting, Fits, Needy

(* What is being ended stays so while no thread moves. *)
LEMMA RestsHeld ==
  ASSUME Typed, Held, UNCHANGED job,
         \A p \in Pids : os'[p] = "other" => os[p] = "other"
  PROVE  Held'
BY DEF Typed, Held, JobsTyped, Fitting, Fits, Needy

(* No thread is about to end anything.                                     *)
LEMMA NobodyEnds ==
  ASSUME \A t \in Threads : job'[t].at # "term"
  PROVE  Held'
BY DEF Held

(* A thread is about to end what is not somebody else's.                   *)
LEMMA GetsHeld ==
  ASSUME Typed, Held, NEW t \in Threads, Others(t), UNCHANGED os,
         os[job'[t].pid] # "other"
  PROVE  Held'
BY DEF Held, Others

(* A thread that begins to end what is not somebody else's.                *)
LEMMA BeginsToEnd ==
  ASSUME Typed, Held, UNCHANGED os, NEW t \in Threads,
         NEW cmd \in {"kill", "restart", "install"}, NEW p \in Pids,
         os[p] # "other", Begin(t, cmd, "term", p)
  PROVE  Held'
<1>1. cmd \in Commands /\ "term" \in Places /\ Fits("term", cmd, p)
  BY DEF Commands, Places, Fits, Needy
<1>2. Others(t) /\ job'[t].pid = p
  BY <1>1, Beginning DEF Typed
<1> QED BY <1>2, GetsHeld

(* Adopting an instance makes no false record. *)
LEMMA AdoptsTruly ==
  ASSUME Typed, NEW t \in Threads, NEW p \in Found, Adopt(t, p)
  PROVE  Truthful /\ Others(t) /\ job'[t].at = "idle"
BY Binding, Ending, FoundIsOurs
   DEF Typed, Adopt, Truthful, Statuses, LiveClaims

(* Applying a change of mode makes no false record and ends nothing. *)
LEMMA TransitsTruly ==
  ASSUME Typed, NEW t \in Threads, NEW m, Transition(t, m)
  PROVE  /\ Softened(rows') \/ UNCHANGED rows
         /\ Others(t) /\ job'[t].at # "term"
<1>1. CASE m = "off"
  BY <1>1, Retiring, Ending DEF Typed, Transition
<1>2. CASE m # "off"
  BY <1>2, Beginning DEF Typed, Transition, Places, Commands, Fits, Needy
<1> QED BY <1>1, <1>2

(* A round that passes the entry over keeps the records true and strangers
   safe. *)
LEMMA SkipSafe ==
  ASSUME Typed, Safe, NEW t \in Threads, Skip(t) PROVE Safe'
<1> USE DEF Typed, Safe
<1>1. Honest'
  BY StaysHonest DEF Skip
<1>2. Held'
  BY StaysHeld, Ending DEF Skip
<1> QED BY <1>1, <1>2

(* The first look after a start of the service keeps the records true and
   strangers safe. *)
LEMMA FirstLookSafe ==
  ASSUME Typed, Safe, NEW t \in Threads, FirstLook(t) PROVE Safe'
<1> USE DEF Typed, Safe
<1>1. Honest'
  BY StaysHonest, Stamping, AdoptsTruly DEF FirstLook, Statuses, LiveClaims
<1>2. Held'
  BY StaysHeld, Going, Ending, AdoptsTruly, Tracked
     DEF FirstLook, Places, Needy
<1> QED BY <1>1, <1>2

(* A look at the tracked pid keeps the records true and strangers safe. *)
LEMMA LookSafe ==
  ASSUME Typed, Safe, NEW t \in Threads, Look(t) PROVE Safe'
<1> USE DEF Typed, Safe
<1>1. Honest'
  BY StaysHonest DEF Look
<1>2. Held'
  BY StaysHeld, Going, Tracked DEF Look, Places, Needy
<1> QED BY <1>1, <1>2

(* A look after a failed launch keeps the records true and strangers safe. *)
LEMMA LookAgainSafe ==
  ASSUME Typed, Safe, NEW t \in Threads, LookAgain(t) PROVE Safe'
<1> USE DEF Typed, Safe
<1>1. Honest'
  BY StaysHonest, AdoptsTruly DEF LookAgain
<1>2. Held'
  <2>1. CASE \/ Done(t) \/ \E p \in Found : Adopt(t, p)
    BY <2>1, StaysHeld, Ending, AdoptsTruly DEF LookAgain
  <2>2. CASE job' = [job EXCEPT ![t].at = "fresh", ![t].failed = TRUE]
    <3>1. Others(t) /\ job'[t].at = "fresh"
      BY <2>2 DEF Others, JobsTyped, Job
    <3> QED BY <3>1, StaysHeld DEF LookAgain
  <2> QED BY <2>1, <2>2 DEF LookAgain
<1> QED BY <1>1, <1>2

(* Finding the process up keeps the records true and strangers safe. *)
LEMMA AliveSafe ==
  ASSUME Typed, Safe, NEW t \in Threads, Alive(t) PROVE Safe'
<1> USE DEF Typed, Safe
<1>1. Honest'
  BY StaysHonest, Stamping DEF Alive, Statuses, LiveClaims
<1>2. Held'
  BY StaysHeld, Ending DEF Alive, JobsTyped, Fitting, Fits, At
<1> QED BY <1>1, <1>2

(* Reading the configuration again keeps the records true and strangers
   safe. *)
LEMMA FreshSafe ==
  ASSUME Typed, Safe, NEW t \in Threads, Fresh(t) PROVE Safe'
<1> USE DEF Typed, Safe
<1>1. Honest'
  BY StaysHonest, Retiring, AdoptsTruly DEF Fresh
<1>2. Held'
  BY StaysHeld, Going, Ending, AdoptsTruly
     DEF Fresh, Places, Needy, JobsTyped, Fitting, Fits, At
<1> QED BY <1>1, <1>2

(* Forgetting the pid before a launch keeps the records true and strangers
   safe. *)
LEMMA PopSafe ==
  ASSUME Typed, Safe, NEW t \in Threads, Pop(t) PROVE Safe'
<1> USE DEF Typed, Safe
<1>1. Honest'
  BY StaysHonest DEF Pop
<1>2. Held'
  BY StaysHeld, Going, Tracked DEF Pop, Places, Needy
<1> QED BY <1>1, <1>2

(* Finding that another thread has launched it keeps the records true and
   strangers safe. *)
LEMMA FindLaunchedSafe ==
  ASSUME Typed, Safe, NEW t \in Threads, FindLaunched(t) PROVE Safe'
<1> USE DEF Typed, Safe
<1>1. Honest'
  BY StaysHonest DEF FindLaunched
<1>2. Held'
  BY StaysHeld, Going, Ending, Tracked DEF FindLaunched, Places, Needy, Return
<1> QED BY <1>1, <1>2

(* Taking the launch lock keeps the records true and strangers safe. *)
LEMMA ReserveSafe ==
  ASSUME Typed, Safe, NEW t \in Threads, Reserve(t) PROVE Safe'
<1> USE DEF Typed, Safe
<1>1. Honest'
  BY StaysHonest DEF Reserve
<1>2. Held'
  BY StaysHeld, Going, Ending DEF Reserve, Places, Needy
<1> QED BY <1>1, <1>2

(* A launch that waits for the reboot prompt keeps the records true and
   strangers safe. *)
LEMMA SuspendedSafe ==
  ASSUME Typed, Safe, NEW t \in Threads, Suspended(t) PROVE Safe'
<1> USE DEF Typed, Safe
<1>1. Honest'
  BY StaysHonest DEF Suspended
<1>2. Held'
  BY StaysHeld, Ending DEF Suspended
<1> QED BY <1>1, <1>2

(* Opening the reboot prompt keeps the records true and strangers safe. *)
LEMMA EscalateSafe ==
  ASSUME Typed, Safe, NEW t \in Threads, Escalate(t) PROVE Safe'
<1> USE DEF Typed, Safe
<1>1. Honest'
  BY StaysHonest DEF Escalate
<1>2. Held'
  BY StaysHeld, Ending DEF Escalate
<1> QED BY <1>1, <1>2

(* The launch keeps the records true and strangers safe. *)
LEMMA LaunchSafe ==
  ASSUME Typed, Safe, NEW t \in Threads, Launch(t) PROVE Safe'
<1> USE DEF Typed, Safe
<1>1. Honest'
  BY DEF Launch, Honest, TablesTyped
<1>2. Held'
  <2>1. PICK p \in Pids : /\ os' = [os EXCEPT ![p] = "ours"]
                         /\ Go(t, "record", p)
    BY DEF Launch
  <2>2. \A q \in Pids : os'[q] = "other" => os[q] = "other"
    BY <2>1 DEF TablesTyped
  <2>3. Others(t) /\ job'[t].at = "record"
    BY <2>1, Going DEF Places, Needy
  <2> QED BY <2>2, <2>3, StaysHeld
<1> QED BY <1>1, <1>2

(* Recording what was launched keeps the records true and strangers safe. *)
LEMMA RecordSafe ==
  ASSUME Typed, Safe, NEW t \in Threads, Record(t) PROVE Safe'
<1> USE DEF Typed, Safe
<1>1. Honest'
  BY StaysHonest, Binding
     DEF Record, Statuses, LiveClaims, Truthful, JobsTyped, Fitting, Fits,
         Needy, At
<1>2. Held'
  BY StaysHeld, Going, Ending
     DEF Record, Places, Needy, Return, JobsTyped, Fitting, Fits, At
<1> QED BY <1>1, <1>2

(* Tracking what was launched keeps the records true and strangers safe. *)
LEMMA FinishSafe ==
  ASSUME Typed, Safe, NEW t \in Threads, Finish(t) PROVE Safe'
<1> USE DEF Typed, Safe
<1>1. Honest'
  BY StaysHonest DEF Finish
<1>2. Held'
  BY StaysHeld, Ending DEF Finish, JobsTyped, Fitting, Fits, At
<1> QED BY <1>1, <1>2

(* The gate of kill_and_relaunch_process keeps the records true and
   strangers safe. *)
LEMMA SeizeSafe ==
  ASSUME Typed, Safe, NEW t \in Threads, Seize(t) PROVE Safe'
<1> USE DEF Typed, Safe
<1>1. Honest'
  <2>1. CASE rows' \in {[r EXCEPT ![job[t].pid].status = "RUNNING"] :
                          r \in Refused(job[t].pid)}
    <3>1. PICK r : /\ r \in Refused(job[t].pid)
                   /\ rows' = [r EXCEPT ![job[t].pid].status = "RUNNING"]
      BY <2>1
    <3>2. Softened(r)
      BY <3>1, Refusing
    <3>3. \A p \in Pids : rows'[p].record = r[p].record
      BY <3>1, <3>2 DEF Softened, Row
    <3>4. Truthful
      BY <3>2, <3>3 DEF Softened, Truthful
    <3> QED BY <3>4, StaysHonest DEF Seize
  <2>2. CASE \/ Stamp(job[t].pid, "RUNNING") \/ Stamp(job[t].pid, "KILLED")
    BY <2>2, StaysHonest, Stamping DEF Seize, Statuses, LiveClaims
  <2> QED BY <2>1, <2>2 DEF Seize
<1>2. Held'
  <2> job[t].pid \in Pids
    BY DEF Seize, At, JobsTyped, Fitting, Fits, Needy
  <2>1. CASE Done(t)
    BY <2>1, StaysHeld, Ending DEF Seize
  <2>2. CASE Proven(job[t].pid) /\ Go(t, "term", job[t].pid)
    <3>1. os[job[t].pid] # "other"
      BY <2>2 DEF Proven, Honest
    <3>2. Others(t) /\ job'[t].pid = job[t].pid
      BY <2>2, Going DEF Places, Needy
    <3> QED BY <3>1, <3>2, GetsHeld DEF Seize
  <2> QED BY <2>1, <2>2 DEF Seize
<1> QED BY <1>1, <1>2

(* Ending the process keeps the records true and strangers safe. *)
LEMMA TerminateSafe ==
  ASSUME Typed, Safe, NEW t \in Threads, Terminate(t) PROVE Safe'
<1> USE DEF Typed, Safe
<1>1. Honest'
  <2> DEFINE p == job[t].pid
  <2>1. p \in Pids /\ os' = [os EXCEPT ![p] = "free"]
    BY DEF Terminate, At, JobsTyped, Fitting, Fits, Needy
  <2>2. rows' = Ended(rows, p)
    BY DEF Terminate
  <2> QED BY <2>1, <2>2, RowEnded DEF Honest, Softened, TablesTyped
<1>2. Held'
  BY StaysHeld, Going
     DEF Terminate, Places, Needy, AfterTerm, JobsTyped, Fitting, Fits, At
<1> QED BY <1>1, <1>2

(* Noting that it was ended keeps the records true and strangers safe. *)
LEMMA MarkEndedSafe ==
  ASSUME Typed, Safe, NEW t \in Threads, MarkEnded(t) PROVE Safe'
<1> USE DEF Typed, Safe
<1>1. Honest'
  BY StaysHonest, Stamping DEF MarkEnded, Statuses, LiveClaims
<1>2. Held'
  BY StaysHeld, Going, Ending
     DEF MarkEnded, Places, Needy, JobsTyped, Fitting, Fits, At
<1> QED BY <1>1, <1>2

(* Forgetting it before an operator's launch keeps the records true and
   strangers safe. *)
LEMMA ClearSafe ==
  ASSUME Typed, Safe, NEW t \in Threads, Clear(t) PROVE Safe'
<1> USE DEF Typed, Safe
<1>1. Honest'
  BY StaysHonest DEF Clear
<1>2. Held'
  BY StaysHeld, Going DEF Clear, Places, Needy
<1> QED BY <1>1, <1>2

(* Applying a launch mode keeps the records true and strangers safe. *)
LEMMA ApplyModeSafe ==
  ASSUME Typed, Safe, NEW t \in Threads, ApplyMode(t) PROVE Safe'
<1> USE DEF Typed, Safe
<1>1. Honest'
  BY StaysHonest, TransitsTruly DEF ApplyMode
<1>2. Held'
  BY StaysHeld, TransitsTruly DEF ApplyMode
<1> QED BY <1>1, <1>2

(* The end of an installation keeps the records true and strangers safe. *)
LEMMA InstalledSafe ==
  ASSUME Typed, Safe, NEW t \in Threads, Installed(t) PROVE Safe'
<1> USE DEF Typed, Safe
<1>1. Honest'
  BY StaysHonest DEF Installed
<1>2. Held'
  BY StaysHeld, Ending DEF Installed
<1> QED BY <1>1, <1>2

(* Finding the process hung keeps the records true and strangers safe. *)
LEMMA HungSafe ==
  ASSUME Typed, Safe, NEW t \in Threads, Hung(t) PROVE Safe'
<1> USE DEF Typed, Safe
<1>1. Honest'
  BY StaysHonest DEF Hung
<1>2. Held'
  BY StaysHeld, Beginning
     DEF Hung, Places, Commands, Fits, Needy, JobsTyped, Fitting, At
<1> QED BY <1>1, <1>2

(* Finding the executable gone keeps the records true and strangers safe. *)
LEMMA MissingSafe ==
  ASSUME Typed, Safe, NEW t \in Threads, Missing(t) PROVE Safe'
<1> USE DEF Typed, Safe
<1>1. Honest'
  <2>1. Softened(rows)
    BY DEF Softened, TablesTyped
  <2> QED BY <2>1, StaysHonest, Surfacing DEF Missing
<1>2. Held'
  BY StaysHeld, Ending DEF Missing
<1> QED BY <1>1, <1>2

(* A launch that fails keeps the records true and strangers safe. *)
LEMMA LaunchFailsSafe ==
  ASSUME Typed, Safe, NEW t \in Threads, LaunchFails(t) PROVE Safe'
<1> USE DEF Typed, Safe
<1>1. Honest'
  <2>1. \A p \in Pids : os[p] = "ours" => os'[p] = "ours"
    BY DEF LaunchFails, TablesTyped
  <2>2. CASE Stamp(job[t].pid, "RUNNING")
    BY <2>1, <2>2, Stamping DEF Honest, Softened, Statuses, LiveClaims
  <2>3. CASE rows' \in Surfaced(rows, NoPid)
    <3>1. Softened(rows)
      BY DEF Softened, TablesTyped
    <3> QED BY <2>1, <2>3, <3>1, Surfacing DEF Honest, Softened
  <2>4. CASE UNCHANGED rows
    BY <2>1, <2>4 DEF Honest
  <2> QED BY <2>2, <2>3, <2>4 DEF LaunchFails
<1>2. Held'
  <2>1. \A p \in Pids : os'[p] = "other" => os[p] = "other"
    BY DEF LaunchFails, TablesTyped
  <2> QED BY <2>1, StaysHeld, Ending DEF LaunchFails
<1> QED BY <1>1, <1>2

(* kill_process keeps the records true and strangers safe. *)
LEMMA KillSafe ==
  ASSUME Typed, Safe, NEW t \in Threads, Kill(t) PROVE Safe'
<1> USE DEF Typed, Safe
<1>1. Honest'
  BY StaysHonest, Refusing, FoundIsOurs, Tracked DEF Kill, Commanded
<1>2. Held'
  <2>1. CASE UNCHANGED job
    BY <2>1, RestsHeld DEF Kill, Commanded
  <2>2. ASSUME NEW p \in Pids, os[p] # "other", Begin(t, "kill", "term", p)
        PROVE  Held'
    BY <2>2, BeginsToEnd DEF Kill, Commanded
  <2>3. \A p \in Pids : Proven(p) \/ p \in Found => os[p] # "other"
    BY FoundIsOurs DEF Proven, Honest, Ours
  <2> QED BY <2>1, <2>2, <2>3, Tracked, FoundIsOurs DEF Kill
<1> QED BY <1>1, <1>2

(* start_process keeps the records true and strangers safe. *)
LEMMA StartSafe ==
  ASSUME Typed, Safe, NEW t \in Threads, Start(t) PROVE Safe'
<1> USE DEF Typed, Safe
<1>1. Honest'
  BY StaysHonest, Binding, FoundIsOurs
     DEF Start, Commanded, Statuses, LiveClaims, Truthful
<1>2. Held'
  <2>1. CASE UNCHANGED job
    BY <2>1, RestsHeld DEF Start, Commanded
  <2>2. CASE Begin(t, "start", "clear", NoPid)
    BY <2>2, StaysHeld, Beginning
       DEF Start, Commanded, Places, Commands, Fits, Needy
  <2> QED BY <2>1, <2>2 DEF Start
<1> QED BY <1>1, <1>2

(* restart_process keeps the records true and strangers safe. *)
LEMMA RestartProcessSafe ==
  ASSUME Typed, Safe, NEW t \in Threads, RestartProcess(t) PROVE Safe'
<1> USE DEF Typed, Safe
<1>1. Honest'
  BY StaysHonest, Stamping, Dropping, FoundIsOurs, Tracked
     DEF RestartProcess, Commanded, Statuses, LiveClaims
<1>2. Held'
  <2>1. CASE UNCHANGED job
    BY <2>1, RestsHeld DEF RestartProcess, Commanded
  <2>2. ASSUME NEW p \in Pids, os[p] # "other",
               Begin(t, "restart", "term", p)
        PROVE  Held'
    BY <2>2, BeginsToEnd DEF RestartProcess, Commanded
  <2>3. \A p \in Pids : Proven(p) \/ p \in Found => os[p] # "other"
    BY FoundIsOurs DEF Proven, Honest, Ours
  <2>4. CASE Begin(t, "restart", "clear", NoPid)
    BY <2>4, StaysHeld, Beginning
       DEF RestartProcess, Commanded, Places, Commands, Fits, Needy
  <2> QED BY <2>1, <2>2, <2>3, <2>4, Tracked, FoundIsOurs
          DEF RestartProcess
<1> QED BY <1>1, <1>2

(* set_launch_mode keeps the records true and strangers safe. *)
LEMMA SetModeSafe ==
  ASSUME Typed, Safe, NEW t \in Threads, SetMode(t) PROVE Safe'
<1> USE DEF Typed, Safe
<1>1. Honest'
  BY StaysHonest DEF SetMode, Commanded
<1>2. Held'
  BY StaysHeld, Beginning
     DEF SetMode, Commanded, Places, Commands, Fits, Needy, Modes
<1> QED BY <1>1, <1>2

(* install_software keeps the records true and strangers safe. *)
LEMMA InstallSafe ==
  ASSUME Typed, Safe, NEW t \in Threads, Install(t) PROVE Safe'
<1> USE DEF Typed, Safe
<1>1. Honest'
  BY StaysHonest, Refusing, Tracked DEF Install, Commanded
<1>2. Held'
  <2> DEFINE p == last_started.pid
  <2>1. CASE p # NoPid /\ Proven(p) /\ Begin(t, "install", "term", p)
    <3>1. p \in Pids /\ os[p] # "other"
      BY <2>1, Tracked DEF Proven, Honest
    <3>2. UNCHANGED os
      BY DEF Install, Commanded
    <3> QED BY <2>1, <3>1, <3>2, BeginsToEnd
  <2>2. CASE Begin(t, "install", "installing", NoPid)
    BY <2>2, StaysHeld, Beginning
       DEF Install, Commanded, Places, Commands, Fits, Needy
  <2> QED BY <2>1, <2>2 DEF Install
<1> QED BY <1>1, <1>2

(* A round of the loop keeps the records true and strangers safe. *)
LEMMA TickSafe ==
  ASSUME Typed, Safe, Tick PROVE Safe'
<1> USE DEF Typed, Safe
<1>1. Honest'
  BY StaysHonest, TransitsTruly DEF Tick, Threads
<1>2. Held'
  <2>1. monitor \in Threads
    BY DEF Threads
  <2> QED BY <2>1, StaysHeld, Beginning, Ending, TransitsTruly
          DEF Tick, Places, Commands, Fits, Needy
<1> QED BY <1>1, <1>2

(* A restart of the service keeps the records true and strangers safe. *)
LEMMA RestartSafe ==
  ASSUME Typed, Safe, Restart PROVE Safe'
<1> USE DEF Typed, Safe
<1>1. Honest'
  BY StaysHonest DEF Restart
<1>2. Held'
  <2>1. \A t \in Threads : job'[t].at # "term"
    BY DEF Restart, Forgotten, Idle
  <2> QED BY <2>1, NobodyEnds
<1> QED BY <1>1, <1>2

(* A reboot of the machine keeps the records true and strangers safe. *)
LEMMA RebootSafe ==
  ASSUME Typed, Safe, Reboot PROVE Safe'
<1> USE DEF Typed, Safe
<1>1. Honest'
  BY RowEnded DEF Reboot, Honest
<1>2. Held'
  <2>1. \A t \in Threads : job'[t].at # "term"
    BY DEF Reboot, Forgotten, Idle
  <2> QED BY <2>1, NobodyEnds
<1> QED BY <1>1, <1>2

(* recover_running_processes keeps the records true and strangers safe. *)
LEMMA RecoverSafe ==
  ASSUME Typed, Safe, Recover PROVE Safe'
<1> USE DEF Typed, Safe
<1>1. Honest'
  BY Emptied, StaysHonest DEF Recover, Truthful
<1>2. Held'
  <2>1. /\ monitor \in Threads /\ Others(monitor)
        /\ job'[monitor].at # "term"
    BY DEF Recover, Idle, JobsTyped, Others, Threads
  <2> QED BY <2>1, StaysHeld DEF Recover
<1> QED BY <1>1, <1>2

(* An edit of the configuration keeps the records true and strangers safe. *)
LEMMA EditModeSafe ==
  ASSUME Typed, Safe, EditMode PROVE Safe'
<1> USE DEF Typed, Safe
<1>1. Honest'
  BY StaysHonest DEF EditMode
<1>2. Held'
  BY RestsHeld DEF EditMode
<1> QED BY <1>1, <1>2

(* The end of the cooldown keeps the records true and strangers safe. *)
LEMMA CoolSafe ==
  ASSUME Typed, Safe, Cool PROVE Safe'
<1> USE DEF Typed, Safe
<1>1. Honest'
  BY StaysHonest DEF Cool
<1>2. Held'
  BY RestsHeld DEF Cool
<1> QED BY <1>1, <1>2

(* The end of the prompt keeps the records true and strangers safe. *)
LEMMA PromptEndsSafe ==
  ASSUME Typed, Safe, PromptEnds PROVE Safe'
<1> USE DEF Typed, Safe
<1>1. Honest'
  BY StaysHonest DEF PromptEnds
<1>2. Held'
  BY RestsHeld DEF PromptEnds
<1> QED BY <1>1, <1>2

(* The death of the process keeps the records true and strangers safe. *)
LEMMA DieSafe ==
  ASSUME Typed, Safe, NEW p \in Pids, Die(p) PROVE Safe'
<1> USE DEF Typed, Safe
<1>1. Honest'
  BY RowEnded DEF Die, Honest, Softened, TablesTyped
<1>2. Held'
  BY RestsHeld DEF Die, TablesTyped
<1> QED BY <1>1, <1>2

(* The reuse of a pid keeps the records true and strangers safe. *)
LEMMA RecycleSafe ==
  ASSUME Typed, Safe, NEW p \in Pids, Recycle(p) PROVE Safe'
<1> USE DEF Typed, Safe
<1>1. Honest'
  BY DEF Recycle, Honest, TablesTyped
<1>2. Held'
  BY DEF Recycle, Held, TablesTyped
<1> QED BY <1>1, <1>2

-----------------------------------------------------------------------------
(* The first state is typed and safe.                                      *)
LEMMA Initially == Init => Typed /\ Safe
<1> SUFFICES ASSUME Init PROVE Typed /\ Safe
  OBVIOUS
<1>1. Idle \in Job /\ Idle.at = "idle"
  BY DEF Idle, Job, Commands, Places
<1>2. JobsTyped
  BY <1>1 DEF Init, JobsTyped, Fitting, Fits, Needy
<1>3. TablesTyped
  BY Emptied DEF Init, TablesTyped
<1>4. Marked /\ Budgeted
  BY Marking, SupervisionAssumption DEF Init, Marked, Budgeted
<1>5. RestTyped
  BY DEF Init, RestTyped
<1>6. Safe
  BY <1>1, Emptied DEF Init, Safe, Honest, Held
<1> QED BY <1>2, <1>3, <1>4, <1>5, <1>6 DEF Typed

(* Every step keeps the variables typed and strangers safe.                *)
LEMMA Stepping == Typed /\ Safe /\ [Next]_vars => Typed' /\ Safe'
<1> SUFFICES ASSUME Typed, Safe, [Next]_vars PROVE Typed' /\ Safe'
  OBVIOUS
<1>1. ASSUME NEW t \in Threads, Advance(t) PROVE Typed' /\ Safe'
  BY <1>1, SkipTyped, FirstLookTyped, LookTyped, LookAgainTyped, AliveTyped,
     FreshTyped, PopTyped, FindLaunchedTyped, ReserveTyped, SuspendedTyped,
     EscalateTyped, LaunchTyped, RecordTyped, FinishTyped, SeizeTyped,
     TerminateTyped, MarkEndedTyped, ClearTyped, ApplyModeTyped,
     InstalledTyped, SkipSafe, FirstLookSafe, LookSafe, LookAgainSafe,
     AliveSafe, FreshSafe, PopSafe, FindLaunchedSafe, ReserveSafe,
     SuspendedSafe, EscalateSafe, LaunchSafe, RecordSafe, FinishSafe,
     SeizeSafe, TerminateSafe, MarkEndedSafe, ClearSafe, ApplyModeSafe,
     InstalledSafe DEF Advance
<1>2. ASSUME NEW t \in Threads, Hung(t) \/ Missing(t) \/ LaunchFails(t)
      PROVE  Typed' /\ Safe'
  BY <1>2, HungTyped, HungSafe, MissingTyped, MissingSafe,
     LaunchFailsTyped, LaunchFailsSafe
<1>3. ASSUME NEW t \in Workers, Command(t) PROVE Typed' /\ Safe'
  <2>1. t \in Threads
    BY DEF Threads
  <2> QED BY <1>3, <2>1, KillTyped, KillSafe, StartTyped, StartSafe,
             RestartProcessTyped, RestartProcessSafe, SetModeTyped,
             SetModeSafe, InstallTyped, InstallSafe DEF Command
<1>4. ASSUME NEW p \in Pids, Die(p) \/ Recycle(p) PROVE Typed' /\ Safe'
  BY <1>4, DieTyped, DieSafe, RecycleTyped, RecycleSafe
<1>5. CASE Tick \/ Recover
  BY <1>5, TickTyped, TickSafe, RecoverTyped, RecoverSafe
<1>6. CASE Restart \/ Reboot \/ EditMode \/ Cool \/ PromptEnds
  BY <1>6, RestartTyped, RestartSafe, RebootTyped, RebootSafe, EditModeTyped,
     EditModeSafe, CoolTyped, CoolSafe, PromptEndsTyped, PromptEndsSafe
<1>7. CASE UNCHANGED vars
  BY <1>7, RestsHeld, StaysHonest
     DEF vars, memory, bounds, Typed, Safe, JobsTyped, Fitting, TablesTyped,
         Marked, Budgeted, RestTyped
<1> QED BY <1>1, <1>2, <1>3, <1>4, <1>5, <1>6, <1>7 DEF Next

(* Whatever is executed, in whatever order, the variables keep their       *)
(* types, records that match tell the truth, and what is about to be ended *)
(* is nobody else's.                                                       *)
THEOREM Invariance == Spec => [](Typed /\ Safe)
<1> QED BY Initially, Stepping, PTL DEF Spec

(* Each pid has a row and each thread a job; marks and pids exclude each   *)
(* other, and relaunch attempts stop one above their limit.                *)
THEOREM TypeCorrect == Spec => []TypeOK
<1>1. Typed => TypeOK
  BY DEF Typed, TypeOK, JobsTyped, TablesTyped, Marked, Budgeted, RestTyped
<1> QED BY <1>1, Invariance, PTL

(* The process table changes in a few places only.                         *)
LEMMA TableKept ==
  ASSUME [Next]_vars
  PROVE  \/ UNCHANGED os
         \/ \E t \in Threads : Launch(t) \/ LaunchFails(t) \/ Terminate(t)
         \/ \E p \in Pids : Die(p) \/ Recycle(p)
         \/ Reboot
<1>1. ASSUME NEW t \in Threads, Advance(t)
      PROVE  UNCHANGED os \/ Launch(t) \/ Terminate(t)
  BY <1>1 DEF Advance, Skip, FirstLook, Look, LookAgain, Alive, Fresh, Pop,
     FindLaunched, Reserve, Suspended, Escalate, Record, Finish, Seize,
     MarkEnded, Clear, ApplyMode, Installed
<1>2. ASSUME NEW t \in Workers, Command(t) PROVE UNCHANGED os
  BY <1>2 DEF Command, Kill, Start, RestartProcess, SetMode, Install,
     Commanded
<1> QED BY <1>1, <1>2 DEF Next, Hung, Missing, Tick, Recover, Restart,
                        EditMode, Cool, PromptEnds, vars

(* Whatever pids are reused, nothing the service does ends a program of    *)
(* somebody else, short of a reboot of the machine.                        *)
THEOREM SparesStrangers == Spec => StrangersSpared
<1>1. Typed /\ Safe /\ [Next]_vars
        => [\A p \in Pids : os[p] = "other" /\ os'[p] = "free"
                              => os' = [q \in Pids |-> "free"]]_vars
  <2> SUFFICES ASSUME Typed, Safe, [Next]_vars,
                      NEW p \in Pids, os[p] = "other", os'[p] = "free"
               PROVE  os' = [q \in Pids |-> "free"]
    OBVIOUS
  <2>1. ASSUME NEW t \in Threads, Launch(t) \/ LaunchFails(t) PROVE FALSE
    BY <2>1 DEF Launch, LaunchFails, Typed, TablesTyped
  <2>2. ASSUME NEW t \in Threads, Terminate(t) PROVE FALSE
    <3>1. /\ job[t].pid \in Pids /\ os[job[t].pid] # "other"
          /\ os' = [os EXCEPT ![job[t].pid] = "free"]
      BY <2>2 DEF Terminate, At, Safe, Held, Typed, JobsTyped, Fitting, Fits,
                  Needy
    <3> QED BY <3>1 DEF Typed, TablesTyped
  <2>3. ASSUME NEW q \in Pids, Die(q) \/ Recycle(q) PROVE FALSE
    BY <2>3 DEF Die, Recycle, Typed, TablesTyped
  <2>4. CASE Reboot
    BY <2>4 DEF Reboot
  <2> QED BY <2>1, <2>2, <2>3, <2>4, TableKept
<1> QED BY <1>1, Invariance, PTL DEF Spec, StrangersSpared


-----------------------------------------------------------------------------
(* One thread at a time, in a service that can tell its process:           *)
(* between the look that finds no instance and the launch there is none,   *)
(* and what is about to be ended is the only one.                          *)
Single == \A p, q \in Ours : p = q
Quiet(t) == \A u \in Threads \ {t} : job[u].at = "idle"
Apart == \A t \in Threads : job[t].at = "idle" \/ Quiet(t)

Exposed == {"pop", "wait", "launch", "clear", "mark"}
Vacant == \A t \in Threads : job[t].at \in Exposed => Ours = {}
Aimed == \A t \in Threads : job[t].at = "term" => Ours \subseteq {job[t].pid}

Alone == ~overlapped => Single /\ Apart /\ Vacant /\ Aimed

(* A thread moves while the others rest.                                   *)
LEMMA MovesAlone ==
  ASSUME NEW t \in Threads, Others(t), Quiet(t), Single',
         job'[t].at \in Exposed => Ours' = {},
         job'[t].at = "term" => Ours' \subseteq {job'[t].pid}
  PROVE  Alone'
<1>1. \A u \in Threads \ {t} : job'[u].at = "idle"
  BY DEF Others, Quiet
<1>2. Apart'
  BY <1>1 DEF Apart, Quiet
<1>3. Vacant'
  BY <1>1 DEF Vacant, Exposed
<1>4. Aimed'
  BY <1>1 DEF Aimed
<1> QED BY <1>2, <1>3, <1>4 DEF Alone

(* A thread that is at work without an overlap is the only one.            *)
LEMMA AtWork ==
  ASSUME Alone, ~overlapped, NEW t \in Threads, job[t].at # "idle"
  PROVE  /\ Single /\ Quiet(t)
         /\ job[t].at \in Exposed => Ours = {}
         /\ job[t].at = "term" => Ours \subseteq {job[t].pid}
BY DEF Alone, Apart, Vacant, Aimed

(* A thread goes on and sees whether the process is there.                 *)
LEMMA GoesAlone ==
  ASSUME Typed, Alone, NEW t \in Threads, NEW at \in Places,
         NEW p \in Pids \cup {NoPid}, Go(t, at, p), UNCHANGED os,
         job[t].at # "idle", at # "apply", at \in Needy => p \in Pids,
         at \in Exposed => Ours = {} \/ job[t].at \in Exposed,
         at = "term" => p \in Ours
  PROVE  Alone'
<1>1. Others(t) /\ job'[t].at = at /\ job'[t].pid = p
  BY Going DEF Typed
<1>2. overlapped' = overlapped /\ Ours' = Ours
  BY DEF Go, Ours
<1>3. CASE ~overlapped
  BY <1>1, <1>2, <1>3, AtWork, MovesAlone DEF Single
<1> QED BY <1>2, <1>3 DEF Alone

(* A thread begins something when the others are at rest, or it overlaps.  *)
LEMMA BeginsAlone ==
  ASSUME Typed, Alone, NEW t \in Threads, NEW cmd \in Commands,
         NEW at \in Places, NEW p \in Pids \cup {NoPid},
         Begin(t, cmd, at, p), Fits(at, cmd, p), UNCHANGED os,
         at \in Exposed => Ours = {}, at = "term" => p \in Ours
  PROVE  Alone'
<1>1. Others(t) /\ job'[t].at = at /\ job'[t].pid = p
  BY Beginning DEF Typed
<1>2. Ours' = Ours
  BY DEF Ours
<1>3. CASE overlapped'
  BY <1>3 DEF Alone
<1>4. CASE ~overlapped'
  <2>1. ~overlapped /\ Quiet(t)
    BY <1>4, Zenon DEF Begin, Quiet, At
  <2>2. Single
    BY <2>1 DEF Alone
  <2> QED BY <1>1, <1>2, <2>1, <2>2, MovesAlone DEF Single
<1> QED BY <1>3, <1>4

(* A thread that ends leaves less to be done.                              *)
LEMMA EndsAlone ==
  ASSUME Typed, Alone, NEW t \in Threads, Done(t), UNCHANGED os
  PROVE  Alone'
<1>1. Others(t) /\ job'[t].at = "idle"
  BY Ending DEF Typed
<1>2. overlapped' = overlapped /\ Ours' = Ours
  BY DEF Done, Ours
<1>3. CASE ~overlapped
  <2>1. Single' /\ Apart'
    BY <1>1, <1>2, <1>3 DEF Alone, Single, Apart, Quiet, Others
  <2>2. Vacant' /\ Aimed'
    BY <1>1, <1>2, <1>3 DEF Alone, Vacant, Aimed, Exposed, Others
  <2> QED BY <2>1, <2>2 DEF Alone
<1> QED BY <1>2, <1>3 DEF Alone

(* No thread moves and no instance appears.                                *)
LEMMA RestsAlone ==
  ASSUME Alone, UNCHANGED <<job, overlapped>>, Ours' \subseteq Ours
  PROVE  Alone'
<1>1. CASE ~overlapped
  <2>1. Single' /\ Apart'
    BY <1>1 DEF Alone, Single, Apart, Quiet
  <2>2. Vacant' /\ Aimed'
    BY <1>1 DEF Alone, Vacant, Aimed
  <2> QED BY <2>1, <2>2 DEF Alone
<1> QED BY <1>1 DEF Alone

(* A service that starts again has its loop alone.                         *)
LEMMA ForgetsAlone ==
  ASSUME Alone, Forgotten, UNCHANGED overlapped, Ours' \subseteq Ours
  PROVE  Alone'
<1>1. /\ \A t \in Threads \ {monitor} : job'[t].at = "idle"
      /\ job'[monitor].at = "recover"
  BY DEF Forgotten, Idle, Threads
<1>2. Apart'
  BY <1>1 DEF Apart, Quiet
<1>3. Vacant' /\ Aimed'
  BY <1>1 DEF Vacant, Aimed, Exposed
<1>4. Single \/ overlapped
  BY DEF Alone
<1> QED BY <1>2, <1>3, <1>4 DEF Alone, Single

(* An overlap is remembered, and a thread that goes on is at work.         *)
LEMMA OverlapLasts ==
  ASSUME NEW t \in Threads,
         Advance(t) \/ Hung(t) \/ Missing(t) \/ LaunchFails(t)
  PROVE  job[t].at # "idle" /\ (overlapped => overlapped')
<1>1. job[t].at # "idle"
  BY DEF Advance, Skip, FirstLook, Look, LookAgain, Alive, Fresh, Pop,
     FindLaunched, Reserve, Suspended, Escalate, Launch, Record, Finish, Seize,
     Terminate, MarkEnded, Clear, ApplyMode, Installed, Hung, Missing,
     LaunchFails, At, Enter
<1>2. ASSUME NEW u \in Threads,
             Done(u) \/ (\E at, p : Go(u, at, p))
               \/ (\E cmd, at, p : Begin(u, cmd, at, p))
               \/ UNCHANGED overlapped
      PROVE  overlapped => overlapped'
  BY <1>2, Zenon DEF Done, Go, Begin
<1>3. Done(t) \/ (\E at, p : Go(t, at, p))
        \/ (\E cmd, at, p : Begin(t, cmd, at, p)) \/ UNCHANGED overlapped
  BY DEF Advance, Skip, FirstLook, Look, LookAgain, Alive, Fresh, Pop,
     FindLaunched, Reserve, Suspended, Escalate, Launch, Record, Finish, Seize,
     Terminate, MarkEnded, Clear, ApplyMode, Transition, Installed, Hung,
     Missing, LaunchFails, Adopt, Return
<1> QED BY <1>1, <1>2, <1>3

(* Where the process can be told, by its path or because it is alone, it   *)
(* is found, or there is none.                                             *)
LEMMA Seen ==
  ASSUME Discovery # "ambiguous", Alone, ~overlapped
  PROVE  Found = Ours
<1>1. Ours = {} \/ \E p : Ours = {p}
  BY DEF Alone, Single
<1>2. Ours # {} => Cardinality(Ours) = 1
  BY <1>1, FS_Singleton
<1> QED BY <1>2, SupervisionAssumption DEF Found

(* The places of handle_process.                                           *)
LEMMA LooksAlone ==
  ASSUME Discovery # "ambiguous", Typed, Safe, Alone, NEW t \in Threads,
         \/ Skip(t) \/ FirstLook(t) \/ Look(t) \/ LookAgain(t)
         \/ Alive(t) \/ Fresh(t) \/ Pop(t) \/ Hung(t)
  PROVE  Alone'
<1> SUFFICES ASSUME ~overlapped PROVE Alone'
  BY OverlapLasts DEF Advance, Alone
<1>1. ASSUME NEW p, Adopt(t, p), UNCHANGED os PROVE Alone'
  BY <1>1, EndsAlone DEF Adopt
<1>2. CASE Skip(t) \/ Alive(t)
  BY <1>2, EndsAlone DEF Skip, Alive
<1>3. CASE FirstLook(t)
  BY <1>1, <1>3, EndsAlone, GoesAlone, Seen
     DEF FirstLook, At, Places, Needy
<1>4. CASE Look(t)
  BY <1>4, GoesAlone, Tracked DEF Look, At, Typed, Places, Needy, Exposed
<1>5. CASE LookAgain(t)
  <2>1. CASE Done(t) \/ \E p \in Found : Adopt(t, p)
    BY <1>1, <1>5, <2>1, EndsAlone DEF LookAgain
  <2>2. CASE /\ job' = [job EXCEPT ![t].at = "fresh", ![t].failed = TRUE]
             /\ UNCHANGED <<first, overlapped>>
    <3>1. Others(t) /\ job'[t].at = "fresh" /\ job[t].at # "idle"
      BY <1>5, <2>2 DEF LookAgain, At, Others, Typed, JobsTyped, Job
    <3>2. Ours' = Ours
      BY <1>5 DEF LookAgain, Ours
    <3>3. CASE ~overlapped
      BY <3>1, <3>2, <3>3, AtWork, MovesAlone DEF Single, Exposed
    <3> QED BY <2>2, <3>3 DEF Alone
  <2> QED BY <1>5, <2>1, <2>2 DEF LookAgain
<1>6. CASE Fresh(t)
  BY <1>1, <1>6, EndsAlone, GoesAlone, Seen DEF Fresh, At, Places, Needy
<1>7. CASE Pop(t)
  BY <1>7, GoesAlone, Tracked DEF Pop, At, Typed, Places, Needy, Exposed
<1>8. CASE Hung(t)
  BY <1>8, BeginsAlone
     DEF Hung, At, Typed, JobsTyped, Fitting, Fits, Needy, Commands, Places,
         Exposed
<1> QED BY <1>2, <1>3, <1>4, <1>5, <1>6, <1>7, <1>8

(* The places of the launch: it starts where there is no instance.         *)
LEMMA LaunchesAlone ==
  ASSUME Typed, Safe, Alone, NEW t \in Threads,
         \/ FindLaunched(t) \/ Reserve(t) \/ Suspended(t) \/ Escalate(t)
         \/ Missing(t) \/ Launch(t) \/ LaunchFails(t) \/ Record(t) \/ Finish(t)
  PROVE  Alone'
<1>1. ASSUME NEW p \in Pids, Return(t, p), UNCHANGED os, job[t].at # "idle"
      PROVE  Alone'
  BY <1>1, EndsAlone, GoesAlone DEF Return, Places, Needy, Exposed
<1>2. CASE FindLaunched(t)
  BY <1>1, <1>2, Tracked DEF FindLaunched, Enter, AlreadyUp, At, Typed
<1>3. CASE Reserve(t)
  BY <1>3, EndsAlone, GoesAlone
     DEF Reserve, Enter, At, Places, Needy, Exposed
<1>4. CASE Suspended(t) \/ Missing(t) \/ Escalate(t) \/ Finish(t)
  BY <1>4, EndsAlone DEF Suspended, Missing, Escalate, Finish
<1>5. CASE Launch(t)
  <2>1. PICK p \in Pids : os' = [os EXCEPT ![p] = "ours"] /\ Go(t, "record", p)
    BY <1>5 DEF Launch
  <2>2. Others(t) /\ job'[t].at = "record"
    BY <2>1, Going DEF Typed, Places, Needy
  <2>3. overlapped' = overlapped /\ job[t].at = "launch"
    BY <1>5, <2>1 DEF Go, Launch, At
  <2>4. CASE ~overlapped
    <3>1. Ours = {} /\ Quiet(t)
      BY <2>3, <2>4, AtWork DEF Exposed
    <3>2. Ours' \subseteq {p}
      BY <2>1, <3>1 DEF Ours, Typed, TablesTyped
    <3> QED BY <2>2, <3>1, <3>2, MovesAlone DEF Single, Exposed
  <2> QED BY <2>3, <2>4 DEF Alone
<1>6. CASE LaunchFails(t)
  <2>1. Others(t) /\ job'[t].at = "idle"
    BY <1>6, Ending DEF LaunchFails, Typed
  <2>2. overlapped' = overlapped /\ job[t].at = "launch"
    BY <1>6 DEF Done, LaunchFails, At
  <2>3. CASE ~overlapped
    <3>1. Ours = {} /\ Quiet(t)
      BY <2>2, <2>3, AtWork DEF Exposed
    <3>2. \A p, q \in Ours' : p = q
      BY <1>6, <3>1 DEF LaunchFails, Ours, Typed, TablesTyped
    <3> QED BY <2>1, <3>1, <3>2, MovesAlone DEF Single, Exposed
  <2> QED BY <2>2, <2>3 DEF Alone
<1>7. CASE Record(t)
  BY <1>1, <1>7
     DEF Record, At, Typed, JobsTyped, Fitting, Fits, Needy
<1> QED BY <1>2, <1>3, <1>4, <1>5, <1>6, <1>7

(* The places of an end: what the gate has proven is the only instance.    *)
LEMMA EndsTheOne ==
  ASSUME Typed, Safe, Alone, NEW t \in Threads,
         \/ Seize(t) \/ Terminate(t) \/ MarkEnded(t) \/ Clear(t)
         \/ ApplyMode(t) \/ Installed(t)
  PROVE  Alone'
<1>1. CASE Seize(t)
  <2>1. job[t].pid \in Pids /\ job[t].at # "idle"
    BY <1>1 DEF Seize, At, Typed, JobsTyped, Fitting, Fits, Needy
  <2>2. Proven(job[t].pid) => job[t].pid \in Ours
    BY <2>1 DEF Proven, Safe, Honest, Ours
  <2> QED BY <1>1, <2>1, <2>2, EndsAlone, GoesAlone
          DEF Seize, Places, Needy, Exposed
<1>2. CASE Terminate(t)
  <2> DEFINE p == job[t].pid
  <2>1. /\ p \in Pids /\ os' = [os EXCEPT ![p] = "free"]
        /\ Go(t, AfterTerm(t), p) /\ job[t].at = "term"
    BY <1>2 DEF Terminate, At, Typed, JobsTyped, Fitting, Fits, Needy
  <2>2. AfterTerm(t) \in {"launch", "clear", "mark"}
    BY DEF AfterTerm
  <2>3. Others(t) /\ job'[t].at # "term"
    BY <2>1, <2>2, Going DEF Typed, Places, Needy
  <2>4. overlapped' = overlapped
    BY <2>1 DEF Go
  <2>5. CASE ~overlapped
    <3>1. Ours \subseteq {p} /\ Quiet(t)
      BY <2>1, <2>5, AtWork
    <3>2. Ours' = {}
      BY <2>1, <3>1 DEF Ours, Typed, TablesTyped
    <3> QED BY <2>3, <3>1, <3>2, MovesAlone DEF Single
  <2> QED BY <2>4, <2>5 DEF Alone
<1>3. CASE MarkEnded(t)
  BY <1>3, EndsAlone, GoesAlone DEF MarkEnded, At, Places, Needy, Exposed
<1>4. CASE Clear(t)
  BY <1>4, GoesAlone DEF Clear, At, Places, Needy, Exposed
<1>5. CASE ApplyMode(t)
  BY <1>5, EndsAlone, BeginsAlone
     DEF ApplyMode, Transition, Commands, Places, Fits, Needy, Exposed
<1>6. CASE Installed(t)
  BY <1>6, EndsAlone DEF Installed
<1> QED BY <1>1, <1>2, <1>3, <1>4, <1>5, <1>6

(* The commands: a look that finds none, or an end of what is proven.      *)
LEMMA CommandsAlone ==
  ASSUME Discovery # "ambiguous", Typed, Safe, Alone, NEW t \in Threads,
         Command(t)
  PROVE  Alone'
<1>1. UNCHANGED os
  BY DEF Command, Kill, Start, RestartProcess, SetMode, Install, Commanded
<1>2. CASE UNCHANGED <<job, overlapped>>
  BY <1>1, <1>2, RestsAlone DEF Ours
<1>3. ASSUME NEW cmd \in {"kill", "restart", "install"}, NEW p \in Ours,
             Begin(t, cmd, "term", p)
      PROVE  Alone'
  BY <1>1, <1>3, BeginsAlone DEF Ours, Commands, Places, Fits, Needy, Exposed
<1>4. ASSUME NEW cmd \in {"start", "restart"}, Found = {},
             Begin(t, cmd, "clear", NoPid)
      PROVE  Alone'
  <2>1. CASE overlapped
    BY <1>4, <2>1, Zenon DEF Begin, Alone
  <2>2. CASE ~overlapped
    BY <1>1, <1>4, <2>2, Seen, BeginsAlone DEF Commands, Places, Fits, Needy
  <2> QED BY <2>1, <2>2
<1>5. \A p : Proven(p) /\ p \in Pids => p \in Ours
  BY DEF Proven, Safe, Honest, Ours
<1>6. CASE Kill(t)
  BY <1>2, <1>3, <1>5, <1>6, FoundIsOurs, Tracked DEF Kill, Typed
<1>7. CASE Start(t)
  BY <1>2, <1>4, <1>7 DEF Start
<1>8. CASE RestartProcess(t)
  BY <1>2, <1>3, <1>4, <1>5, <1>8, FoundIsOurs, Tracked
     DEF RestartProcess, Typed
<1>9. CASE SetMode(t)
  BY <1>1, <1>9, BeginsAlone
     DEF SetMode, Commands, Places, Fits, Needy, Exposed, Modes
<1>10. CASE Install(t)
  BY <1>1, <1>3, <1>5, <1>10, BeginsAlone, Tracked
     DEF Install, Typed, Commands, Places, Fits, Needy, Exposed
<1> QED BY <1>6, <1>7, <1>8, <1>9, <1>10 DEF Command

(* Every step of a service that can tell its process.                      *)
LEMMA SteppingAlone ==
  ASSUME Discovery # "ambiguous", Typed, Safe, Alone, [Next]_vars
  PROVE  Alone'
<1>1. ASSUME NEW t \in Threads,
             Advance(t) \/ Hung(t) \/ Missing(t) \/ LaunchFails(t)
      PROVE  Alone'
  BY <1>1, LooksAlone, LaunchesAlone, EndsTheOne DEF Advance
<1>2. ASSUME NEW t \in Workers, Command(t) PROVE Alone'
  BY <1>2, CommandsAlone DEF Threads
<1>3. CASE Tick
  <2>1. monitor \in Threads
    BY DEF Threads
  <2> QED BY <1>3, <2>1, EndsAlone, BeginsAlone
          DEF Tick, Transition, Commands, Places, Fits, Needy, Exposed
<1>4. CASE Recover
  <2>1. monitor \in Threads
    BY DEF Threads
  <2>2. /\ Others(monitor) /\ job'[monitor].at = "idle"
        /\ job[monitor].at # "idle"
    BY <1>4, <2>1 DEF Recover, At, Idle, Others, Typed, JobsTyped
  <2>3. Ours' = Ours /\ overlapped' = overlapped
    BY <1>4 DEF Recover, Ours
  <2>4. CASE ~overlapped
    BY <2>1, <2>2, <2>3, <2>4, AtWork, MovesAlone DEF Single, Exposed
  <2> QED BY <2>3, <2>4 DEF Alone
<1>5. CASE Restart \/ Reboot
  BY <1>5, ForgetsAlone DEF Restart, Reboot, Ours
<1>6. ASSUME NEW p \in Pids, Die(p) \/ Recycle(p) PROVE Alone'
  <2>1. Ours' \subseteq Ours
    BY <1>6 DEF Die, Recycle, Ours, Typed, TablesTyped
  <2> QED BY <1>6, <2>1, RestsAlone DEF Die, Recycle
<1>7. CASE EditMode \/ Cool \/ PromptEnds \/ UNCHANGED vars
  BY <1>7, RestsAlone DEF EditMode, Cool, PromptEnds, vars, Ours
<1> QED BY <1>1, <1>2, <1>3, <1>4, <1>5, <1>6, <1>7 DEF Next

(* In the beginning no thread is at work and nothing runs.                 *)
LEMMA AloneInit == Init => Alone
<1> SUFFICES ASSUME Init PROVE Alone
  OBVIOUS
<1>1. Ours = {} /\ \A t \in Threads : job[t].at = "idle"
  BY DEF Init, Ours, Idle
<1> QED BY <1>1 DEF Alone, Single, Apart, Vacant, Aimed, Exposed

(* An entry whose process can be told, by the path in its command line or  *)
(* as the only one of its image, has one instance, whatever crashes,       *)
(* launches and restarts of the service do, until a thread begins while    *)
(* another is at work.                                                     *)
THEOREM OneInstanceAtATime ==
  ASSUME Discovery # "ambiguous"
  PROVE  Spec => []OneUnlessOverlapped
<1>1. Init => Alone
  BY AloneInit
<1>2. Typed /\ Safe /\ Alone /\ [Next]_vars => Alone'
  BY SteppingAlone
<1>3. Alone => OneUnlessOverlapped
  <2> SUFFICES ASSUME Alone, ~overlapped PROVE ~(Cardinality(Ours) > 1)
    BY DEF OneUnlessOverlapped
  <2>1. Ours = {} \/ \E p : Ours = {p}
    BY DEF Alone, Single
  <2>2. Cardinality(Ours) \in {0, 1}
    BY <2>1, FS_EmptySet, FS_Singleton
  <2> QED BY <2>2
<1> QED BY <1>1, <1>2, <1>3, Invariance, PTL DEF Spec
-----------------------------------------------------------------------------
(* The account behind the reboot prompt: what has been counted against the *)
(* entry is covered by the failures and commands there have been, up to    *)
(* the one attempt for which a thread is replacing the process right now.  *)
Credit == faults + commands
Charge == IF attempts = 0 THEN 1 ELSE attempts
Launching(t) == job[t].at \in {"launch", "record", "finish"}

(* Nothing has happened yet: the loop is about to launch for the first     *)
(* time, or the entry was off from the start.                              *)
Pristine(t) ==
  /\ Credit = 0 /\ attempts = 0 /\ first
  /\ Ours = {} /\ last_started = Untracked /\ ~install_lock
  /\ job[t].at = "idle" \/ (t = monitor /\ job[t].at \in {"look", "wait"})
SwitchedOff(t) ==
  /\ Credit = 0 /\ attempts = 0 /\ ~first
  /\ mode = "off" /\ job[t].at = "idle"

(* An attempt has been spent on what is being launched, or on what runs.   *)
Replacing(t) ==
  \/ job[t].at = "launch"
  \/ job[t].at \in {"record", "finish"} /\ Running(job[t].pid)
  \/ job[t].at = "term" /\ job[t].cmd = "hung"
Resting(t) ==
  Running(last_started.pid) /\ job[t].at \in {"idle", "look", "alive"}

Slack == Charge <= Credit
Solvent(t) ==
  /\ Charge <= Credit + 1
  /\ Slack \/ Pristine(t) \/ SwitchedOff(t) \/ Replacing(t) \/ Resting(t)

(* A retry that comes too early spends an attempt on nothing.              *)
Retrying(t) ==
  /\ job[t].at = "look" => ~job[t].failed
  /\ /\ job[t].at = "wait" \/ (job[t].at \in {"fresh", "pop"} /\ job[t].failed)
     /\ last_started.mark \in Dated
     => Charge < Credit \/ (first /\ t = monitor /\ attempts < Credit)

(* In the first round of the loop an attempt is counted from zero, and the *)
(* commands have brought in more than they have spent.                     *)
FirstRound(t) ==
  first =>
    /\ job[t].at \notin {"alive", "fresh", "pop", "seize"}
    /\ ~(t = monitor /\ Launching(t))
         => attempts <= Credit
            /\ (last_started.mark = "failed" => attempts < Credit)
    /\ t # monitor /\ job[t].at # "idle" /\ ~Launching(t)
         => attempts < Credit
    /\ t # monitor /\ job[t].at \in {"look", "wait"}
         => last_started.mark # "failed"

Sound(t) ==
  /\ Solvent(t) /\ Retrying(t) /\ FirstRound(t)
  /\ job[t].at = "seize" => job[t].cmd = "hung"
  /\ Credit = 0 => seen \in {"unset", mode}
  /\ prompt => Credit > RELAUNCHES

Ledger ==
  /\ faults \in Nat /\ commands \in Nat
  /\ ~overlapped => Apart /\ \A t \in Threads : Quiet(t) => Sound(t)

Counted == faults \in Nat /\ commands \in Nat

(* A thread acts while the others rest, and its account stays in order.    *)
LEMMA ActsSoundly ==
  ASSUME NEW t \in Threads, Others(t), Quiet(t), Sound(t)', Counted'
  PROVE  Ledger'
<1>1. \A u \in Threads \ {t} : job'[u].at = "idle"
  BY DEF Others, Quiet
<1>2. Apart'
  BY <1>1 DEF Apart, Quiet
<1>3. ASSUME NEW u \in Threads, Quiet(u)' PROVE Sound(u)'
  <2>1. CASE u # t
    <3>1. job'[u].at = "idle" /\ job'[t].at = "idle"
      BY <1>1, <1>3, <2>1 DEF Quiet
    <3> QED BY <3>1 DEF Sound, Solvent, Retrying, FirstRound, Pristine,
               SwitchedOff, Replacing, Resting, Launching
  <2> QED BY <2>1
<1> QED BY <1>2, <1>3 DEF Ledger, Counted

(* What a thread finds that is at work without an overlap.                 *)
LEMMA Accounted ==
  ASSUME Ledger, ~overlapped, NEW t \in Threads, job[t].at # "idle"
  PROVE  Quiet(t) /\ Sound(t)
BY DEF Ledger, Apart

(* What is known of a thread that goes on, ends or begins.                 *)
LEMMA Gone ==
  ASSUME Typed, NEW t \in Threads, NEW at, NEW p, Go(t, at, p)
  PROVE  /\ Others(t) /\ job'[t].at = at /\ job'[t].pid = p
         /\ job'[t].cmd = job[t].cmd /\ job'[t].failed = job[t].failed
         /\ first' = first /\ overlapped' = overlapped
<1>1. job[t] \in Job
  BY DEF Typed, JobsTyped
<1>2. job' = [job EXCEPT ![t] = [job[t] EXCEPT !.at = at, !.pid = p]]
  BY DEF Go
<1>3. LET j == [job[t] EXCEPT !.at = at, !.pid = p]
      IN  /\ j.at = at /\ j.pid = p
          /\ j.cmd = job[t].cmd /\ j.failed = job[t].failed
  BY <1>1 DEF Job
<1> QED BY <1>2, <1>3 DEF Go, Typed, JobsTyped, Others

(* One that ends leaves the others alone, and the loop its first round.     *)
LEMMA Over ==
  ASSUME Typed, NEW t \in Threads, Done(t)
  PROVE  /\ Others(t) /\ job'[t].at = "idle" /\ overlapped' = overlapped
         /\ first' => first /\ t # monitor
<1>1. first' => first /\ t # monitor
  BY Zenon DEF Done
<1> QED BY <1>1, Ending DEF Typed, Done

(* One that begins while nothing overlaps finds the others idle.           *)
LEMMA Begun ==
  ASSUME Typed, NEW t \in Threads, NEW cmd, NEW at, NEW p,
         Begin(t, cmd, at, p)
  PROVE  /\ Others(t) /\ job'[t].at = at /\ job'[t].pid = p
         /\ job'[t].cmd = cmd /\ ~job'[t].failed /\ first' = first
         /\ ~overlapped' => ~overlapped /\ Quiet(t)
<1>1. job' = [job EXCEPT ![t] = [cmd |-> cmd, at |-> at, pid |-> p,
                                 failed |-> FALSE]]
  BY DEF Begin
<1>2. ~overlapped' => ~overlapped /\ Quiet(t)
  BY Zenon DEF Begin, Quiet, At
<1> QED BY <1>1, <1>2 DEF Begin, Typed, JobsTyped, Others

(* A thread ends, and the account is in order if its numbers are.          *)
LEMMA EndsSoundly ==
  ASSUME Typed, NEW t \in Threads, Done(t),
         Charge' <= Credit' + 1, Slack' \/ Running(last_started.pid)',
         first /\ t # monitor => attempts' <= Credit'
           /\ (last_started'.mark = "failed" => attempts' < Credit'),
         Credit' = 0 => seen' \in {"unset", mode'},
         prompt' => Credit' > RELAUNCHES
  PROVE  Others(t) /\ Sound(t)'
<1>1. /\ Others(t) /\ job'[t].at = "idle"
      /\ first' => first /\ t # monitor
  BY Over
<1> QED BY <1>1 DEF Sound, Solvent, Retrying, FirstRound, Resting, Launching

(* What a thread at work knows of its account.                             *)
LEMMA Charging ==
  ASSUME Typed, Counted
  PROVE  /\ Credit \in Nat /\ attempts \in Nat /\ RELAUNCHES \in Nat
         /\ Charge \in Nat \ {0} /\ attempts <= Charge
         /\ attempts # 0 => Charge = attempts
BY SupervisionAssumption DEF Typed, Budgeted, Counted, Credit, Charge

(* Where the numbers stay as they are, so does what they add up to.        *)
LEMMA Balanced ==
  ASSUME UNCHANGED <<attempts, bounds>>
  PROVE  Credit' = Credit /\ Charge' = Charge /\ (Slack' <=> Slack)
BY DEF Credit, Charge, Slack, bounds

(* A round of the loop that ends without a change of the numbers.          *)
LEMMA PassesSoundly ==
  ASSUME Typed, Counted, NEW t \in Threads, Sound(t), Done(t), Steady,
         Slack \/ Running(last_started.pid)',
         last_started'.mark = "failed" => last_started.mark = "failed"
  PROVE  Others(t) /\ Sound(t)'
<1>1. /\ Credit' = Credit /\ Charge' = Charge /\ (Slack' <=> Slack)
      /\ UNCHANGED <<attempts, mode, seen, prompt>>
  BY Balanced DEF Steady
<1>2. Charge <= Credit + 1
  BY DEF Sound, Solvent
<1>3. first /\ t # monitor => attempts <= Credit
          /\ (last_started'.mark = "failed" => attempts < Credit)
  BY DEF Sound, FirstRound
<1>4. /\ Credit = 0 => seen \in {"unset", mode}
      /\ prompt => Credit > RELAUNCHES
  BY DEF Sound
<1> QED BY <1>1, <1>2, <1>3, <1>4, EndsSoundly

(* The places of handle_process: they spend nothing, and a crash or a hung *)
(* process that they come upon has been paid for.                          *)
LEMMA LooksSoundly ==
  ASSUME Typed, Counted, NEW t \in Threads, Sound(t),
         \/ Skip(t) \/ FirstLook(t) \/ Look(t) \/ LookAgain(t)
         \/ Alive(t) \/ Fresh(t) \/ Pop(t)
  PROVE  Others(t) /\ Sound(t)'
<1>1. /\ Charge <= Credit + 1
      /\ Slack \/ Pristine(t) \/ SwitchedOff(t) \/ Replacing(t) \/ Resting(t)
  BY DEF Sound, Solvent
<1>2. Running(last_started.pid) => last_started.mark = "pid"
  BY DEF Typed, Marked, Marks, Tracking, Untracked, LaunchFailed, Killed,
         Running
<1>3. ASSUME UNCHANGED <<os, last_started, attempts, bounds, install_lock,
                         seen, prompt, mode>>
      PROVE  /\ Credit' = Credit /\ Charge' = Charge /\ (Slack' <=> Slack)
             /\ Running(last_started.pid)' <=> Running(last_started.pid)
             /\ Ours' = Ours
  BY <1>3, Balanced DEF Running, Ours
<1>4. ASSUME NEW p \in Found, Adopt(t, p), UNCHANGED os
      PROVE  /\ Running(last_started.pid)' /\ last_started'.mark = "pid"
             /\ Done(t)
  <2>1. p \in Pids /\ os[p] = "ours" /\ last_started' = Tracking(p)
    BY <1>4, FoundIsOurs DEF Adopt, Ours
  <2> QED BY <1>4, <2>1, SupervisionAssumption DEF Adopt, Tracking, Running
<1>5. CASE Skip(t)
  <2>1. job[t].at = "look" /\ (install_lock \/ last_started = Killed)
    BY <1>5 DEF Skip, At, Typed, Marked, Marks, Tracking, Untracked,
                LaunchFailed, Killed
  <2>2. Slack \/ Running(last_started.pid)
    BY <1>1, <2>1 DEF Pristine, SwitchedOff, Replacing, Resting, Untracked,
                      Killed
  <2> QED BY <1>5, <2>2, PassesSoundly DEF Skip, Running
<1>6. CASE Alive(t)
  <2>1. Slack \/ Running(last_started.pid)
    BY <1>1, <1>6 DEF Alive, At, Pristine, SwitchedOff, Replacing, Resting
  <2> QED BY <1>6, <2>1, PassesSoundly DEF Alive, Running
<1>7. CASE FirstLook(t)
  <2>1. job[t].at = "look" /\ UNCHANGED os /\ Steady
    BY <1>7 DEF FirstLook, At
  <2>2. CASE \E p \in Found : Adopt(t, p)
    BY <1>4, <2>1, <2>2, PassesSoundly
  <2>3. CASE last_started.mark = "pid" /\ Done(t) /\ UNCHANGED last_started
    <3>1. Slack \/ Running(last_started.pid)
      BY <1>1, <2>1, <2>3 DEF Pristine, SwitchedOff, Replacing, Resting,
                              Untracked
    <3> QED BY <2>1, <2>3, <3>1, PassesSoundly DEF Running
  <2>4. CASE /\ last_started.mark \notin {"pid", "killed"}
             /\ Go(t, "wait", NoPid) /\ UNCHANGED last_started
    <3>1. /\ Others(t) /\ job'[t].at = "wait" /\ job'[t].failed = job[t].failed
          /\ first' = first /\ first
      BY <1>7, <2>4, Gone DEF FirstLook
    <3>2. Slack \/ Pristine(t)
      BY <1>1, <1>2, <2>1, <2>4
         DEF SwitchedOff, Replacing, Resting
    <3>3. UNCHANGED <<os, last_started, attempts, bounds, install_lock, seen,
                      prompt, mode>>
      BY <2>1, <2>4 DEF Steady
    <3>4. Solvent(t)'
      BY <1>1, <1>3, <2>1, <3>1, <3>2, <3>3 DEF Solvent, Pristine
    <3>5. Retrying(t)'
      BY <1>3, <2>1, <2>4, <3>1, <3>3 DEF Retrying, Sound, FirstRound, Dated,
         Launching
    <3>6. FirstRound(t)'
      BY <1>3, <2>1, <3>1, <3>3 DEF Sound, FirstRound, Launching
    <3> QED BY <1>3, <3>1, <3>3, <3>4, <3>5, <3>6 DEF Sound
  <2> QED BY <1>7, <2>2, <2>3, <2>4 DEF FirstLook
<1>8. CASE Look(t)
  <2>1. /\ job[t].at = "look" /\ UNCHANGED <<os, last_started>> /\ Steady
        /\ ~first
    BY <1>8 DEF Look, At
  <2>2. /\ Others(t) /\ job'[t].failed = job[t].failed /\ first' = first
        /\ job'[t].at = IF Running(last_started.pid) THEN "alive" ELSE "fresh"
    BY <1>8, Gone DEF Look
  <2>3. UNCHANGED <<os, last_started, attempts, bounds, install_lock, seen,
                    prompt, mode>>
    BY <2>1 DEF Steady
  <2>4. Solvent(t)'
    BY <1>1, <1>3, <2>1, <2>2, <2>3
       DEF Solvent, Pristine, SwitchedOff, Replacing, Resting
  <2>5. Retrying(t)'
    BY <2>1, <2>2 DEF Sound, Retrying
  <2> QED BY <1>3, <2>1, <2>2, <2>3, <2>4, <2>5 DEF Sound, FirstRound
<1>9. CASE LookAgain(t)
  <2>1. /\ job[t].at = "look" /\ UNCHANGED os /\ Steady /\ ~first
        /\ last_started.mark \in {"failed", "cooled"}
    BY <1>9 DEF LookAgain, At
  <2>2. Slack
    BY <1>1, <1>2, <2>1 DEF Pristine, SwitchedOff, Replacing, Resting
  <2>3. CASE \E p \in Found : Adopt(t, p)
    BY <1>4, <2>1, <2>3, PassesSoundly
  <2>4. CASE Done(t) /\ UNCHANGED last_started
    BY <2>1, <2>2, <2>4, PassesSoundly
  <2>5. CASE /\ last_started.mark = "cooled" /\ UNCHANGED last_started
             /\ job' = [job EXCEPT ![t].at = "fresh", ![t].failed = TRUE]
             /\ UNCHANGED <<first, overlapped>>
    <3>1. Others(t) /\ job'[t].at = "fresh"
      BY <2>5 DEF Others, Typed, JobsTyped, Job
    <3>2. UNCHANGED <<os, last_started, attempts, bounds, install_lock, seen,
                      prompt, mode>>
      BY <2>1, <2>5 DEF Steady
    <3> QED BY <1>1, <1>3, <2>1, <2>2, <2>5, <3>1, <3>2
            DEF Sound, Solvent, Retrying, FirstRound, Dated
  <2> QED BY <1>9, <2>1, <2>3, <2>4, <2>5 DEF LookAgain
<1>10. CASE Fresh(t)
  <2>1. job[t].at = "fresh" /\ UNCHANGED os /\ Steady /\ ~first
    BY <1>10 DEF Fresh, At, Sound, FirstRound
  <2>2. Slack
    BY <1>1, <2>1 DEF Pristine, SwitchedOff, Replacing, Resting
  <2>3. CASE \E p \in Found : Adopt(t, p)
    BY <1>4, <2>1, <2>3, PassesSoundly
  <2>4. CASE last_started' = Untracked /\ Done(t)
    BY <2>1, <2>2, <2>4, PassesSoundly DEF Untracked
  <2>5. CASE Go(t, "pop", NoPid) /\ UNCHANGED last_started
    <3>1. /\ Others(t) /\ job'[t].failed = job[t].failed /\ first' = first
          /\ job'[t].at = "pop"
      BY <2>5, Gone
    <3>2. UNCHANGED <<os, last_started, attempts, bounds, install_lock, seen,
                      prompt, mode>>
      BY <2>1, <2>5 DEF Steady
    <3>3. Solvent(t)'
      BY <1>1, <1>3, <2>2, <3>2 DEF Solvent
    <3>4. Retrying(t)'
      BY <1>3, <2>1, <3>1, <3>2 DEF Sound, Retrying
    <3> QED BY <1>3, <2>1, <3>1, <3>2, <3>3, <3>4 DEF Sound, FirstRound
  <2> QED BY <1>10, <2>3, <2>4, <2>5 DEF Fresh
<1>11. CASE Pop(t)
  <2>1. /\ job[t].at = "pop" /\ ~first
        /\ UNCHANGED <<os, attempts, bounds, seen, prompt, mode>>
    BY <1>11 DEF Pop, At, Sound, FirstRound
  <2>2. Slack
    BY <1>1, <2>1 DEF Pristine, SwitchedOff, Replacing, Resting
  <2>3. /\ Others(t) /\ job'[t].failed = job[t].failed /\ first' = first
        /\ job'[t].at = "wait"
    BY <1>11, Gone DEF Pop
  <2>4. Solvent(t)'
    BY <1>1, <2>1, <2>2, Balanced DEF Solvent
  <2>5. Retrying(t)'
    <3>1. CASE job[t].failed
      <4>1. last_started' = last_started
        BY <1>11, <3>1 DEF Pop
      <4> QED BY <2>1, <2>3, <3>1, <4>1, Balanced DEF Sound, Retrying
    <3>2. CASE ~job[t].failed
      <4>1. last_started' = Untracked
        BY <1>11, <3>2 DEF Pop
      <4> QED BY <2>3, <4>1 DEF Retrying, Untracked, Dated
    <3> QED BY <3>1, <3>2
  <2> QED BY <2>1, <2>3, <2>4, <2>5, Balanced DEF Sound, FirstRound
<1> QED BY <1>5, <1>6, <1>7, <1>8, <1>9, <1>10, <1>11

(* The places of the launch. An attempt is spent when the launch begins,   *)
(* or where D is there to pay for it; each failure brings one in.          *)
LEMMA LaunchesSoundly ==
  ASSUME Typed, Counted, NEW t \in Threads, Sound(t),
         \/ FindLaunched(t) \/ Reserve(t) \/ Suspended(t) \/ Escalate(t)
         \/ Missing(t) \/ Launch(t) \/ LaunchFails(t) \/ Record(t) \/ Finish(t)
  PROVE  Others(t) /\ Sound(t)'
<1>1. /\ Charge <= Credit + 1
      /\ Slack \/ Pristine(t) \/ SwitchedOff(t) \/ Replacing(t) \/ Resting(t)
      /\ Credit = 0 => seen \in {"unset", mode}
      /\ prompt => Credit > RELAUNCHES
  BY DEF Sound, Solvent
<1>2. /\ Credit \in Nat /\ attempts \in Nat /\ RELAUNCHES \in Nat
      /\ Charge \in Nat \ {0} /\ attempts <= Charge
      /\ attempts # 0 => Charge = attempts
  BY Charging
<1>3. job[t].at = "wait" => Slack \/ Pristine(t)
  BY <1>1 DEF SwitchedOff, Replacing, Resting
<1>4. job[t].at = "wait" /\ first /\ t # monitor
        => attempts < Credit /\ last_started.mark # "failed"
  BY DEF Sound, FirstRound, Launching
<1>5. ASSUME faults' = faults + 1, UNCHANGED commands
      PROVE  Credit' = Credit + 1
  BY <1>5 DEF Credit, Counted
<1>6. CASE FindLaunched(t)
  <2>1. /\ job[t].at = "wait" /\ Steady /\ UNCHANGED <<os, last_started>>
        /\ Running(last_started.pid) /\ Return(t, last_started.pid)
    BY <1>6 DEF FindLaunched, Enter, At, AlreadyUp
  <2>2. UNCHANGED <<attempts, bounds, seen, prompt, mode>>
    BY <2>1 DEF Steady
  <2>3. Slack
    BY <1>3, <2>1, SupervisionAssumption DEF Pristine, Untracked, Running
  <2>4. CASE Done(t)
    BY <2>1, <2>3, <2>4, PassesSoundly
  <2>5. CASE Go(t, "finish", last_started.pid)
    <3>1. /\ Others(t) /\ job'[t].at = "finish" /\ first' = first
      BY <2>5, Gone
    <3>2. Solvent(t)'
      BY <1>1, <2>2, <2>3, Balanced DEF Solvent
    <3>3. FirstRound(t)'
      BY <1>2, <1>4, <2>1, <2>2, <3>1, Balanced DEF FirstRound, Launching
    <3> QED BY <1>1, <2>2, <3>1, <3>2, <3>3, Balanced DEF Sound, Retrying
  <2> QED BY <2>1, <2>4, <2>5 DEF Return
<1>7. CASE Reserve(t)
  <2>1. /\ job[t].at = "wait" /\ Spend
        /\ UNCHANGED <<os, last_started, seen, prompt, mode, bounds>>
    BY <1>7 DEF Reserve, Enter, At
  <2>2. Credit' = Credit
    BY <2>1 DEF Credit, bounds
  <2>3. /\ attempts' \in Nat
        /\ attempts = 0 /\ first => attempts' = 1
        /\ attempts' <= Charge + 1 /\ attempts' # 0
        /\ first => attempts' <= attempts + 1
    BY <1>2, <2>1 DEF Spend, Spent, Charge
  <2>4. Charge' = attempts'
    BY <2>3 DEF Charge
  <2>5. CASE Go(t, "launch", NoPid)
    <3>1. Others(t) /\ job'[t].at = "launch" /\ first' = first
      BY <2>5, Gone
    <3>2. Charge' <= Credit' + 1
      <4>1. CASE Slack
        BY <1>2, <2>2, <2>3, <2>4, <4>1 DEF Slack
      <4>2. CASE Pristine(t)
        BY <2>2, <2>3, <2>4, <4>2 DEF Pristine
      <4> QED BY <1>3, <2>1, <4>1, <4>2
    <3>3. Solvent(t)'
      BY <3>1, <3>2 DEF Solvent, Replacing
    <3>4. FirstRound(t)'
      BY <1>2, <1>4, <2>1, <2>2, <2>3, <3>1 DEF FirstRound, Launching
    <3> QED BY <1>1, <2>1, <2>2, <3>1, <3>3, <3>4 DEF Sound, Retrying
  <2>6. CASE last_started.mark \in Dated /\ Done(t)
    <3>1. Charge < Credit \/ (first /\ t = monitor /\ attempts < Credit)
      BY <2>1, <2>6 DEF Sound, Retrying
    <3>2. Slack'
      BY <1>2, <2>2, <2>3, <2>4, <3>1 DEF Slack
    <3>3. Charge' <= Credit' + 1
      BY <1>2, <2>2, <2>3, <2>4, <3>2 DEF Slack
    <3>4. first /\ t # monitor => attempts' <= Credit'
            /\ (last_started'.mark = "failed" => attempts' < Credit')
      BY <1>2, <1>4, <2>1, <2>2, <2>3
    <3> QED BY <1>1, <2>1, <2>2, <2>6, <3>2, <3>3, <3>4, EndsSoundly
  <2> QED BY <1>7, <2>5, <2>6 DEF Reserve
<1>8. CASE Suspended(t)
  <2>1. job[t].at = "wait" /\ prompt
    BY <1>8 DEF Suspended, Enter, At
  <2>2. Slack
    BY <1>1, <1>2, <1>3, <2>1 DEF Pristine
  <2> QED BY <1>8, <2>2, PassesSoundly DEF Suspended
<1>9. CASE Escalate(t)
  <2>1. /\ job[t].at = "wait" /\ WornOut /\ attempts' = 0 /\ Done(t)
        /\ UNCHANGED <<os, last_started, seen, mode, bounds>>
    BY <1>9 DEF Escalate, Enter, At
  <2>2. Credit > RELAUNCHES
    <3>1. CASE Slack
      BY <1>2, <2>1, <3>1 DEF WornOut, Spent, Slack, Charge
    <3>2. CASE Pristine(t)
      BY <1>2, <2>1, <3>2 DEF Pristine, WornOut, Spent
    <3> QED BY <1>3, <2>1, <3>1, <3>2
  <2>3. Credit' = Credit /\ Charge' = 1
    BY <2>1 DEF Credit, Charge, bounds
  <2>4. Slack' /\ Charge' <= Credit' + 1 /\ Credit' # 0
    BY <1>2, <2>2, <2>3 DEF Slack
  <2>5. attempts' < Credit' /\ attempts' <= Credit'
    BY <1>2, <2>1, <2>2, <2>3
  <2> QED BY <2>1, <2>2, <2>3, <2>4, <2>5, EndsSoundly
<1>10. CASE Missing(t)
  <2>1. /\ job[t].at = "wait" /\ Done(t)
        /\ faults' = faults + 1 /\ UNCHANGED <<attempts, seen, prompt, mode,
                                              commands>>
    BY <1>10 DEF Missing, Enter, At
  <2>2. Credit' = Credit + 1 /\ Charge' = Charge
    BY <1>5, <2>1 DEF Charge
  <2>3. Slack' /\ Charge' <= Credit' + 1
    BY <1>1, <1>2, <2>2 DEF Slack
  <2>4. first /\ t # monitor => attempts' < Credit'
    BY <1>2, <1>4, <2>1, <2>2
  <2>5. Credit' # 0 /\ (prompt' => Credit' > RELAUNCHES)
    BY <1>1, <1>2, <2>1, <2>2
  <2>6. first /\ t # monitor => attempts' <= Credit'
    BY <1>2, <2>1, <2>2, <2>4
  <2> QED BY <2>1, <2>3, <2>4, <2>5, <2>6, EndsSoundly
<1>11. CASE Launch(t)
  <2>1. PICK p \in Pids : os' = [os EXCEPT ![p] = "ours"] /\ Go(t, "record", p)
    BY <1>11 DEF Launch
  <2>2. /\ Others(t) /\ job'[t].at = "record" /\ job'[t].pid = p
        /\ first' = first
    BY <2>1, Gone
  <2>3. /\ job[t].at = "launch"
        /\ UNCHANGED <<last_started, attempts, seen, prompt, mode, bounds>>
    BY <1>11 DEF Launch, Steady, At
  <2>4. Replacing(t)'
    BY <2>1, <2>2, SupervisionAssumption
       DEF Replacing, Running, Typed, TablesTyped
  <2>5. Solvent(t)'
    BY <1>1, <2>3, <2>4, Balanced DEF Solvent
  <2>6. FirstRound(t)'
    BY <2>2, <2>3, Balanced DEF Sound, FirstRound, Launching
  <2> QED BY <1>1, <2>2, <2>3, <2>5, <2>6, Balanced DEF Sound, Retrying
<1>12. CASE LaunchFails(t)
  <2>1. /\ job[t].at = "launch" /\ Done(t)
        /\ faults' = faults + 1 /\ UNCHANGED <<attempts, seen, prompt, mode,
                                              commands>>
    BY <1>12 DEF LaunchFails, At
  <2>2. Credit' = Credit + 1 /\ Charge' = Charge
    BY <1>5, <2>1 DEF Charge
  <2>3. Slack' /\ Charge' <= Credit' + 1
    BY <1>1, <1>2, <2>2 DEF Slack
  <2>4. first /\ t # monitor => attempts <= Credit
    BY DEF Sound, FirstRound
  <2>5. first /\ t # monitor => attempts' < Credit' /\ attempts' <= Credit'
    BY <1>2, <2>1, <2>2, <2>4
  <2>6. Credit' # 0 /\ (prompt' => Credit' > RELAUNCHES)
    BY <1>1, <1>2, <2>1, <2>2
  <2> QED BY <2>1, <2>3, <2>5, <2>6, EndsSoundly
<1>13. CASE Record(t)
  <2> DEFINE p == job[t].pid
  <2>1. /\ job[t].at = "record" /\ last_started' = Tracking(p)
        /\ Return(t, p)
        /\ UNCHANGED <<os, attempts, seen, prompt, mode, bounds>>
    BY <1>13 DEF Record, At
  <2>2. Slack \/ Running(p)
    BY <1>1, <2>1 DEF Pristine, SwitchedOff, Replacing, Resting
  <2>3. first /\ t # monitor => attempts <= Credit
    BY DEF Sound, FirstRound
  <2>4. last_started'.mark = "pid" /\ last_started'.pid = p
    BY <2>1 DEF Tracking
  <2>5. CASE Done(t)
    <3>1. Slack' \/ Running(last_started.pid)'
      BY <2>1, <2>2, <2>4, Balanced DEF Running
    <3>2. Charge' <= Credit' + 1
      BY <1>1, <2>1, Balanced
    <3>3. first /\ t # monitor => attempts' <= Credit'
      BY <2>1, <2>3, Balanced
    <3>4. /\ Credit' = 0 => seen' \in {"unset", mode'}
          /\ prompt' => Credit' > RELAUNCHES
      BY <1>1, <2>1, Balanced
    <3> QED BY <2>4, <2>5, <3>1, <3>2, <3>3, <3>4, EndsSoundly
  <2>6. CASE Go(t, "finish", p)
    <3>1. Others(t) /\ job'[t].at = "finish" /\ job'[t].pid = p
          /\ first' = first
      BY <2>6, Gone
    <3>2. Slack' \/ Replacing(t)'
      BY <2>1, <2>2, <3>1, Balanced DEF Running, Replacing
    <3>3. Solvent(t)'
      BY <1>1, <2>1, <3>2, Balanced DEF Solvent
    <3>4. FirstRound(t)'
      BY <2>1, <2>3, <2>4, <3>1, Balanced DEF FirstRound, Launching
    <3> QED BY <1>1, <2>1, <3>1, <3>3, <3>4, Balanced DEF Sound, Retrying
  <2> QED BY <2>1, <2>5, <2>6 DEF Return
<1>14. CASE Finish(t)
  <2>1. /\ job[t].at = "finish" /\ last_started' = Tracking(job[t].pid)
        /\ Done(t) /\ UNCHANGED os /\ Steady
    BY <1>14 DEF Finish, At
  <2>2. Slack \/ Running(job[t].pid)
    BY <1>1, <2>1 DEF Pristine, SwitchedOff, Replacing, Resting
  <2>3. Slack \/ Running(last_started.pid)'
    BY <2>1, <2>2 DEF Running, Tracking
  <2> QED BY <2>1, <2>3, PassesSoundly DEF Tracking
<1> QED BY <1>6, <1>7, <1>8, <1>9, <1>10, <1>11, <1>12, <1>13, <1>14

(* The places of an end, and a thread that has found the process hung.     *)
LEMMA EndsInOrder ==
  ASSUME Typed, Counted, NEW t \in Threads, Sound(t), ~overlapped',
         \/ Hung(t) \/ Seize(t) \/ Terminate(t) \/ MarkEnded(t) \/ Clear(t)
         \/ ApplyMode(t) \/ Installed(t)
  PROVE  Others(t) /\ Sound(t)'
<1>1. /\ Charge <= Credit + 1
      /\ Slack \/ Pristine(t) \/ SwitchedOff(t) \/ Replacing(t) \/ Resting(t)
      /\ Credit = 0 => seen \in {"unset", mode}
      /\ prompt => Credit > RELAUNCHES
  BY DEF Sound, Solvent
<1>2. /\ Credit \in Nat /\ attempts \in Nat /\ RELAUNCHES \in Nat
      /\ Charge \in Nat \ {0} /\ attempts <= Charge
      /\ attempts # 0 => Charge = attempts
  BY Charging
<1>3. job[t].at \in {"seize", "mark", "clear", "apply", "installing"} => Slack
  BY <1>1 DEF Pristine, SwitchedOff, Replacing, Resting
<1>4. /\ first => job[t].at \notin {"alive", "seize"}
      /\ first /\ ~(t = monitor /\ Launching(t))
           => attempts <= Credit
              /\ (last_started.mark = "failed" => attempts < Credit)
      /\ first /\ t # monitor /\ job[t].at # "idle" /\ ~Launching(t)
           => attempts < Credit
  BY DEF Sound, FirstRound
<1>5. CASE Hung(t)
  <2>1. /\ job[t].at = "alive" /\ Begin(t, "hung", "seize", job[t].pid)
        /\ faults' = faults + 1
        /\ UNCHANGED <<attempts, prompt, commands>>
    BY <1>5 DEF Hung, At, memory
  <2>2. /\ Others(t) /\ job'[t].at = "seize" /\ job'[t].cmd = "hung"
        /\ first' = first /\ ~first
    BY <1>4, <2>1, Begun
  <2>3. Credit' = Credit + 1 /\ Charge' = Charge
    BY <2>1 DEF Credit, Charge, Counted
  <2>4. Solvent(t)'
    BY <1>1, <1>2, <2>3 DEF Solvent, Slack
  <2>5. Credit' # 0 /\ (prompt' => Credit' > RELAUNCHES)
    BY <1>1, <1>2, <2>1, <2>3
  <2> QED BY <2>2, <2>4, <2>5 DEF Sound, Retrying, FirstRound
<1>6. CASE Seize(t)
  <2> DEFINE p == job[t].pid
  <2>1. /\ job[t].at = "seize" /\ ~first /\ Slack
        /\ UNCHANGED <<os, install_lock, seen, mode, bounds>>
    BY <1>3, <1>4, <1>6 DEF Seize, At
  <2>2. Credit' = Credit
    BY <2>1 DEF Credit, bounds
  <2>3. CASE Done(t) /\ UNCHANGED <<attempts, prompt>>
    <3>1. Charge' = Charge
      BY <2>3 DEF Charge
    <3>2. Slack' /\ Charge' <= Credit' + 1
      BY <1>1, <2>1, <2>2, <3>1 DEF Slack
    <3> QED BY <1>1, <2>1, <2>2, <2>3, <3>2, EndsSoundly
  <2>4. CASE /\ prompt \/ WornOut
             /\ Done(t) /\ prompt' = TRUE
             /\ attempts' = IF prompt THEN attempts ELSE 0
    <3>1. Credit > RELAUNCHES
      <4>1. CASE prompt
        BY <1>1, <4>1
      <4>2. CASE WornOut
        BY <1>2, <2>1, <4>2 DEF WornOut, Spent, Slack, Charge
      <4> QED BY <2>4, <4>1, <4>2
    <3>2. Charge' \in {Charge, 1}
      BY <2>4 DEF Charge
    <3>3. Slack' /\ Charge' <= Credit' + 1 /\ Credit' # 0
      BY <1>1, <1>2, <2>1, <2>2, <3>1, <3>2 DEF Slack
    <3> QED BY <2>1, <2>2, <2>4, <3>1, <3>3, EndsSoundly
  <2>5. CASE /\ Spend /\ Go(t, "term", p)
             /\ UNCHANGED <<last_started, prompt>>
    <3>1. /\ Others(t) /\ job'[t].at = "term" /\ job'[t].cmd = "hung"
          /\ first' = first
      BY <2>1, <2>5, Gone DEF Sound
    <3>2. attempts' \in 1..(Charge + 1)
      BY <1>2, <2>1, <2>5 DEF Spend, Spent, Charge
    <3>3. Charge' <= Credit' + 1
      BY <1>2, <2>1, <2>2, <3>2 DEF Charge, Slack
    <3>4. Solvent(t)'
      BY <3>1, <3>3 DEF Solvent, Replacing
    <3> QED BY <1>1, <2>1, <2>2, <2>5, <3>1, <3>4
            DEF Sound, Retrying, FirstRound
  <2> QED BY <1>6, <2>3, <2>4, <2>5 DEF Seize
<1>7. CASE Terminate(t)
  <2>1. /\ job[t].at = "term" /\ Go(t, AfterTerm(t), job[t].pid)
        /\ UNCHANGED <<last_started, attempts, seen, prompt, mode, bounds>>
    BY <1>7 DEF Terminate, Steady, At
  <2>2. Others(t) /\ job'[t].at = AfterTerm(t) /\ first' = first
    BY <2>1, Gone
  <2>3. /\ AfterTerm(t) \in {"launch", "clear", "mark"}
        /\ job[t].cmd = "hung" => AfterTerm(t) = "launch"
    BY DEF AfterTerm
  <2>4. Slack \/ job[t].cmd = "hung"
    BY <1>1, <2>1 DEF Pristine, SwitchedOff, Replacing, Resting
  <2>5. Solvent(t)'
    BY <1>1, <2>1, <2>2, <2>3, <2>4, Balanced DEF Solvent, Replacing
  <2>6. FirstRound(t)'
    BY <1>4, <2>1, <2>2, <2>3, Balanced DEF FirstRound, Launching
  <2> QED BY <1>1, <2>1, <2>2, <2>3, <2>5, <2>6, Balanced
          DEF Sound, Retrying
<1>8. CASE MarkEnded(t)
  <2>1. /\ job[t].at = "mark" /\ Slack /\ Steady
        /\ last_started' \in {Untracked, Killed}
    BY <1>3, <1>8 DEF MarkEnded, At
  <2>2. last_started'.mark \notin {"failed", "pid"}
    BY <2>1 DEF Untracked, Killed
  <2>3. CASE Done(t)
    BY <2>1, <2>2, <2>3, PassesSoundly
  <2>4. CASE \E at \in {"clear", "installing"} : Go(t, at, NoPid)
    <3>1. /\ Others(t) /\ job'[t].at \in {"clear", "installing"}
          /\ first' = first
      BY <2>4, Gone
    <3>2. UNCHANGED <<attempts, seen, prompt, mode, bounds>>
      BY <2>1 DEF Steady
    <3>3. Solvent(t)'
      BY <1>1, <2>1, <3>2, Balanced DEF Solvent
    <3>4. FirstRound(t)'
      BY <1>4, <2>1, <2>2, <3>1, <3>2, Balanced DEF FirstRound, Launching
    <3> QED BY <1>1, <3>1, <3>2, <3>3, <3>4, Balanced DEF Sound, Retrying
  <2> QED BY <1>8, <2>3, <2>4 DEF MarkEnded
<1>9. CASE Clear(t)
  <2>1. /\ job[t].at = "clear" /\ Slack /\ last_started' = Untracked
        /\ attempts' \in {0, attempts} /\ Go(t, "wait", NoPid)
        /\ UNCHANGED <<seen, prompt, mode, bounds>>
    BY <1>3, <1>9 DEF Clear, At
  <2>2. Others(t) /\ job'[t].at = "wait" /\ first' = first
    BY <2>1, Gone
  <2>3. Credit' = Credit /\ Charge' \in {1, Charge}
    BY <2>1 DEF Credit, Charge, bounds
  <2>4. Solvent(t)'
    BY <1>1, <1>2, <2>1, <2>3 DEF Solvent, Slack
  <2>5. Retrying(t)'
    BY <2>1, <2>2 DEF Retrying, Untracked, Dated
  <2>6. FirstRound(t)'
    BY <1>2, <1>4, <2>1, <2>2, <2>3 DEF FirstRound, Launching, Untracked
  <2> QED BY <1>1, <2>1, <2>2, <2>3, <2>4, <2>5, <2>6 DEF Sound
<1>10. CASE ApplyMode(t)
  <2>1. /\ job[t].at = "apply" /\ Slack /\ Credit # 0
        /\ UNCHANGED <<prompt, mode, bounds>>
    BY <1>2, <1>3, <1>10 DEF ApplyMode, At, Slack
  <2>2. Credit' = Credit
    BY <2>1 DEF Credit, bounds
  <2>3. CASE Done(t) /\ UNCHANGED <<last_started, attempts>>
    <3>1. Slack' /\ Charge' <= Credit' + 1
      BY <1>1, <2>1, <2>3, Balanced
    <3>2. first /\ t # monitor => attempts < Credit /\ attempts <= Credit
      BY <1>2, <1>4, <2>1 DEF Launching
    <3> QED BY <1>1, <2>1, <2>2, <2>3, <3>1, <3>2, EndsSoundly
  <2>4. CASE /\ last_started' = Untracked /\ attempts' = 0
             /\ Begin(t, "handle", "look", NoPid)
    <3>1. /\ Others(t) /\ job'[t].at = "look" /\ ~job'[t].failed
          /\ first' = first
      BY <2>4, Begun
    <3>2. Slack' /\ Charge' <= Credit' + 1 /\ attempts' < Credit'
          /\ attempts' <= Credit'
      BY <1>2, <2>1, <2>2, <2>4 DEF Slack, Charge
    <3>3. FirstRound(t)'
      BY <2>4, <3>1, <3>2 DEF FirstRound, Untracked
    <3> QED BY <1>1, <2>1, <2>2, <3>1, <3>2, <3>3
            DEF Sound, Solvent, Retrying
  <2> QED BY <1>10, <2>3, <2>4 DEF ApplyMode, Transition
<1>11. CASE Installed(t)
  <2>1. /\ job[t].at = "installing" /\ Slack /\ Done(t)
        /\ UNCHANGED <<last_started, attempts, seen, prompt, mode, bounds>>
    BY <1>3, <1>11 DEF Installed, At
  <2>2. Slack' /\ Charge' <= Credit' + 1 /\ Credit' = Credit
    BY <1>1, <2>1, Balanced
  <2>3. first /\ t # monitor => attempts < Credit /\ attempts <= Credit
    BY <1>2, <1>4, <2>1 DEF Launching
  <2> QED BY <1>1, <2>1, <2>2, <2>3, EndsSoundly
<1> QED BY <1>5, <1>6, <1>7, <1>8, <1>9, <1>10, <1>11

(* A failure or a command that moves no thread brings in an attempt.       *)
LEMMA BringsIn ==
  ASSUME Typed, Counted, NEW t \in Threads, Sound(t), Credit' = Credit + 1,
         UNCHANGED <<job, first, attempts, prompt>>,
         last_started'.mark = "failed" => last_started.mark = "failed"
  PROVE  Sound(t)'
<1>1. /\ Credit \in Nat /\ attempts \in Nat /\ RELAUNCHES \in Nat
      /\ Charge \in Nat \ {0} /\ attempts <= Charge
      /\ attempts # 0 => Charge = attempts
  BY Charging
<1>2. /\ Charge <= Credit + 1
      /\ Slack \/ Pristine(t) \/ SwitchedOff(t) \/ Replacing(t) \/ Resting(t)
  BY DEF Sound, Solvent
<1>3. Charge' = Charge
  BY DEF Charge
<1>4. Solvent(t)'
  BY <1>1, <1>2, <1>3 DEF Solvent, Slack
<1>5. Retrying(t)'
  <2>1. job[t].at = "look" => ~job[t].failed
    BY DEF Sound, Retrying
  <2>2. job[t].at \in {"wait", "fresh", "pop"} => Slack \/ Pristine(t)
    BY <1>2 DEF SwitchedOff, Replacing, Resting
  <2>3. CASE Slack
    BY <1>1, <1>3, <2>1, <2>3 DEF Retrying, Slack
  <2>4. CASE Pristine(t) /\ job[t].at # "idle"
    <3>1. first' /\ t = monitor /\ attempts' < Credit'
      BY <1>1, <2>4 DEF Pristine
    <3> QED BY <2>1, <3>1 DEF Retrying
  <2> QED BY <2>1, <2>2, <2>3, <2>4 DEF Retrying
<1>6. FirstRound(t)'
  <2>1. /\ attempts <= Credit => attempts' < Credit' /\ attempts' <= Credit'
        /\ attempts < Credit => attempts' < Credit'
    BY <1>1
  <2> QED BY <2>1 DEF Sound, FirstRound, Launching
<1>7. Credit' # 0 /\ (prompt' => Credit' > RELAUNCHES)
  BY <1>1 DEF Sound
<1> QED BY <1>4, <1>5, <1>6, <1>7 DEF Sound

(* So does a command that a thread begins to execute.                      *)
LEMMA BeginsSoundly ==
  ASSUME Typed, Counted, NEW t \in Threads, Sound(t), Credit' = Credit + 1,
         job[t].at = "idle", NEW cmd, NEW p,
         NEW at \in {"term", "clear", "apply", "installing"},
         Begin(t, cmd, at, p), UNCHANGED <<attempts, prompt>>,
         last_started'.mark = "failed" => last_started.mark = "failed"
  PROVE  Others(t) /\ Sound(t)'
<1>1. /\ Credit \in Nat /\ attempts \in Nat /\ RELAUNCHES \in Nat
      /\ Charge \in Nat \ {0}
  BY Charging
<1>2. Others(t) /\ job'[t].at = at /\ first' = first
  BY Begun
<1>3. Charge' <= Credit'
  BY <1>1 DEF Sound, Solvent, Charge
<1>4. Solvent(t)'
  BY <1>1, <1>3 DEF Solvent, Slack, Charge
<1>5. FirstRound(t)'
  <2>1. first => attempts' < Credit' /\ attempts' <= Credit'
    BY <1>1 DEF Sound, FirstRound, Launching
  <2> QED BY <1>2, <2>1 DEF FirstRound, Launching
<1>6. Credit' # 0 /\ (prompt' => Credit' > RELAUNCHES)
  BY <1>1 DEF Sound
<1> QED BY <1>2, <1>4, <1>5, <1>6 DEF Sound, Retrying

(* Every command, whether a thread goes on with it or it ends at once.     *)
LEMMA CommandsInOrder ==
  ASSUME Typed, Ledger, ~overlapped', Counted', NEW t \in Threads, Command(t)
  PROVE  Ledger'
<1>1. /\ job[t].at = "idle" /\ Credit' = Credit + 1
      /\ UNCHANGED <<attempts, prompt>>
  BY DEF Command, Kill, Start, RestartProcess, SetMode, Install, Free,
         Commanded, At, Credit, Ledger
<1>2. last_started'.mark = "failed" => last_started.mark = "failed"
  BY DEF Command, Kill, Start, RestartProcess, SetMode, Install, Untracked,
         Tracking
<1>3. CASE UNCHANGED <<job, first, overlapped>>
  <2>1. Apart' /\ \A u \in Threads : Quiet(u)' <=> Quiet(u)
    BY <1>3 DEF Ledger, Apart, Quiet
  <2>2. \A u \in Threads : Sound(u) => Sound(u)'
    BY <1>1, <1>2, <1>3, BringsIn DEF Ledger, Counted
  <2> QED BY <1>3, <2>1, <2>2 DEF Ledger, Counted
<1>4. ASSUME NEW cmd, NEW p,
             NEW at \in {"term", "clear", "apply", "installing"},
             Begin(t, cmd, at, p)
      PROVE  Ledger'
  <2>1. ~overlapped /\ Quiet(t)
    BY <1>4, Begun
  <2>2. Sound(t) /\ Counted
    BY <2>1 DEF Ledger, Counted
  <2> QED BY <1>1, <1>2, <1>4, <2>1, <2>2, BeginsSoundly, ActsSoundly
<1>5. CASE Kill(t)
  BY <1>3, <1>4, <1>5 DEF Kill
<1>6. CASE Start(t)
  BY <1>3, <1>4, <1>6 DEF Start
<1>7. CASE RestartProcess(t)
  BY <1>3, <1>4, <1>7 DEF RestartProcess
<1>8. CASE SetMode(t)
  BY <1>4, <1>8 DEF SetMode
<1>9. CASE Install(t)
  BY <1>4, <1>9 DEF Install
<1> QED BY <1>5, <1>6, <1>7, <1>8, <1>9 DEF Command

(* The loop comes round: with the mode off its first round is over, and a  *)
(* change of mode has been paid for by the command that made it.           *)
LEMMA TicksInOrder ==
  ASSUME Typed, Ledger, ~overlapped', Counted', Tick
  PROVE  Ledger'
<1>1. /\ monitor \in Threads /\ job[monitor].at = "idle" /\ seen' = mode
      /\ UNCHANGED <<os, install_lock, prompt, mode, bounds>>
  BY DEF Tick, At, Threads
<1>2. Credit' = Credit /\ Counted
  BY <1>1 DEF Credit, Ledger, Counted, bounds
<1>3. /\ Credit \in Nat /\ attempts \in Nat /\ RELAUNCHES \in Nat
      /\ Charge \in Nat \ {0}
  BY <1>2, Charging
<1>4. CASE /\ Done(monitor) /\ mode = "off"
           /\ UNCHANGED <<last_started, attempts>>
  <2>1. /\ \A u \in Threads : job'[u].at = job[u].at
        /\ \A u \in Threads \ {monitor} : job'[u] = job[u]
        /\ ~first' /\ overlapped' = overlapped
    BY <1>1, <1>4, Over DEF Others
  <2>2. Apart' /\ \A u \in Threads : Quiet(u)' <=> Quiet(u)
    BY <2>1 DEF Ledger, Apart, Quiet
  <2>3. Charge' = Charge /\ (Slack' <=> Slack)
    BY <1>1, <1>4, Balanced
  <2>4. ASSUME NEW u \in Threads, Sound(u) PROVE Sound(u)'
    <3>1. Solvent(u)'
      <4>1. CASE Slack
        BY <1>2, <2>3, <2>4, <4>1 DEF Sound, Solvent
      <4>2. CASE Pristine(u) \/ SwitchedOff(u)
        <5>1. job[u].at = "idle"
          BY <1>1, <1>4, <4>2, Over DEF Pristine, SwitchedOff
        <5>2. SwitchedOff(u)'
          BY <1>1, <1>2, <1>4, <2>1, <4>2, <5>1 DEF Pristine, SwitchedOff
        <5> QED BY <1>2, <2>3, <2>4, <5>2 DEF Sound, Solvent
      <4>3. CASE Replacing(u)
        <5>1. u # monitor
          BY <1>1, <4>3 DEF Replacing
        <5>2. Replacing(u)'
          BY <1>1, <2>1, <4>3, <5>1 DEF Replacing, Running
        <5> QED BY <1>2, <2>3, <2>4, <5>2 DEF Sound, Solvent
      <4>4. CASE Resting(u)
        <5>1. Resting(u)'
          BY <1>1, <1>4, <2>1, <4>4 DEF Resting, Running
        <5> QED BY <1>2, <2>3, <2>4, <5>1 DEF Sound, Solvent
      <4> QED BY <2>4, <4>1, <4>2, <4>3, <4>4 DEF Sound, Solvent
    <3>2. Retrying(u)'
      <4>1. CASE u = monitor
        BY <1>1, <2>1, <4>1 DEF Retrying
      <4>2. CASE u # monitor
        BY <1>2, <1>4, <2>1, <2>3, <2>4, <4>2 DEF Sound, Retrying
      <4> QED BY <4>1, <4>2
    <3>3. job'[u].at = "seize" => job'[u].cmd = "hung"
      BY <1>1, <2>1, <2>4 DEF Sound
    <3>4. /\ Credit' = 0 => seen' \in {"unset", mode'}
          /\ prompt' => Credit' > RELAUNCHES
      BY <1>1, <1>2, <2>4 DEF Sound
    <3> QED BY <2>1, <3>1, <3>2, <3>3, <3>4 DEF Sound, FirstRound
  <2> QED BY <2>1, <2>2, <2>4 DEF Ledger, Counted
<1>5. CASE /\ Begin(monitor, "handle", "look", NoPid)
           /\ \/ last_started' = Untracked /\ attempts' = 0
                 /\ seen # "unset" /\ seen # mode
              \/ UNCHANGED <<last_started, attempts>> /\ mode = "always"
  <2>1. /\ Others(monitor) /\ job'[monitor].at = "look"
        /\ ~job'[monitor].failed
        /\ first' = first /\ Quiet(monitor) /\ Sound(monitor)
    BY <1>1, <1>5, Begun DEF Ledger
  <2>2. Solvent(monitor)'
    <3>1. CASE UNCHANGED <<last_started, attempts>> /\ mode = "always"
      <4>1. Charge' = Charge /\ (Slack' <=> Slack)
        BY <1>1, <3>1, Balanced
      <4>2. Slack \/ Pristine(monitor) \/ Resting(monitor)
        BY <1>1, <2>1, <3>1 DEF Sound, Solvent, SwitchedOff, Replacing
      <4>3. Slack' \/ Pristine(monitor)' \/ Resting(monitor)'
        BY <1>1, <1>2, <2>1, <3>1, <4>1, <4>2
           DEF Pristine, Resting, Running, Ours
      <4> QED BY <1>2, <2>1, <4>1, <4>3 DEF Sound, Solvent
    <3>2. CASE attempts' = 0 /\ seen # "unset" /\ seen # mode
      <4>1. Credit' >= 1 /\ Charge' = 1
        BY <1>2, <1>3, <2>1, <3>2 DEF Sound, Charge
      <4> QED BY <1>2, <1>3, <4>1 DEF Solvent, Slack
    <3> QED BY <1>5, <3>1, <3>2
  <2>3. FirstRound(monitor)'
    <3>1. CASE UNCHANGED <<last_started, attempts>>
      BY <1>1, <1>2, <2>1, <3>1 DEF Sound, FirstRound, Launching
    <3>2. CASE last_started' = Untracked /\ attempts' = 0
      BY <1>2, <1>3, <2>1, <3>2 DEF FirstRound, Untracked
    <3> QED BY <1>5, <3>1, <3>2
  <2>4. Sound(monitor)'
    BY <1>1, <1>2, <2>1, <2>2, <2>3 DEF Sound, Retrying
  <2> QED BY <1>1, <2>1, <2>4, ActsSoundly
<1>6. mode \in {"always", "off"}
  BY DEF Typed, RestTyped, Modes
<1> QED BY <1>4, <1>5, <1>6 DEF Tick, Transition

(* A service that starts again has nothing to account for, as it has come  *)
(* down with a fault or a prompt.                                          *)
LEMMA ForgetsInOrder ==
  ASSUME Typed, Ledger, ~overlapped', Counted', Restart \/ Reboot
  PROVE  Ledger'
<1>1. Counted /\ ~overlapped /\ Apart
  BY DEF Ledger, Counted, Restart, Reboot
<1>2. \E t \in Threads : Quiet(t)
  <2>1. CASE \E t \in Threads : job[t].at # "idle"
    BY <1>1, <2>1 DEF Apart
  <2>2. CASE \A t \in Threads : job[t].at = "idle"
    BY <2>2 DEF Quiet, Threads
  <2> QED BY <2>1, <2>2
<1>3. prompt => Credit > RELAUNCHES
  BY <1>1, <1>2 DEF Ledger, Sound
<1>4. /\ Credit \in Nat /\ RELAUNCHES \in Nat
  BY <1>1, Charging
<1>5. Credit' \in Nat \ {0}
  <2>1. CASE Restart
    BY <1>1, <2>1 DEF Restart, Credit, Counted
  <2>2. CASE Reboot
    <3>1. Credit' = Credit /\ prompt
      BY <2>2 DEF Reboot, Credit, bounds
    <3> QED BY <1>3, <1>4, <3>1
  <2> QED BY <2>1, <2>2
<1>6. /\ last_started' = Untracked /\ attempts' = 0 /\ ~prompt'
      /\ job' = [[t \in Threads |-> Idle] EXCEPT ![monitor].at = "recover"]
  BY DEF Restart, Reboot, Forgotten
<1>7. /\ monitor \in Threads /\ job'[monitor].at = "recover"
      /\ \A t \in Threads \ {monitor} : job'[t].at = "idle"
  BY <1>6 DEF Idle, Threads
<1>8. Apart' /\ \A t \in Threads : Quiet(t)' => t = monitor
  BY <1>7 DEF Apart, Quiet
<1>9. Sound(monitor)'
  <2>1. Charge' <= Credit' /\ Charge' <= Credit' + 1 /\ attempts' <= Credit'
    BY <1>5, <1>6 DEF Charge
  <2>2. Solvent(monitor)'
    BY <2>1 DEF Solvent, Slack
  <2>3. FirstRound(monitor)'
    BY <1>6, <1>7, <2>1 DEF FirstRound, Untracked
  <2> QED BY <1>5, <1>6, <1>7, <2>2, <2>3 DEF Sound, Retrying
<1> QED BY <1>8, <1>9 DEF Ledger, Counted

(* What happens around the threads, and the loop's recovery.               *)
LEMMA AroundInOrder ==
  ASSUME Typed, Ledger, ~overlapped', Counted',
         \/ Recover \/ EditMode \/ Cool \/ PromptEnds \/ UNCHANGED vars
         \/ \E p \in Pids : Die(p) \/ Recycle(p)
  PROVE  Ledger'
<1>1. CASE Recover
  <2>1. /\ monitor \in Threads /\ job[monitor].at = "recover" /\ ~overlapped
        /\ UNCHANGED <<first, attempts, seen, prompt, mode, bounds>>
        /\ last_started' = last_started
             \/ \E p \in Pids : last_started' = Tracking(p)
    BY <1>1 DEF Recover, Threads, At, Steady
  <2>2. Others(monitor) /\ job'[monitor].at = "idle"
    BY <1>1, <2>1 DEF Recover, Idle, Others, Typed, JobsTyped
  <2>3. Quiet(monitor) /\ Sound(monitor)
    BY <2>1, Accounted
  <2>4. Slack
    BY <2>1, <2>3 DEF Sound, Solvent, Pristine, SwitchedOff, Replacing,
                      Resting
  <2>5. Credit' = Credit /\ Slack' /\ Charge' <= Credit' + 1
    BY <2>1, <2>3, <2>4, Balanced DEF Sound, Solvent
  <2>6. last_started'.mark = "failed" => last_started.mark = "failed"
    BY <2>1 DEF Tracking
  <2>7. FirstRound(monitor)'
    BY <2>1, <2>2, <2>3, <2>5, <2>6 DEF Sound, FirstRound, Launching
  <2>8. Sound(monitor)'
    BY <2>1, <2>2, <2>3, <2>5, <2>7 DEF Sound, Solvent, Retrying
  <2> QED BY <2>1, <2>2, <2>3, <2>8, ActsSoundly
<1>2. ASSUME UNCHANGED <<job, overlapped>>,
             \A t \in Threads : Sound(t) => Sound(t)'
      PROVE  Ledger'
  <2>1. Apart' /\ \A u \in Threads : Quiet(u)' <=> Quiet(u)
    BY <1>2 DEF Ledger, Apart, Quiet
  <2> QED BY <1>2, <2>1 DEF Ledger, Counted
<1>3. CASE EditMode \/ \E p \in Pids : Die(p)
  <2>1. /\ UNCHANGED <<job, first, attempts, prompt, last_started, overlapped>>
        /\ \/ faults' = faults + 1 /\ commands' = commands
           \/ faults' = faults /\ commands' = commands + 1
    BY <1>3 DEF EditMode, Die, memory
  <2>2. Counted
    BY DEF Ledger, Counted
  <2>3. Credit' = Credit + 1
    <3>1. CASE faults' = faults + 1 /\ commands' = commands
      BY <2>2, <3>1 DEF Credit, Counted
    <3>2. CASE faults' = faults /\ commands' = commands + 1
      BY <2>2, <3>2 DEF Credit, Counted
    <3> QED BY <2>1, <3>1, <3>2
  <2>4. ASSUME NEW t \in Threads, Sound(t) PROVE Sound(t)'
    BY <2>1, <2>2, <2>3, <2>4, BringsIn
  <2> QED BY <1>2, <2>1, <2>4
<1>4. ASSUME NEW p \in Pids, Recycle(p)
      PROVE  Ledger'
  <2>1. /\ os[p] = "free" /\ os' = [os EXCEPT ![p] = "other"]
        /\ UNCHANGED <<job, first, overlapped, attempts, prompt, last_started,
                       seen, mode, install_lock, faults, commands>>
    BY <1>4 DEF Recycle, memory
  <2>2. Ours' = Ours /\ \A q \in Pids \cup {NoPid} : Running(q) => Running(q)'
    BY <2>1 DEF Ours, Running, Typed, TablesTyped
  <2>3. Credit' = Credit /\ Charge' = Charge /\ (Slack' <=> Slack)
    BY <2>1 DEF Credit, Charge, Slack
  <2>4. ASSUME NEW t \in Threads, Sound(t) PROVE Sound(t)'
    <3>1. job[t].pid \in Pids \cup {NoPid}
      BY DEF Typed, JobsTyped, Job
    <3>2. last_started.pid \in Pids \cup {NoPid}
      BY Tracked DEF Typed
    <3>3. Replacing(t) => Replacing(t)'
      BY <2>1, <2>2, <3>1 DEF Replacing
    <3>4. Resting(t) => Resting(t)'
      BY <2>1, <2>2, <3>2 DEF Resting
    <3>5. Pristine(t) => Pristine(t)'
      BY <2>1, <2>2, <2>3 DEF Pristine
    <3>6. SwitchedOff(t) => SwitchedOff(t)'
      BY <2>1, <2>3 DEF SwitchedOff
    <3>7. Solvent(t)'
      BY <2>3, <2>4, <3>3, <3>4, <3>5, <3>6 DEF Sound, Solvent
    <3> QED BY <2>1, <2>3, <2>4, <3>7 DEF Sound, Retrying, FirstRound,
               Launching
  <2> QED BY <1>2, <2>1, <2>4
<1>5. CASE Cool
  <2>1. /\ last_started.mark = "failed" /\ Steady
        /\ last_started' = [last_started EXCEPT !.mark = "cooled"]
        /\ UNCHANGED <<os, job, first, overlapped>>
    BY <1>5 DEF Cool
  <2>2. /\ last_started = LaunchFailed
        /\ last_started' = [pid |-> NoPid, mark |-> "cooled"]
    BY <2>1 DEF Typed, Marked, Marks, Tracking, Untracked, LaunchFailed,
                Killed
  <2>3. UNCHANGED <<attempts, prompt, seen, mode, install_lock, bounds>>
    BY <2>1 DEF Steady
  <2>4. Credit' = Credit /\ Charge' = Charge /\ (Slack' <=> Slack)
    BY <2>3, Balanced
  <2>5. ASSUME NEW t \in Threads, Sound(t) PROVE Sound(t)'
    <3>1. ~Pristine(t) /\ ~Resting(t)
      BY <2>2 DEF Pristine, Resting, LaunchFailed, Untracked, Running
    <3>2. Replacing(t) => Replacing(t)'
      BY <2>1 DEF Replacing, Running
    <3>3. SwitchedOff(t) => SwitchedOff(t)'
      BY <2>1, <2>3, <2>4 DEF SwitchedOff
    <3>4. Solvent(t)'
      BY <2>4, <2>5, <3>1, <3>2, <3>3 DEF Sound, Solvent
    <3>5. Retrying(t)'
      BY <2>1, <2>2, <2>5 DEF Sound, Retrying, Dated
    <3>6. FirstRound(t)'
      BY <2>1, <2>2, <2>3, <2>4, <2>5 DEF Sound, FirstRound, Launching
    <3> QED BY <2>1, <2>3, <2>4, <2>5, <3>4, <3>5, <3>6 DEF Sound
  <2> QED BY <1>2, <2>1, <2>5
<1>6. CASE PromptEnds \/ UNCHANGED vars
  <2>1. /\ UNCHANGED <<os, last_started, install_lock, attempts, seen, first,
                       mode, job, overlapped, bounds>>
        /\ prompt' => prompt
    BY <1>6 DEF PromptEnds, vars, memory
  <2>2. /\ Credit' = Credit /\ Charge' = Charge /\ (Slack' <=> Slack)
        /\ Ours' = Ours
    BY <2>1, Balanced DEF Ours
  <2>3. ASSUME NEW t \in Threads, Sound(t) PROVE Sound(t)'
    <3>1. /\ Pristine(t) => Pristine(t)'
          /\ SwitchedOff(t) => SwitchedOff(t)'
          /\ Replacing(t) => Replacing(t)'
          /\ Resting(t) => Resting(t)'
      BY <2>1, <2>2 DEF Pristine, SwitchedOff, Replacing, Resting, Running
    <3>2. Solvent(t)'
      BY <2>2, <2>3, <3>1 DEF Sound, Solvent
    <3> QED BY <2>1, <2>2, <2>3, <3>2 DEF Sound, Retrying, FirstRound,
               Launching
  <2> QED BY <1>2, <2>1, <2>3
<1> QED BY <1>1, <1>3, <1>4, <1>5, <1>6

(* Faults and commands are counted one by one.                             *)
LEMMA CountsUp == Counted /\ [Next]_vars => Counted'
<1> SUFFICES ASSUME Counted, [Next]_vars PROVE Counted'
  OBVIOUS
<1>1. ASSUME NEW t \in Threads,
             Advance(t) \/ Hung(t) \/ Missing(t) \/ LaunchFails(t)
      PROVE  UNCHANGED commands /\ faults' \in {faults, faults + 1}
  BY <1>1 DEF Advance, Skip, FirstLook, Look, LookAgain, Alive, Fresh, Pop,
     FindLaunched, Reserve, Suspended, Escalate, Launch, Record, Finish, Seize,
     Terminate, MarkEnded, Clear, ApplyMode, Installed, Hung, Missing,
     LaunchFails, Steady, bounds
<1>2. ASSUME NEW t \in Workers, Command(t)
      PROVE  UNCHANGED faults /\ commands' = commands + 1
  BY <1>2 DEF Command, Kill, Start, RestartProcess, SetMode, Install,
     Commanded, Free
<1>3. CASE Tick \/ Recover \/ Reboot \/ Cool \/ PromptEnds \/ UNCHANGED vars
  BY <1>3 DEF Tick, Recover, Reboot, Cool, PromptEnds, vars, Steady, bounds,
              Counted
<1>4. CASE Restart \/ EditMode \/ \E p \in Pids : Die(p) \/ Recycle(p)
  BY <1>4 DEF Restart, EditMode, Die, Recycle, Counted
<1> QED BY <1>1, <1>2, <1>3, <1>4 DEF Next, Counted

(* Every step keeps the account in order, or is an overlap's.              *)
LEMMA StaysInOrder ==
  ASSUME Typed, Ledger, [Next]_vars
  PROVE  Ledger'
<1>1. Counted /\ Counted'
  BY CountsUp DEF Ledger, Counted
<1>2. CASE overlapped'
  BY <1>1, <1>2 DEF Ledger, Counted
<1>3. CASE ~overlapped'
  <2>1. ASSUME NEW t \in Threads,
               Advance(t) \/ Hung(t) \/ Missing(t) \/ LaunchFails(t)
        PROVE  Ledger'
    <3>1. Quiet(t) /\ Sound(t)
      BY <1>3, <2>1, OverlapLasts, Accounted
    <3>2. Others(t) /\ Sound(t)'
      BY <1>1, <1>3, <2>1, <3>1, LooksSoundly, LaunchesSoundly, EndsInOrder
         DEF Advance
    <3> QED BY <1>1, <3>1, <3>2, ActsSoundly
  <2>2. ASSUME NEW t \in Workers, Command(t) PROVE Ledger'
    BY <1>1, <1>3, <2>2, CommandsInOrder DEF Threads
  <2>3. CASE Tick \/ Restart \/ Reboot
    BY <1>1, <1>3, <2>3, TicksInOrder, ForgetsInOrder
  <2> QED BY <1>1, <1>3, <2>1, <2>2, <2>3, AroundInOrder DEF Next
<1> QED BY <1>2, <1>3

(* A reboot of the machine is proposed only after more failures and        *)
(* operators' commands than relaunch_attempts, whatever the process can be *)
(* told by and however often the service starts again, unless a thread has *)
(* begun while another was at work.                                        *)
THEOREM RebootIsEarned == Spec => []EscalationEarned
<1>1. Init => Ledger
  <2> SUFFICES ASSUME Init PROVE Ledger
    OBVIOUS
  <2>1. /\ \A t \in Threads : job[t].at = "idle"
        /\ Ours = {} /\ Credit = 0 /\ Charge = 1
    BY DEF Init, Idle, Ours, Credit, Charge
  <2>2. ASSUME NEW t \in Threads PROVE Sound(t)
    <3>1. Solvent(t)
      BY <2>1 DEF Init, Solvent, Pristine
    <3>2. FirstRound(t)
      BY <2>1 DEF Init, FirstRound, Untracked
    <3> QED BY <2>1, <3>1, <3>2 DEF Init, Sound, Retrying
  <2>3. Apart
    BY <2>1 DEF Apart
  <2> QED BY <2>2, <2>3 DEF Init, Ledger
<1>2. Typed /\ Ledger /\ [Next]_vars => Ledger'
  BY StaysInOrder
<1>3. Ledger => EscalationEarned
  <2> SUFFICES ASSUME Ledger, prompt, ~overlapped
               PROVE  faults + commands > RELAUNCHES
    BY DEF EscalationEarned
  <2>1. \E t \in Threads : Quiet(t)
    <3>1. CASE \E t \in Threads : job[t].at # "idle"
      BY <3>1 DEF Ledger, Apart
    <3>2. CASE \A t \in Threads : job[t].at = "idle"
      BY <3>2 DEF Quiet, Threads
    <3> QED BY <3>1, <3>2
  <2> QED BY <2>1 DEF Ledger, Sound, Credit
<1> QED BY <1>1, <1>2, <1>3, Invariance, PTL DEF Spec

-----------------------------------------------------------------------------
(* What is killed stays down: no thread is on its way to a launch, and     *)
(* whoever is at work has no instance to deal with.                        *)
Woken == {"alive", "fresh", "pop", "wait", "launch", "record", "finish",
          "seize"}
Rests(t) ==
  /\ job[t].at \notin Woken
  /\ ~(job[t].at = "term" /\ job[t].cmd = "hung")
Asleep ==
  ~overlapped /\ last_started.mark = "killed" =>
    Ours = {} /\ \A t \in Threads : Rests(t)

(* A thread that is alone ends, or goes on to a place that is no way to a  *)
(* launch.                                                                 *)
LEMMA RestsOn ==
  ASSUME NEW t \in Threads, Others(t), Quiet(t), Rests(t)', Ours' = {}
  PROVE  Asleep'
<1>1. \A u \in Threads \ {t} : job'[u].at = "idle"
  BY DEF Others, Quiet
<1> QED BY <1>1 DEF Asleep, Rests, Woken

(* The mark of a kill is made by MarkEnded alone.                          *)
LEMMA KilledByMark ==
  ASSUME Typed, [Next]_vars, last_started'.mark = "killed"
  PROVE  last_started' = last_started \/ \E t \in Threads : MarkEnded(t)
<1> USE DEF Untracked, Tracking, LaunchFailed
<1>1. ASSUME NEW t \in Threads,
             Advance(t) \/ Hung(t) \/ Missing(t) \/ LaunchFails(t)
      PROVE  last_started' = last_started \/ MarkEnded(t)
  BY <1>1 DEF Advance, Skip, FirstLook, Look, LookAgain, Alive, Fresh, Pop,
     FindLaunched, Reserve, Suspended, Escalate, Launch, Record, Finish, Seize,
     Terminate, Clear, ApplyMode, Transition, Installed, Hung, Missing,
     LaunchFails, Adopt, memory
<1>2. ASSUME NEW t \in Workers, Command(t) PROVE last_started' = last_started
  BY <1>2 DEF Command, Kill, Start, RestartProcess, SetMode, Install
<1>3. CASE Tick \/ Recover \/ Restart \/ Reboot
  BY <1>3 DEF Tick, Transition, Recover, Restart, Reboot, Forgotten
<1>4. CASE Cool
  BY <1>4 DEF Cool, Typed, Marked, Marks
<1>5. CASE \/ \E p \in Pids : Die(p) \/ Recycle(p)
           \/ EditMode \/ PromptEnds \/ UNCHANGED vars
  BY <1>5 DEF Die, Recycle, EditMode, PromptEnds, vars, memory
<1> QED BY <1>1, <1>2, <1>3, <1>4, <1>5 DEF Next

(* No instance comes up where there is none, unless a thread launches it.  *)
LEMMA NoneArises ==
  ASSUME Typed, [Next]_vars, Ours = {},
         \A t \in Threads : job[t].at # "launch"
  PROVE  Ours' = {}
<1>1. ASSUME NEW t \in Threads, Launch(t) \/ LaunchFails(t) PROVE FALSE
  BY <1>1 DEF Launch, LaunchFails, At
<1>2. ASSUME NEW t \in Threads, Terminate(t) PROVE Ours' = {}
  BY <1>2 DEF Terminate, Ours, Typed, TablesTyped
<1>3. ASSUME NEW p \in Pids, Die(p) \/ Recycle(p) PROVE Ours' = {}
  BY <1>3 DEF Die, Recycle, Ours, Typed, TablesTyped
<1>4. CASE Reboot
  BY <1>4 DEF Reboot, Ours
<1>5. CASE UNCHANGED os
  BY <1>5 DEF Ours
<1> QED BY <1>1, <1>2, <1>3, <1>4, <1>5, TableKept

(* A step of a thread leaves what is killed down.                          *)
LEMMA ThreadsLeaveItDown ==
  ASSUME Typed, Alone, Asleep, NEW t \in Threads, ~overlapped,
         last_started'.mark = "killed", [Next]_vars,
         Advance(t) \/ Hung(t) \/ Missing(t) \/ LaunchFails(t)
  PROVE  Asleep'
<1>1. job[t].at # "idle" /\ Quiet(t)
  BY OverlapLasts, AtWork
<1>2. CASE MarkEnded(t)
  <2>1. Ours = {} /\ Ours' = Ours
    BY <1>2, AtWork DEF MarkEnded, At, Exposed, Ours
  <2>2. CASE Done(t)
    BY <1>1, <2>1, <2>2, Over, RestsOn DEF Rests, Woken
  <2>3. CASE \E at \in {"clear", "installing"} : Go(t, at, NoPid)
    BY <1>1, <2>1, <2>3, Gone, RestsOn DEF Rests, Woken
  <2> QED BY <1>2, <2>2, <2>3 DEF MarkEnded
<1>3. CASE ~MarkEnded(t)
  <2>1. last_started' = last_started
    <3>1. \A u \in Threads : MarkEnded(u) => u = t
      BY <1>1 DEF MarkEnded, At, Quiet
    <3> QED BY <1>3, <3>1, KilledByMark
  <2>2. Ours = {} /\ Rests(t) /\ \A u \in Threads : job[u].at # "launch"
    BY <2>1 DEF Asleep, Rests, Woken
  <2>3. Ours' = {}
    BY <2>2, NoneArises
  <2>4. CASE Done(t)
    BY <1>1, <2>3, <2>4, Over, RestsOn DEF Rests, Woken
  <2>5. CASE Skip(t) \/ Installed(t)
    BY <2>4, <2>5 DEF Skip, Installed
  <2>6. CASE Terminate(t)
    <3>1. Go(t, AfterTerm(t), job[t].pid) /\ AfterTerm(t) \in {"clear", "mark"}
      BY <2>2, <2>6 DEF Terminate, Rests, AfterTerm, At
    <3> QED BY <1>1, <2>3, <3>1, Gone, RestsOn DEF Rests, Woken
  <2>7. CASE ApplyMode(t)
    BY <2>1, <2>4, <2>7 DEF ApplyMode, Transition, Untracked
  <2>8. ASSUME \/ FirstLook(t) \/ Look(t) \/ LookAgain(t) \/ Clear(t)
        PROVE  FALSE
    BY <2>1, <2>8 DEF FirstLook, Look, LookAgain, Clear, Untracked, Tracking
  <2>9. ASSUME \/ Alive(t) \/ Fresh(t) \/ Pop(t) \/ FindLaunched(t)
               \/ Reserve(t) \/ Suspended(t) \/ Escalate(t) \/ Launch(t)
               \/ Record(t) \/ Finish(t) \/ Seize(t) \/ Hung(t) \/ Missing(t)
               \/ LaunchFails(t)
        PROVE  FALSE
    BY <2>2, <2>9 DEF Alive, Fresh, Pop, FindLaunched, Reserve, Suspended,
       Escalate, Launch, Record, Finish, Seize, Hung, Missing, LaunchFails,
       Enter, At, Rests, Woken
  <2> QED BY <1>3, <2>5, <2>6, <2>7, <2>8, <2>9 DEF Advance
<1> QED BY <1>2, <1>3

(* So does a command: none but a start looks for an instance to launch.    *)
LEMMA CommandsLeaveItDown ==
  ASSUME Typed, Asleep, NEW t \in Threads, Command(t), ~overlapped',
         last_started'.mark = "killed", last_started' = last_started,
         Ours' = {}
  PROVE  Asleep'
<1>1. CASE UNCHANGED <<job, overlapped>>
  BY <1>1 DEF Asleep, Rests
<1>2. ASSUME NEW cmd \in {"kill", "start", "restart", "install"} \cup Modes,
             NEW p,
             NEW at \in {"term", "clear", "apply", "installing"},
             Begin(t, cmd, at, p)
      PROVE  Asleep'
  <2>1. /\ Others(t) /\ Quiet(t) /\ job'[t].at = at /\ job'[t].cmd = cmd
    BY <1>2, Begun
  <2> QED BY <2>1, RestsOn DEF Rests, Woken, Modes
<1>3. CASE Kill(t)
  BY <1>1, <1>2, <1>3 DEF Kill
<1>4. CASE Start(t)
  BY <1>1, <1>2, <1>4 DEF Start
<1>5. CASE RestartProcess(t)
  BY <1>1, <1>2, <1>5 DEF RestartProcess
<1>6. CASE SetMode(t)
  BY <1>2, <1>6 DEF SetMode
<1>7. CASE Install(t)
  BY <1>2, <1>7 DEF Install
<1> QED BY <1>3, <1>4, <1>5, <1>6, <1>7 DEF Command

(* Every step leaves what is killed down, or is an overlap's.              *)
LEMMA StaysAsleep ==
  ASSUME Typed, Alone, Asleep, [Next]_vars
  PROVE  Asleep'
<1> SUFFICES ASSUME ~overlapped', last_started'.mark = "killed" PROVE Asleep'
  BY DEF Asleep
<1>1. ASSUME NEW t \in Threads,
             Advance(t) \/ Hung(t) \/ Missing(t) \/ LaunchFails(t)
      PROVE  Asleep'
  BY <1>1, OverlapLasts, ThreadsLeaveItDown
<1>2. ASSUME last_started' = last_started, ~overlapped
      PROVE  Ours = {} /\ Ours' = {} /\ \A t \in Threads : Rests(t)
  BY <1>2, NoneArises DEF Asleep, Rests, Woken
<1>3. ASSUME NEW t \in Workers, Command(t) PROVE Asleep'
  <2>1. last_started' = last_started
    BY <1>3, KilledByMark
       DEF Command, Kill, Start, RestartProcess, SetMode, Install, Untracked,
           Tracking
  <2>2. ~overlapped
    BY <1>3, Zenon DEF Command, Kill, Start, RestartProcess, SetMode, Install,
       Begin
  <2> QED BY <1>2, <1>3, <2>1, <2>2, CommandsLeaveItDown DEF Threads
<1>4. CASE Tick
  <2>1. monitor \in Threads /\ last_started' = last_started
    BY <1>4 DEF Tick, Transition, Threads, Untracked
  <2>2. CASE Done(monitor)
    <3>1. /\ Others(monitor) /\ job'[monitor].at = "idle"
          /\ overlapped' = overlapped
      BY <2>1, <2>2, Over
    <3> QED BY <1>2, <2>1, <3>1 DEF Asleep, Rests, Others, Woken
  <2>3. CASE Begin(monitor, "handle", "look", NoPid)
    <3>1. /\ Others(monitor) /\ job'[monitor].at = "look"
          /\ ~overlapped /\ Quiet(monitor)
      BY <2>1, <2>3, Begun
    <3> QED BY <1>2, <2>1, <3>1, RestsOn DEF Rests, Woken
  <2> QED BY <1>4, <2>2, <2>3 DEF Tick, Transition
<1>5. CASE Recover
  <2>1. /\ monitor \in Threads /\ last_started' = last_started /\ ~overlapped
        /\ job[monitor].at = "recover"
    BY <1>5 DEF Recover, Threads, At, Tracking
  <2>2. Others(monitor) /\ job'[monitor].at = "idle"
    BY <1>5, <2>1 DEF Recover, Idle, Others, Typed, JobsTyped
  <2>3. Quiet(monitor)
    BY <2>1, AtWork
  <2> QED BY <1>2, <2>1, <2>2, <2>3, RestsOn DEF Rests, Woken
<1>6. CASE Restart \/ Reboot
  BY <1>6 DEF Restart, Reboot, Forgotten, Untracked
<1>7. CASE \/ \E p \in Pids : Die(p) \/ Recycle(p)
           \/ EditMode \/ PromptEnds \/ UNCHANGED vars \/ Cool
  <2>1. UNCHANGED <<job, overlapped>>
    BY <1>7 DEF Die, Recycle, EditMode, PromptEnds, Cool, vars
  <2>2. CASE Cool
    BY <2>2 DEF Cool, Typed, Marked, Marks, Untracked, Tracking, LaunchFailed
  <2>3. CASE \/ \E p \in Pids : Die(p) \/ Recycle(p)
             \/ EditMode \/ PromptEnds \/ UNCHANGED vars
    <3>1. last_started' = last_started
      BY <2>3 DEF Die, Recycle, EditMode, PromptEnds, vars, memory
    <3> QED BY <1>2, <2>1, <3>1 DEF Asleep, Rests
  <2> QED BY <1>7, <2>2, <2>3
<1> QED BY <1>1, <1>3, <1>4, <1>5, <1>6, <1>7 DEF Next

(* Unless a thread began while another was at work, what a command has     *)
(* killed is down and stays down until somebody starts it: no look of the  *)
(* loop, no recovery of the service and no retry brings it back.           *)
THEOREM KilledIsDown ==
  ASSUME Discovery # "ambiguous"
  PROVE  Spec => []DownUnlessOverlapped
<1>1. Init => Alone /\ Asleep
  BY AloneInit DEF Init, Asleep, Untracked
<1>2. Typed /\ Safe /\ Alone /\ Asleep /\ [Next]_vars => Alone' /\ Asleep'
  BY SteppingAlone, StaysAsleep
<1>3. Asleep => DownUnlessOverlapped
  BY DEF Asleep, DownUnlessOverlapped, Killed
<1> QED BY <1>1, <1>2, <1>3, Invariance, PTL DEF Spec
=============================================================================

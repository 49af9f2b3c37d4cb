---------------------------- MODULE Supervision ----------------------------
(***************************************************************************)
(* How the agent's service keeps one configured process running: the       *)
(* monitor loop, the threads that execute operators' commands, the launch  *)
(* lock between them, what the service remembers (last_started), the rows  *)
(* of app_states.json that outlive it, and the process table, where the    *)
(* process dies, pids are reused and the service itself is restarted.      *)
(***************************************************************************)
EXTENDS Naturals, FiniteSets

CONSTANTS monitor,     \* the thread of the monitor loop
          Workers,     \* threads that execute commands
          NoThread,
          Pids, NoPid,
          Discovery,   \* what a look through the process table can tell
          RELAUNCHES,  \* relaunch_attempts of the entry, 0: unlimited
          MaxCommands, MaxFaults, MaxRecycles \* bounds

Threads == Workers \cup {monitor}

ASSUME SupervisionAssumption ==
  /\ monitor \notin Workers /\ NoThread \notin Threads
  /\ NoPid \notin Pids /\ IsFiniteSet(Pids)
  /\ Discovery \in {"path", "unique", "ambiguous"}
  /\ RELAUNCHES \in Nat /\ MaxCommands \in Nat
  /\ MaxFaults \in Nat /\ MaxRecycles \in Nat

VARIABLES
  os,            \* os[p]: whose process has pid p
  rows,          \* rows[p]: the row of app_states.json for pid p
  last_started, install_lock, attempts, first, \* of the service
  mode, seen,    \* the launch mode configured, and the one last seen
  prompt,        \* the reboot prompt is believed to be on screen
  lock,          \* the thread that holds the launch lock
  job,           \* what each thread is doing
  overlapped,    \* history: a thread has begun while another was at work
  commands, faults, recycles

memory == <<last_started, install_lock, attempts, seen, prompt, lock>>
bounds == <<commands, faults, recycles>>
vars == <<os, rows, memory, first, mode, job, overlapped, bounds>>

Modes == {"always", "off"}
Untracked == [pid |-> NoPid, mark |-> "none"]
Tracking(p) == [pid |-> p, mark |-> "pid"]
LaunchFailed == [pid |-> NoPid, mark |-> "failed"]
Killed == [pid |-> NoPid, mark |-> "killed"]

NoRow == [status |-> "none", record |-> "none"]
FailedRow == [status |-> "LAUNCH_FAILED", record |-> "none"]
LiveClaims == {"LAUNCHING", "RUNNING"}

Idle == [cmd |-> "none", at |-> "idle", pid |-> NoPid, failed |-> FALSE]

Init ==
  /\ os = [p \in Pids |-> "free"] /\ rows = [p \in Pids |-> NoRow]
  /\ last_started = Untracked /\ install_lock = FALSE /\ attempts = 0
  /\ first = TRUE /\ mode \in Modes /\ seen = "unset" /\ prompt = FALSE
  /\ lock = NoThread /\ job = [t \in Threads |-> Idle] /\ overlapped = FALSE
  /\ commands = 0 /\ faults = 0 /\ recycles = 0

(***************************************************************************)
(* The process table and the rows.                                         *)
(***************************************************************************)
Running(p) == p # NoPid /\ os[p] # "free"
Ours == {p \in Pids : os[p] = "ours"}

(* Mutant: a command line that shows the path is not looked at.            *)
MutFound == IF Cardinality(Ours) = 1 /\ Discovery = "unique" THEN Ours ELSE {}

(* With a file path any command line that shows it will do, without one    *)
(* only the sole instance; among others of the same image, none.           *)
Found == IF Discovery = "path" THEN Ours
         ELSE IF Discovery = "unique" /\ Cardinality(Ours) = 1 THEN Ours
         ELSE {}

(* Mutant: that there is a record is taken for a proof.                    *)
MutProven(p) == rows[p].record # "none"

Proven(p) == rows[p].record = "match"

Stamp(p, status) == rows' = [rows EXCEPT ![p].status = status]

Bind(p, status) ==
  rows' = [rows EXCEPT ![p] =
             [status |-> status,
              record |-> IF os[p] = "ours" THEN "match" ELSE "none"]]

Ended(r, p) == [r EXCEPT ![p].record = IF @ = "match" THEN "stale" ELSE @]

StillOurs(p) == os[p] # "free" /\ rows[p].record # "stale"

Retired == [p \in Pids |-> IF rows[p].status \in LiveClaims /\ ~StillOurs(p)
                           THEN NoRow ELSE rows[p]]

(* Mutant: a failure without a row is given a row of its own.              *)
MutSurfaced(r, p) ==
  {[x \in DOMAIN r \cup {p} |-> IF x = p THEN FailedRow ELSE r[x]]}

(* The mark goes to the row of p, to the newest row of the entry without   *)
(* one, and leaves one row that has it.                                    *)
Surfaced(r, p) ==
  LET kept == {q \in Pids : r[q].status # "none"}
      at == IF p \in kept THEN {p} ELSE kept
      marked(q) == [x \in Pids |->
                      IF x = q THEN FailedRow
                      ELSE IF r[x].status = "LAUNCH_FAILED" THEN NoRow
                      ELSE r[x]]
  IN IF at = {} THEN {r} ELSE {marked(q) : q \in at}

(* The gate refuses p: a record that has become false goes.                *)
Refused(p) ==
  Surfaced(IF rows[p].record = "stale" THEN [rows EXCEPT ![p] = NoRow]
                                       ELSE rows, p)

(***************************************************************************)
(* The threads.                                                            *)
(***************************************************************************)
At(t, at) == job[t].at = at

Go(t, at, p) ==
  /\ job' = [job EXCEPT ![t].at = at, ![t].pid = p]
  /\ UNCHANGED <<first, overlapped>>

Begin(t, cmd, at, p) ==
  /\ job' = [job EXCEPT ![t] = [cmd |-> cmd, at |-> at, pid |-> p,
                                failed |-> FALSE]]
  /\ overlapped' = (overlapped \/ \E u \in Threads \ {t} : ~At(u, "idle"))
  /\ UNCHANGED first

Done(t) ==
  /\ job' = [job EXCEPT ![t] = Idle]
  /\ first' = (first /\ t # monitor) /\ UNCHANGED overlapped

Adopt(t, p) ==
  /\ last_started' = Tracking(p) /\ Bind(p, "RUNNING") /\ Done(t)

Steady == UNCHANGED <<install_lock, attempts, seen, prompt, lock, mode,
                      bounds>>

(***************************************************************************)
(* handle_process.                                                         *)
(***************************************************************************)
Skip(t) ==
  /\ At(t, "look") /\ (install_lock \/ last_started.mark = "killed")
  /\ Done(t) /\ UNCHANGED <<os, rows, last_started>> /\ Steady

(* In the first round of the loop what is tracked is taken to run, and an  *)
(* instance may have outlived the service.                                 *)
FirstLook(t) ==
  /\ At(t, "look") /\ first /\ ~install_lock
  /\ \/ /\ last_started.mark = "pid"
        /\ Stamp(last_started.pid, "RUNNING") /\ Done(t)
        /\ UNCHANGED last_started
     \/ /\ last_started.mark \notin {"pid", "killed"}
        /\ \/ \E p \in Found : Adopt(t, p)
           \/ /\ Found = {} /\ Go(t, "wait", NoPid)
              /\ UNCHANGED <<rows, last_started>>
  /\ UNCHANGED os /\ Steady

Look(t) ==
  /\ At(t, "look") /\ ~first /\ ~install_lock
  /\ last_started.mark \in {"pid", "none"}
  /\ Go(t, IF Running(last_started.pid) THEN "alive" ELSE "fresh",
        last_started.pid)
  /\ UNCHANGED <<os, rows, last_started>> /\ Steady

(* After a launch that failed: is it up after all, or is the cooldown over?*)
LookAgain(t) ==
  /\ At(t, "look") /\ ~first /\ ~install_lock
  /\ last_started.mark \in {"failed", "cooled"}
  /\ \/ \E p \in Found : Adopt(t, p)
     \/ /\ Found = {} /\ UNCHANGED <<rows, last_started>>
        /\ IF last_started.mark = "failed" THEN Done(t)
           ELSE /\ job' = [job EXCEPT ![t].at = "fresh", ![t].failed = TRUE]
                /\ UNCHANGED <<first, overlapped>>
  /\ UNCHANGED os /\ Steady

Alive(t) ==
  /\ At(t, "alive")
  /\ Stamp(job[t].pid, "RUNNING") /\ Done(t)
  /\ UNCHANGED <<os, last_started>> /\ Steady

(* The scout has found it hung for 15 seconds.                             *)
Hung(t) ==
  /\ At(t, "alive") /\ faults < MaxFaults
  /\ Begin(t, "hung", "seize", job[t].pid)
  /\ faults' = faults + 1
  /\ UNCHANGED <<os, rows, memory, mode, commands, recycles>>

(* It is down. The mode is read again: off is the end of it, else an       *)
(* instance may be there and untracked.                                    *)
Fresh(t) ==
  /\ At(t, "fresh")
  /\ \/ /\ mode = "off"
        /\ rows' = IF job[t].pid # NoPid
                   THEN [rows EXCEPT ![job[t].pid] = Retired[job[t].pid]]
                   ELSE rows
        /\ last_started' = Untracked /\ Done(t)
     \/ /\ mode = "always" /\ \E p \in Found : Adopt(t, p)
     \/ /\ mode = "always" /\ Found = {} /\ Go(t, "pop", NoPid)
        /\ UNCHANGED <<rows, last_started>>
  /\ UNCHANGED os /\ Steady

Pop(t) ==
  /\ At(t, "pop")
  /\ IF job[t].failed
     THEN Go(t, "wait", last_started.pid) /\ UNCHANGED last_started
     ELSE Go(t, "wait", NoPid) /\ last_started' = Untracked
  /\ UNCHANGED <<os, rows, install_lock, attempts, seen, prompt, lock, mode,
                 bounds>>

(* Mutant: a first launch counts as a relaunch.                            *)
MutSpent == IF attempts = 0 THEN 1 ELSE attempts

(***************************************************************************)
(* The launch, under the lock; a refused one returns no pid.               *)
(***************************************************************************)
Spent == IF attempts = 0 /\ ~first THEN 1 ELSE attempts
Spend == attempts' = IF Spent <= RELAUNCHES THEN Spent + 1 ELSE Spent
WornOut == RELAUNCHES > 0 /\ Spent > RELAUNCHES

(* What handle_process does once the launch has returned the pid p.        *)
Return(t, p) == IF p # NoPid /\ job[t].cmd \in {"handle", "hung"}
                THEN Go(t, "finish", p) ELSE Done(t)

AlreadyUp(t) ==
  /\ last_started.pid # job[t].pid /\ Running(last_started.pid)

Dated == {"pid", "failed", "killed"}

Enter(t) == At(t, "wait") /\ lock = NoThread

(* Another thread has launched it while this one waited.                   *)
FindLaunched(t) ==
  /\ Enter(t) /\ AlreadyUp(t) /\ Return(t, last_started.pid)
  /\ UNCHANGED <<os, rows, last_started>> /\ Steady

(* The executable is gone, which is found out before an attempt is spent.  *)
Missing(t) ==
  /\ Enter(t) /\ ~AlreadyUp(t) /\ faults < MaxFaults /\ faults' = faults + 1
  /\ last_started' = LaunchFailed /\ rows' \in Surfaced(rows, NoPid) /\ Done(t)
  /\ UNCHANGED <<os, install_lock, attempts, seen, prompt, lock, mode,
                 commands, recycles>>

(* Nothing stands against it, and the attempt is spent. That something was *)
(* tried too recently is found out after that.                             *)
Reserve(t) ==
  /\ Enter(t) /\ ~AlreadyUp(t) /\ ~prompt /\ Spend
  /\ \/ lock' = t /\ Go(t, "launch", NoPid)
     \/ last_started.mark \in Dated /\ Done(t) /\ UNCHANGED lock
  /\ UNCHANGED <<os, rows, last_started, install_lock, seen, prompt, mode,
                 bounds>>

Suspended(t) ==
  /\ Enter(t) /\ ~AlreadyUp(t) /\ prompt /\ Done(t)
  /\ UNCHANGED <<os, rows, last_started>> /\ Steady

(* The prompt to reboot opens; that it could not is a Reserve.             *)
Escalate(t) ==
  /\ Enter(t) /\ ~AlreadyUp(t) /\ ~prompt /\ WornOut
  /\ prompt' = TRUE /\ attempts' = 0 /\ Done(t)
  /\ UNCHANGED <<os, rows, last_started, install_lock, seen, mode, lock,
                 bounds>>

Launch(t) ==
  /\ At(t, "launch")
  /\ \E p \in Pids : /\ os[p] = "free"
                     /\ os' = [os EXCEPT ![p] = "ours"] /\ Go(t, "record", p)
  /\ UNCHANGED <<rows, last_started>> /\ Steady

(* Mutant: a launch that fails does not let go of the lock.                *)
MutLaunchFails(t) ==
  /\ At(t, "launch") /\ faults < MaxFaults /\ faults' = faults + 1
  /\ last_started' = LaunchFailed /\ Done(t)
  /\ UNCHANGED <<os, rows, install_lock, attempts, seen, prompt, lock, mode,
                 commands, recycles>>

(* It fails, with an exception or without a pid, or it succeeds and no pid *)
(* comes back. After a hung process nothing says so: its row reads RUNNING.*)
LaunchFails(t) ==
  /\ At(t, "launch") /\ faults < MaxFaults /\ faults' = faults + 1
  /\ \/ UNCHANGED os
     \/ \E p \in Pids : os[p] = "free" /\ os' = [os EXCEPT ![p] = "ours"]
  /\ \/ /\ job[t].cmd = "hung" /\ Stamp(job[t].pid, "RUNNING")
        /\ UNCHANGED last_started
     \/ job[t].cmd # "hung" /\ UNCHANGED <<rows, last_started>>
     \/ /\ job[t].cmd # "hung" /\ last_started' = LaunchFailed
        /\ rows' \in Surfaced(rows, NoPid)
  /\ lock' = NoThread /\ Done(t)
  /\ UNCHANGED <<install_lock, attempts, seen, prompt, mode, commands,
                 recycles>>

Record(t) ==
  /\ At(t, "record")
  /\ Bind(job[t].pid, "LAUNCHING") /\ last_started' = Tracking(job[t].pid)
  /\ lock' = NoThread /\ Return(t, job[t].pid)
  /\ UNCHANGED <<os, install_lock, attempts, seen, prompt, mode,
                 bounds>>

(* handle_process, outside the lock again, writes down the pid it was given*)
Finish(t) ==
  /\ At(t, "finish") /\ last_started' = Tracking(job[t].pid) /\ Done(t)
  /\ UNCHANGED <<os, rows>> /\ Steady

(***************************************************************************)
(* Ending the process.                                                     *)
(***************************************************************************)
(* kill_and_relaunch_process: gate, budget, mark, all under the lock.      *)
Seize(t) ==
  /\ At(t, "seize") /\ lock = NoThread
  /\ LET p == job[t].pid IN
     \/ /\ ~Proven(p)
        /\ last_started' = IF last_started.pid = p THEN Untracked
                                                   ELSE last_started
        /\ rows' \in {[r EXCEPT ![p].status = "RUNNING"] : r \in Refused(p)}
        /\ Done(t) /\ UNCHANGED <<attempts, prompt, lock>>
     \/ /\ Proven(p) /\ (prompt \/ WornOut)
        /\ Stamp(p, "RUNNING") /\ Done(t)
        /\ prompt' = TRUE /\ attempts' = IF prompt THEN attempts ELSE 0
        /\ UNCHANGED <<last_started, lock>>
     \/ /\ Proven(p) /\ ~prompt
        /\ Spend /\ Stamp(p, "KILLED") /\ lock' = t /\ Go(t, "term", p)
        /\ UNCHANGED <<last_started, prompt>>
  /\ UNCHANGED <<os, install_lock, seen, mode, bounds>>

AfterTerm(t) ==
  IF job[t].cmd = "hung" THEN "launch"
  ELSE IF job[t].cmd = "restart" /\ ~Running(job[t].pid) THEN "clear"
  ELSE "mark"

Terminate(t) ==
  /\ At(t, "term")
  /\ LET p == job[t].pid IN
     /\ os' = [os EXCEPT ![p] = "free"] /\ rows' = Ended(rows, p)
     /\ Go(t, AfterTerm(t), p)
  /\ UNCHANGED last_started /\ Steady

(* What is noted once graceful_terminate has returned.                     *)
MarkEnded(t) ==
  /\ At(t, "mark")
  /\ \/ /\ job[t].cmd = "kill"
        /\ Stamp(job[t].pid, "KILLED") /\ last_started' = Killed /\ Done(t)
     \/ /\ job[t].cmd = "restart" /\ last_started' = Killed
        /\ Go(t, "clear", NoPid) /\ UNCHANGED rows
     \/ /\ job[t].cmd = "install" /\ Stamp(job[t].pid, "STOPPED")
        /\ last_started' = Untracked /\ Go(t, "installing", NoPid)
  /\ UNCHANGED os /\ Steady

(***************************************************************************)
(* Commands.                                                               *)
(***************************************************************************)
Free(t) == /\ At(t, "idle") /\ commands < MaxCommands
           /\ commands' = commands + 1

Commanded == UNCHANGED <<os, attempts, prompt, lock, faults, recycles>>

(* kill_process, stop_process: the tracked pid, else one the rows prove,   *)
(* else one that is found.                                                 *)
Kill(t) ==
  /\ Free(t)
  /\ LET tracked == last_started.pid
         proven == {p \in Pids : Proven(p)}
     IN \/ /\ Running(tracked) /\ Proven(tracked)
           /\ Begin(t, "kill", "term", tracked)
           /\ UNCHANGED <<rows, last_started>>
        \/ /\ Running(tracked) /\ ~Proven(tracked)
           /\ last_started' = Untracked /\ rows' \in Refused(tracked)
           /\ UNCHANGED <<job, first, overlapped>>
        \/ /\ ~Running(tracked)
           /\ \E p \in IF proven # {} THEN proven ELSE Found :
                Begin(t, "kill", "term", p)
           /\ UNCHANGED <<rows, last_started>>
  /\ UNCHANGED <<install_lock, seen, mode>> /\ Commanded

(* start_process, with its look for an instance that is not tracked.       *)
Start(t) ==
  /\ Free(t) /\ ~Running(last_started.pid)
  /\ \/ \E p \in Found :
          /\ last_started' = Tracking(p) /\ Bind(p, "RUNNING")
          /\ UNCHANGED <<job, first, overlapped>>
     \/ /\ Found = {} /\ Begin(t, "start", "clear", NoPid)
        /\ UNCHANGED <<rows, last_started>>
  /\ UNCHANGED <<install_lock, seen, mode>> /\ Commanded

(* restart_process: it is marked as killed before it is ended, so that no  *)
(* crash is reported.                                                      *)
RestartProcess(t) ==
  /\ Free(t)
  /\ LET tracked == last_started.pid IN
     \/ /\ Running(tracked) /\ Proven(tracked)
        /\ Stamp(tracked, "KILLED") /\ Begin(t, "restart", "term", tracked)
        /\ UNCHANGED last_started
     \/ /\ Running(tracked) /\ rows[tracked].record = "stale"
        /\ rows' = [rows EXCEPT ![tracked] = NoRow]
        /\ last_started' = Untracked /\ UNCHANGED <<job, first, overlapped>>
     \/ /\ ~Running(tracked)
        /\ \E p \in Found :
             IF rows[p].record = "stale"
             THEN /\ rows' = [rows EXCEPT ![p] = NoRow]
                  /\ last_started' = Untracked
                  /\ UNCHANGED <<job, first, overlapped>>
             ELSE /\ Stamp(p, "KILLED") /\ Begin(t, "restart", "term", p)
                  /\ UNCHANGED last_started
     \/ /\ ~Running(tracked) /\ Found = {}
        /\ Begin(t, "restart", "clear", NoPid)
        /\ UNCHANGED <<rows, last_started>>
  /\ UNCHANGED <<install_lock, seen, mode>> /\ Commanded

(* Both then forget what is tracked and launch; a restart forgets the      *)
(* attempts too.                                                           *)
Clear(t) ==
  /\ At(t, "clear")
  /\ last_started' = Untracked
  /\ attempts' = IF job[t].cmd = "restart" THEN 0 ELSE attempts
  /\ Go(t, "wait", NoPid)
  /\ UNCHANGED <<os, rows, install_lock, seen, prompt, lock, mode, bounds>>

(* set_launch_mode saves the configuration, then applies the transition.   *)
SetMode(t) ==
  /\ Free(t) /\ \E m \in Modes \ {mode} :
                mode' = m /\ Begin(t, m, "apply", NoPid)
  /\ UNCHANGED <<rows, last_started, install_lock, seen>> /\ Commanded

Transition(t, m) ==
  IF m = "off"
  THEN rows' = Retired /\ Done(t) /\ UNCHANGED <<last_started, attempts>>
  ELSE /\ last_started' = Untracked /\ attempts' = 0
       /\ Begin(t, "handle", "look", NoPid) /\ UNCHANGED rows

ApplyMode(t) ==
  /\ At(t, "apply") /\ seen' = job[t].cmd /\ Transition(t, job[t].cmd)
  /\ UNCHANGED <<os, install_lock, prompt, lock, mode, bounds>>

(* install_software with this process among suppress_projects.             *)
Install(t) ==
  /\ Free(t) /\ install_lock' = TRUE
  /\ LET tracked == last_started.pid IN
     \/ /\ tracked # NoPid /\ Proven(tracked)
        /\ Begin(t, "install", "term", tracked)
        /\ UNCHANGED <<rows, last_started>>
     \/ /\ tracked # NoPid /\ ~Proven(tracked)
        /\ rows' \in Refused(tracked) /\ last_started' = Untracked
        /\ Begin(t, "install", "installing", NoPid)
     \/ /\ tracked = NoPid /\ Begin(t, "install", "installing", NoPid)
        /\ UNCHANGED <<rows, last_started>>
  /\ UNCHANGED <<seen, mode>> /\ Commanded

Installed(t) ==
  /\ At(t, "installing") /\ install_lock' = FALSE /\ Done(t)
  /\ UNCHANGED <<os, rows, last_started, attempts, seen, prompt, lock, mode,
                 bounds>>

(***************************************************************************)
(* The monitor loop, and the service that starts again.                    *)
(***************************************************************************)
(* Every five seconds: a change of mode is applied, an entry that is on is *)
(* handled.                                                                *)
Tick ==
  /\ At(monitor, "idle") /\ seen' = mode
  /\ IF seen # "unset" /\ seen # mode THEN Transition(monitor, mode)
     ELSE /\ IF mode = "always" THEN Begin(monitor, "handle", "look", NoPid)
                                ELSE Done(monitor)
          /\ UNCHANGED <<rows, last_started, attempts>>
  /\ UNCHANGED <<os, install_lock, prompt, lock, mode, bounds>>

Forgotten ==
  /\ last_started' = Untracked /\ install_lock' = FALSE /\ attempts' = 0
  /\ first' = TRUE /\ seen' = "unset" /\ prompt' = FALSE /\ lock' = NoThread
  /\ job' = [[t \in Threads |-> Idle] EXCEPT ![monitor].at = "recover"]

(* The service ends and is started again; what it manages runs on.         *)
Restart ==
  /\ faults < MaxFaults /\ faults' = faults + 1 /\ Forgotten
  /\ UNCHANGED <<os, rows, mode, overlapped, commands, recycles>>

Reboot ==
  /\ prompt /\ os' = [p \in Pids |-> "free"]
  /\ rows' = [p \in Pids |-> Ended(rows, p)[p]] /\ Forgotten
  /\ UNCHANGED <<mode, overlapped, bounds>>

(* recover_running_processes keeps the rows whose process is proven to run,*)
(* those without a record and failures, and tracks a proven one.           *)
Recover ==
  /\ At(monitor, "recover")
  /\ rows' = [p \in Pids |->
                IF Running(p) /\ rows[p].record # "stale" THEN rows[p]
                ELSE IF ~Running(p) /\ rows[p] = FailedRow THEN rows[p]
                ELSE NoRow]
  /\ LET proven == {p \in Pids : Proven(p)}
     IN IF mode = "always" /\ proven # {}
        THEN \E p \in proven : last_started' = Tracking(p)
        ELSE UNCHANGED last_started
  /\ job' = [job EXCEPT ![monitor] = Idle]
  /\ UNCHANGED <<os, first, overlapped>> /\ Steady

(***************************************************************************)
(* What happens around the service.                                        *)
(***************************************************************************)
(* The process crashes, or somebody closes it.                             *)
Die(p) ==
  /\ os[p] = "ours" /\ faults < MaxFaults /\ faults' = faults + 1
  /\ os' = [os EXCEPT ![p] = "free"] /\ rows' = Ended(rows, p)
  /\ UNCHANGED <<memory, first, mode, job, overlapped, commands, recycles>>

(* Another program gets a pid that is free, though not between the moment  *)
(* a thread has proven or been given that pid and its use of it.           *)
Recycle(p) ==
  /\ os[p] = "free" /\ recycles < MaxRecycles /\ recycles' = recycles + 1
  /\ \A t \in Threads : job[t].pid = p => job[t].at \notin {"term", "record"}
  /\ os' = [os EXCEPT ![p] = "other"]
  /\ UNCHANGED <<rows, memory, first, mode, job, overlapped, commands, faults>>

(* The mode is edited in the local configuration.                          *)
EditMode ==
  /\ commands < MaxCommands /\ commands' = commands + 1
  /\ mode' \in Modes \ {mode}
  /\ UNCHANGED <<os, rows, memory, first, job, overlapped, faults, recycles>>

(* A minute has passed since a launch failed; the prompt has timed out or  *)
(* was dismissed.                                                          *)
Cool ==
  /\ last_started.mark = "failed"
  /\ last_started' = [last_started EXCEPT !.mark = "cooled"]
  /\ UNCHANGED <<os, rows, first, job, overlapped>> /\ Steady

PromptEnds ==
  /\ prompt /\ prompt' = FALSE
  /\ UNCHANGED <<os, rows, last_started, install_lock, attempts, seen, lock,
                 first, mode, job, overlapped, bounds>>

(***************************************************************************)
Advance(t) ==
  \/ Skip(t) \/ FirstLook(t) \/ Look(t) \/ LookAgain(t)
  \/ Alive(t) \/ Fresh(t) \/ Pop(t)
  \/ FindLaunched(t) \/ Reserve(t) \/ Suspended(t) \/ Escalate(t)
  \/ Launch(t) \/ Record(t) \/ Finish(t)
  \/ Seize(t) \/ Terminate(t) \/ MarkEnded(t)
  \/ Clear(t) \/ ApplyMode(t) \/ Installed(t)

Command(t) ==
  \/ Kill(t) \/ Start(t) \/ RestartProcess(t) \/ SetMode(t) \/ Install(t)

Next ==
  \/ Tick \/ Recover
  \/ \E t \in Threads : Advance(t) \/ Hung(t) \/ Missing(t)
                       \/ LaunchFails(t)
  \/ \E t \in Workers : Command(t)
  \/ \E p \in Pids : Die(p) \/ Recycle(p)
  \/ Restart \/ Reboot \/ EditMode \/ Cool \/ PromptEnds

Spec == Init /\ [][Next]_vars

(* Every thread goes on with what it does and the loop comes round; time   *)
(* passes. Neither commands nor faults are fair.                           *)
FairSpec ==
  /\ Spec
  /\ WF_vars(Tick \/ Recover \/ Advance(monitor))
  /\ \A t \in Workers : WF_vars(Advance(t))
  /\ WF_vars(Cool) /\ WF_vars(PromptEnds)
-----------------------------------------------------------------------------
Commands == {"none", "handle", "hung", "kill", "start", "restart", "install"}
            \cup Modes
Places == {"idle", "recover", "look", "alive", "fresh", "pop", "wait",
           "launch", "record", "finish", "seize", "term", "mark", "clear",
           "apply", "installing"}
Statuses == LiveClaims \cup {"none", "KILLED", "STOPPED", "LAUNCH_FAILED"}

Job == [cmd : Commands, at : Places, pid : Pids \cup {NoPid},
        failed : BOOLEAN]
Row == [status : Statuses, record : {"none", "match", "stale"}]

Marks == {Untracked, LaunchFailed, Killed, [pid |-> NoPid, mark |-> "cooled"]}

(* Pids and rows belong together, marks and pids exclude each other.       *)
TypeOK ==
  /\ os \in [Pids -> {"free", "ours", "other"}]
  /\ rows \in [Pids -> Row]
  /\ last_started \in Marks \cup {Tracking(p) : p \in Pids}
  /\ attempts \in 0..(RELAUNCHES + 1)
  /\ mode \in Modes /\ seen \in Modes \cup {"unset"}
  /\ lock \in Threads \cup {NoThread}
  /\ job \in [Threads -> Job]
  /\ install_lock \in BOOLEAN /\ first \in BOOLEAN
  /\ prompt \in BOOLEAN /\ overlapped \in BOOLEAN

(* Unless a command and a round of the loop overlap, an entry has one      *)
(* instance: crashes, launches that cannot tell their pid, a service that  *)
(* starts again and a mode that is edited lead to no second one.           *)
OneUnlessOverlapped == Cardinality(Ours) > 1 => overlapped

(* handle_process_launch, with its lock and its second look: "two could    *)
(* double-launch" is what the lock is there against.                       *)
OneInstance == Cardinality(Ours) <= 1

(* A reboot of the machine is proposed only after more failures and        *)
(* operators' commands than relaunch_attempts, if nothing overlapped.      *)
EscalationEarned == prompt => overlapped \/ faults + commands > RELAUNCHES

(* The counter behind the reboot prompt counts crashes: it "resets [...]   *)
(* when an operator starts or restarts the process".                       *)
RebootNeedsCrashes == prompt => faults > 0

(* Whatever pids are reused, the service ends no program of somebody else: *)
(* every path to a terminate has proven the pid by its record, or found it.*)
StrangersSpared ==
  [][\A p \in Pids : os[p] = "other" /\ os'[p] = "free"
                     => os' = [q \in Pids |-> "free"]]_vars

(* A process killed from the dashboard stays down until it is started      *)
(* again: "killed, NOT deleted" keeps the loop from launching it.          *)
KilledStaysDown == last_started = Killed => Ours = {}

(* It does stay down unless a thread begins while another is at work.      *)
DownUnlessOverlapped == last_started = Killed => overlapped \/ Ours = {}

(* An entry that stays on, is not killed and not locked by an installation *)
(* comes up again, however it went down; but not behind a tracked pid that *)
(* another program has been given, since the loop asks only if it runs.    *)
Wanted == mode = "always" /\ last_started # Killed /\ ~install_lock
Masked == last_started.pid # NoPid /\ os[last_started.pid] = "other"
KeepsRunning == <>[]Wanted => []<>(Ours # {} \/ Masked)
=============================================================================

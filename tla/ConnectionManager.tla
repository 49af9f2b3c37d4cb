------------------------- MODULE ConnectionManager -------------------------
(***************************************************************************)
(* The connection of one agent: the manager's state machine, the thread    *)
(* that reconnects, the metrics loop that reports errors and successes and *)
(* forces reconnects, the listener threads with their pollers, the         *)
(* watchdog that looks for dead ones and restarts the process, and the     *)
(* main thread that starts them all while the network comes and goes.      *)
(***************************************************************************)
EXTENDS Naturals, FiniteSets

CONSTANTS Names,     \* the supervised threads
          Loops,     \* identities of running listener loops
          NoLoop,
          FAILURE_THRESHOLD,
          MaxPerWindow,  \* self-restarts the budget allows
          MaxFaults,     \* bound on outages
          MaxEarlyLooks  \* bound on looks of the watchdog that fall between
                         \* CONNECTED and the start of the threads

ASSUME ConnectionAssumption ==
  /\ Names # {} /\ IsFiniteSet(Names)
  /\ IsFiniteSet(Loops) /\ NoLoop \notin Loops
  /\ FAILURE_THRESHOLD \in Nat \ {0}
  /\ MaxPerWindow \in Nat /\ MaxFaults \in Nat /\ MaxEarlyLooks \in Nat

VARIABLES
  state, failures, circuit, \* _state, _consecutive_failures, _circuit_open
  attempted,    \* an attempt within the backoff (_last_attempt_time)
  inProgress,   \* _reconnect_in_progress
  supervising,  \* _thread_supervision_enabled
  fatal,        \* a fatal error was the last news
  sup,          \* sup[n]: the loop _supervised_threads holds for n
  loop,         \* loop[i]: what loop i runs for and where it is
  stop,         \* stop[n]: the loop whose poller n's stop event ends
  polling,      \* loops whose poller is alive
  todo, picked, \* what a thread that restarts all threads has left to do
  main, seq, metrics, watchdog, \* where the threads are
  net,          \* the network and the service behind it
  stuck,        \* no success for failure_seconds
  slots,        \* restarts recorded on disk within the window
  faults, earlyLooks

manager == <<state, failures, circuit, attempted, inProgress, fatal, stuck>>
listeners == <<sup, loop, stop, polling>>
hands == <<todo, picked>>
threads == <<main, seq, metrics, watchdog>>
world == <<net, slots, faults, earlyLooks>>
vars == <<manager, supervising, listeners, hands, threads, world>>

States == {"DISCONNECTED", "CONNECTING", "CONNECTED", "RECONNECTING",
           "BACKOFF"}
Restarters == {"main", "reconnect"}
Dead == [name |-> NoLoop, at |-> "dead"]
Connected == state = "CONNECTED"
IsAlive(i) == i # NoLoop /\ loop[i].at # "dead"
Kinds == IF net = "api down" THEN {"plain", "fatal"} ELSE {"plain"}

Unpicked == [r \in Restarters |-> NoLoop]
NoThreads == [n \in Names |-> NoLoop]

(* The process starts: the client's constructor is about to connect.       *)
Init ==
  /\ state = "CONNECTING" /\ failures = 0 /\ circuit = "closed"
  /\ attempted = FALSE /\ inProgress = FALSE /\ fatal = FALSE
  /\ stuck = FALSE /\ supervising = FALSE
  /\ sup = NoThreads /\ stop = NoThreads
  /\ loop = [i \in Loops |-> Dead] /\ polling = {}
  /\ todo = [r \in Restarters |-> {}] /\ picked = Unpicked
  /\ main = "construct" /\ seq = "idle" /\ metrics = "off"
  /\ watchdog = "off"
  /\ net = "up" /\ slots = 0 /\ faults = 0
  /\ earlyLooks = 0

(***************************************************************************)
(* What the threads report, and what a report does.                        *)
(***************************************************************************)
(* seq is where the caller leaves the reconnect thread if none starts.     *)
TriggerReconnect(next) ==
  IF inProgress THEN seq' = next /\ UNCHANGED inProgress
                ELSE seq' = "started" /\ inProgress' = TRUE

ReportError(kind, next) ==
  /\ fatal' = (fatal \/ kind = "fatal")
  /\ \/ /\ circuit = "open"
        /\ seq' = next /\ UNCHANGED <<state, circuit, inProgress>>
     \/ /\ circuit # "open"
        /\ circuit' = "closed"
        /\ state' = IF Connected THEN "DISCONNECTED" ELSE state
        /\ TriggerReconnect(next)
  /\ UNCHANGED <<failures, attempted, stuck>>

Healthy == /\ failures' = 0 /\ circuit' = "closed" /\ fatal' = FALSE
           /\ stuck' = FALSE /\ state' = "CONNECTED"

ReportSuccess == Healthy /\ UNCHANGED <<attempted, inProgress>>

ForceReconnect ==
  /\ attempted' = FALSE
  /\ state' = IF Connected THEN "DISCONNECTED" ELSE state
  /\ TriggerReconnect(seq)
  /\ UNCHANGED <<failures, circuit, fatal, stuck>>

OnConnectFailure ==
  /\ failures' = IF failures < FAILURE_THRESHOLD THEN failures + 1
                                                 ELSE failures
  /\ circuit' = IF failures' = FAILURE_THRESHOLD /\ circuit = "closed"
                THEN "open" ELSE circuit
  /\ state' = "DISCONNECTED"

(* The restart of all threads, by the thread r, begins.                    *)
RestartAll(r) == todo' = [todo EXCEPT ![r] = Names] /\ UNCHANGED picked

(***************************************************************************)
(* The main thread.                                                        *)
(***************************************************************************)
Connect ==
  /\ main = "construct" /\ main' = "enable"
  /\ IF net = "up" THEN Healthy
                   ELSE OnConnectFailure /\ UNCHANGED <<fatal, stuck>>
  /\ UNCHANGED <<attempted, inProgress, supervising, listeners, hands, seq,
                 metrics, watchdog, world>>

EnableSupervision ==
  /\ main = "enable" /\ main' = "enabled" /\ supervising' = TRUE
  /\ UNCHANGED <<manager, listeners, hands, seq, metrics, watchdog, world>>

StartIfConnected ==
  /\ main = "enabled" /\ main' = "starting"
  /\ IF Connected THEN RestartAll("main") ELSE UNCHANGED hands
  /\ UNCHANGED <<manager, supervising, listeners, seq, metrics, watchdog,
                 world>>

StartWatchdog ==
  /\ main = "starting" /\ todo["main"] = {}
  /\ main' = IF Connected THEN "uploading" ELSE "metrics"
  /\ watchdog' = "looking"
  /\ UNCHANGED <<manager, supervising, listeners, hands, seq, metrics, world>>

FirstUpload ==
  /\ main = "uploading" /\ main' = "metrics"
  /\ \/ net = "up" /\ ReportSuccess /\ UNCHANGED seq
     \/ net # "up" /\ \E k \in Kinds : ReportError(k, seq)
     \/ ~Connected /\ UNCHANGED <<manager, seq>>
  /\ UNCHANGED <<supervising, listeners, hands, metrics, watchdog, world>>

StartMetrics ==
  /\ main = "metrics" /\ main' = "checking" /\ metrics' = "top"
  /\ UNCHANGED <<manager, supervising, listeners, hands, seq, watchdog, world>>

(* start() restarts the threads a second time, after the seen commands.    *)
StartListeners ==
  /\ main = "checking" /\ main' = "running"
  /\ IF Connected THEN RestartAll("main") ELSE UNCHANGED hands
  /\ UNCHANGED <<manager, supervising, listeners, seq, metrics, watchdog,
                 world>>

(***************************************************************************)
(* The restart of the supervised threads, by the main thread or the one    *)
(* that reconnects: nothing excludes the other between look and start.     *)
(***************************************************************************)
LookAtThread(r) ==
  /\ picked[r] = NoLoop
  /\ \E n \in todo[r] :
       IF IsAlive(sup[n])
       THEN todo' = [todo EXCEPT ![r] = @ \ {n}] /\ UNCHANGED picked
       ELSE picked' = [picked EXCEPT ![r] = n] /\ UNCHANGED todo
  /\ UNCHANGED <<manager, supervising, listeners, threads, world>>

(* An identity is free when nothing refers to it any longer.               *)
IsFree(i) == /\ loop[i] = Dead /\ i \notin polling
             /\ \A n \in Names : sup[n] # i /\ stop[n] # i

StartThread(r) ==
  LET n == picked[r] IN
  /\ n # NoLoop
  /\ \E i \in Loops :
       /\ IsFree(i)
       /\ loop' = [loop EXCEPT ![i] = [name |-> n, at |-> "new"]]
       /\ sup' = [sup EXCEPT ![n] = i]
  /\ todo' = [todo EXCEPT ![r] = @ \ {n}]
  /\ picked' = [picked EXCEPT ![r] = NoLoop]
  /\ UNCHANGED <<manager, supervising, stop, polling, threads, world>>

(***************************************************************************)
(* The listener loops.                                                     *)
(***************************************************************************)
Moves(i, p) == loop' = [loop EXCEPT ![i].at = p]

LoopStarts(i) ==
  LET n == loop[i].name IN
  /\ loop[i].at = "new"
  /\ IF Connected
     THEN Moves(i, "ready") /\ polling' = polling \ {stop[n]}
     ELSE loop' = [loop EXCEPT ![i] = Dead] /\ UNCHANGED polling
  /\ UNCHANGED <<manager, supervising, sup, stop, hands, threads, world>>

LoopListens(i) ==
  /\ loop[i].at = "ready" /\ Moves(i, "listening")
  /\ polling' = polling \cup {i}
  /\ stop' = [stop EXCEPT ![loop[i].name] = i]
  /\ UNCHANGED <<manager, supervising, sup, hands, threads, world>>

LoopLeaves(i) ==
  /\ loop[i].at = "listening" /\ ~Connected /\ Moves(i, "leaving")
  /\ UNCHANGED <<manager, supervising, sup, stop, polling, hands, threads,
                 world>>

LoopEnds(i) ==
  /\ loop[i].at = "leaving" /\ loop' = [loop EXCEPT ![i] = Dead]
  /\ polling' = polling \ {stop[loop[i].name]}
  /\ UNCHANGED <<manager, supervising, sup, stop, hands, threads, world>>

LoopStep(i) == LoopStarts(i) \/ LoopListens(i) \/ LoopLeaves(i) \/ LoopEnds(i)

(***************************************************************************)
(* The thread that reconnects.                                             *)
(***************************************************************************)
quiet == <<supervising, listeners, hands, main, metrics, watchdog, world>>

BackOff ==
  /\ seq = "started"
  /\ \/ attempted /\ seq' = "asleep" /\ state' = "BACKOFF"
     \/ seq' = "awake" /\ state' = "RECONNECTING"
  /\ UNCHANGED <<failures, circuit, attempted, inProgress, fatal, stuck,
                 quiet>>

WakeUp ==
  /\ seq = "asleep" /\ seq' = "awake" /\ UNCHANGED <<manager, quiet>>

Attempt ==
  /\ seq = "awake" /\ seq' = "trying"
  /\ state' = "RECONNECTING" /\ attempted' = TRUE
  /\ UNCHANGED <<failures, circuit, inProgress, fatal, stuck, quiet>>

Fail ==
  /\ seq = "trying" /\ net # "up" /\ seq' = "ending" /\ OnConnectFailure
  /\ UNCHANGED <<attempted, inProgress, fatal, stuck, quiet>>

Succeed ==
  /\ seq = "trying" /\ net = "up" /\ seq' = "connected" /\ Healthy
  /\ UNCHANGED <<attempted, inProgress, quiet>>

RestartThreads ==
  /\ seq = "connected" /\ seq' = "restarting"
  /\ IF supervising THEN RestartAll("reconnect") ELSE UNCHANGED hands
  /\ UNCHANGED <<manager, supervising, listeners, main, metrics, watchdog,
                 world>>

(* The first data after a connect; before start() there is none to send.   *)
OnConnected ==
  /\ seq = "restarting" /\ todo["reconnect"] = {}
  /\ IF net = "up" \/ ~supervising
     THEN seq' = "ending" /\ UNCHANGED manager
     ELSE \E k \in Kinds : ReportError(k, "ending")
  /\ UNCHANGED quiet

(* Mutant: the flag is not taken back.                                     *)
MutFinally ==
  /\ seq = "ending" /\ seq' = "idle" /\ UNCHANGED <<manager, quiet>>

Finally ==
  /\ seq = "ending" /\ seq' = "idle" /\ inProgress' = FALSE
  /\ UNCHANGED <<state, failures, circuit, attempted, fatal, stuck, quiet>>

Reconnect == \/ BackOff \/ WakeUp \/ Attempt \/ Fail \/ Succeed
             \/ RestartThreads \/ OnConnected \/ Finally

(***************************************************************************)
(* The metrics loop, and others that use the connection.                   *)
(***************************************************************************)
BeginUpload ==
  /\ metrics = "top" /\ Connected /\ metrics' = "uploading"
  /\ UNCHANGED <<manager, supervising, listeners, hands, main, seq, watchdog,
                 world>>

(* Mutant: success is reported whether the upload landed or not.           *)
MutEndUpload ==
  /\ metrics = "uploading" /\ metrics' = "top"
  /\ ReportSuccess /\ UNCHANGED seq
  /\ UNCHANGED <<supervising, listeners, hands, main, watchdog, world>>

EndUpload ==
  /\ metrics = "uploading" /\ metrics' = "top"
  /\ \/ net = "up" /\ ReportSuccess /\ UNCHANGED seq
     \/ net # "up" /\ \E k \in Kinds : ReportError(k, seq)
     \/ ~Connected /\ UNCHANGED <<manager, seq>>
  /\ UNCHANGED <<supervising, listeners, hands, main, watchdog, world>>

(* Mutant: a reconnect is forced while one waits, not when none does.      *)
MutForceFromMetrics ==
  /\ metrics = "top" /\ state = "BACKOFF" /\ ForceReconnect
  /\ UNCHANGED <<supervising, listeners, hands, main, metrics, watchdog,
                 world>>

ForceFromMetrics ==
  /\ metrics = "top" /\ state = "DISCONNECTED" /\ ForceReconnect
  /\ UNCHANGED <<supervising, listeners, hands, main, metrics, watchdog,
                 world>>

(* Any other operation that fails: a config read, an inventory sync.       *)
OtherFails ==
  /\ supervising /\ net # "up" /\ \E k \in Kinds : ReportError(k, seq)
  /\ UNCHANGED <<supervising, listeners, hands, main, metrics, watchdog,
                 world>>

(***************************************************************************)
(* The watchdog.                                                           *)
(***************************************************************************)
(* Mutant: a thread that has never been started is missed, a dead one not. *)
MutDeadThreads == {n \in Names : sup[n] = NoLoop}

DeadThreads == {n \in Names : sup[n] # NoLoop /\ ~IsAlive(sup[n])}
Early == seq \in {"connected", "restarting"} \/ todo["main"] # {}

Look ==
  /\ watchdog = "looking" /\ watchdog' = "deciding"
  /\ IF Connected /\ DeadThreads # {}
     THEN /\ Early => earlyLooks < MaxEarlyLooks
          /\ earlyLooks' = earlyLooks + (IF Early THEN 1 ELSE 0)
          /\ ReportError("plain", seq)
     ELSE UNCHANGED <<manager, seq, earlyLooks>>
  /\ UNCHANGED <<supervising, listeners, hands, main, metrics, net, slots,
                 faults>>

ShouldRestart == stuck /\ ~fatal

Decide ==
  /\ watchdog = "deciding"
  /\ watchdog' = IF ShouldRestart THEN "firing" ELSE "looking"
  /\ UNCHANGED <<manager, supervising, listeners, hands, main, seq, metrics,
                 world>>

(* Mutant: the number of restarts is not compared with the budget.         *)
MutConsumeBudget == slots' = slots + 1

(* Refused offline, with the budget spent, or when it cannot be recorded.  *)
ConsumeBudget == slots < MaxPerWindow /\ slots' = slots + 1

Spare ==
  /\ watchdog = "firing" /\ watchdog' = "looking"
  /\ UNCHANGED <<manager, supervising, listeners, hands, main, seq, metrics,
                 world>>

SelfRestart ==
  /\ watchdog = "firing" /\ net # "down" /\ ConsumeBudget
  /\ state' = "CONNECTING" /\ failures' = 0 /\ circuit' = "closed"
  /\ attempted' = FALSE /\ inProgress' = FALSE /\ fatal' = FALSE
  /\ stuck' = FALSE /\ supervising' = FALSE
  /\ sup' = NoThreads /\ stop' = NoThreads
  /\ loop' = [i \in Loops |-> Dead] /\ polling' = {}
  /\ todo' = [r \in Restarters |-> {}] /\ picked' = Unpicked
  /\ main' = "construct" /\ seq' = "idle" /\ metrics' = "off"
  /\ watchdog' = "off"
  /\ UNCHANGED <<net, faults, earlyLooks>>

(***************************************************************************)
(* Time and the network.                                                   *)
(***************************************************************************)
RecoveryTimeout ==
  /\ circuit = "open" /\ circuit' = "due"
  /\ UNCHANGED <<state, failures, attempted, inProgress, fatal, stuck, seq,
                 quiet>>

FatalAges ==
  /\ fatal /\ fatal' = FALSE
  /\ UNCHANGED <<state, failures, circuit, attempted, inProgress, stuck, seq,
                 quiet>>

(* While the connection works an upload lands every two minutes.           *)
NoSuccess ==
  /\ ~stuck /\ (net # "up" \/ ~Connected) /\ stuck' = TRUE
  /\ UNCHANGED <<state, failures, circuit, attempted, inProgress, fatal, seq,
                 quiet>>

Outage ==
  /\ net = "up" /\ faults < MaxFaults /\ faults' = faults + 1
  /\ net' \in {"down", "api down"}
  /\ UNCHANGED <<manager, supervising, listeners, hands, threads, slots,
                 earlyLooks>>

Recover ==
  /\ net # "up" /\ net' = "up"
  /\ UNCHANGED <<manager, supervising, listeners, hands, threads, slots,
                 faults, earlyLooks>>

-----------------------------------------------------------------------------
Start == \/ Connect \/ EnableSupervision \/ StartIfConnected \/ StartWatchdog
         \/ FirstUpload \/ StartMetrics \/ StartListeners
Metrics == BeginUpload \/ EndUpload \/ ForceFromMetrics
Guard == Look \/ Decide \/ SelfRestart \/ Spare

Next == \/ Start \/ Reconnect \/ Metrics \/ Guard \/ OtherFails
        \/ \E r \in Restarters : LookAtThread(r) \/ StartThread(r)
        \/ \E i \in Loops : LoopStep(i)
        \/ RecoveryTimeout \/ FatalAges \/ NoSuccess \/ Outage \/ Recover

Spec == Init /\ [][Next]_vars

(* Every thread runs on and every sleep ends; an outage may last.          *)
Fairness ==
  /\ WF_vars(Start) /\ WF_vars(Reconnect) /\ WF_vars(Metrics)
  /\ WF_vars(Guard) /\ WF_vars(RecoveryTimeout)
  /\ \A r \in Restarters : WF_vars(LookAtThread(r) \/ StartThread(r))
  /\ \A i \in Loops : WF_vars(LoopStep(i))

FairSpec == Spec /\ Fairness

-----------------------------------------------------------------------------
(* Every variable has its type.                                            *)
TypeOK ==
  /\ state \in States /\ failures \in 0 .. FAILURE_THRESHOLD
  /\ circuit \in {"closed", "open", "due"}
  /\ attempted \in BOOLEAN /\ inProgress \in BOOLEAN
  /\ fatal \in BOOLEAN /\ stuck \in BOOLEAN /\ supervising \in BOOLEAN
  /\ sup \in [Names -> Loops \cup {NoLoop}]
  /\ stop \in [Names -> Loops \cup {NoLoop}]
  /\ loop \in [Loops -> {Dead} \cup [name : Names,
                 at : {"new", "ready", "listening", "leaving"}]]
  /\ polling \subseteq Loops
  /\ todo \in [Restarters -> SUBSET Names]
  /\ picked \in [Restarters -> Names \cup {NoLoop}]
  /\ net \in {"up", "down", "api down"}
  /\ slots \in 0 .. MaxPerWindow

(* No state waits for a reconnect nobody carries out: the metrics loop     *)
(* forces one only out of DISCONNECTED, so RECONNECTING and BACKOFF must   *)
(* have a live sequence behind them, BACKOFF one that sleeps, and the flag *)
(* that keeps others away must be down when the sequence has gone.         *)
NeverStranded ==
  /\ inProgress <=> seq # "idle"
  /\ state = "RECONNECTING" => seq \in {"awake", "trying"}
  /\ state = "BACKOFF" => seq \in {"asleep", "awake"}

(* Once the network stays, the agent gets its connection back, although    *)
(* no failed attempt schedules the next one and errors are skipped while   *)
(* the breaker is open or a reconnect is under way.                        *)
KeepsReturning == <>[](net = "up") => []<>Connected

(* It then stays connected and every supervised listener lives: one that   *)
(* died, or left as the connection came back, is started again.            *)
ListenersReturn ==
  <>[](net = "up") =>
    <>[](Connected /\ \A n \in Names : IsAlive(sup[n]))

(* An outage does not hide behind CONNECTED, breaker open or not.          *)
OutageNoticed ==
  (net # "up" /\ Connected) ~> (net = "up" \/ ~Connected)

(* connection_manager.py: "Force an immediate reconnect, bypassing         *)
(* backoff."  Once it is forced, the reconnect does not sleep.             *)
ForcedIsImmediate == [][ForceFromMetrics => seq' # "asleep"]_vars

(* firebase_client.py: "Kill a surviving poller or a reconnect             *)
(* double-polls."  No document is polled twice while its loops listen.     *)
PolledOnce ==
  \A i, j \in polling : i # j => loop[i].name # loop[j].name
=============================================================================

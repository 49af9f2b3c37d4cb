----------------------- MODULE ConnectionManagerProofs -----------------------
(***************************************************************************)
(* For any names, thresholds and bounds: the variables keep their types,   *)
(* and no state waits for a reconnect that nobody carries out.             *)
(***************************************************************************)
EXTENDS ConnectionManager, TLAPS

(* The two halves of TypeOK: few actions disturb both.                     *)
ManagerTyped ==
  /\ state \in States /\ failures \in 0 .. FAILURE_THRESHOLD
  /\ circuit \in {"closed", "open", "due"}
  /\ attempted \in BOOLEAN /\ inProgress \in BOOLEAN
  /\ fatal \in BOOLEAN /\ stuck \in BOOLEAN
ThreadsTyped ==
  /\ supervising \in BOOLEAN
  /\ sup \in [Names -> Loops \cup {NoLoop}]
  /\ stop \in [Names -> Loops \cup {NoLoop}]
  /\ loop \in [Loops -> {Dead} \cup [name : Names,
                 at : {"new", "ready", "listening", "leaving"}]]
  /\ polling \subseteq Loops
  /\ todo \in [Restarters -> SUBSET Names]
  /\ picked \in [Restarters -> Names \cup {NoLoop}]
  /\ net \in {"up", "down", "api down"}
  /\ slots \in 0 .. MaxPerWindow
SeqFits == ManagerTyped /\ NeverStranded

(* What every step keeps: NeverStranded needs no strengthening but types.  *)
Inv == SeqFits /\ ThreadsTyped

(* What a step that starts and ends no thread leaves alone.                *)
Rests == UNCHANGED <<supervising, listeners, hands, net, slots>>

(* ReportError keeps the manager and the sequence in step: it starts one   *)
(* only when none is under way, and then no state waits for it yet.        *)
LEMMA Reported ==
  ASSUME SeqFits, NEW kind, NEW next,
         seq = "idle" <=> next = "idle",
         next = seq \/ state \notin {"RECONNECTING", "BACKOFF"},
         ReportError(kind, next)
  PROVE  SeqFits'
<1> USE DEF SeqFits
<1>1. fatal' \in BOOLEAN
  BY Zenon DEF ReportError
<1>2. /\ failures' = failures /\ attempted' = attempted /\ stuck' = stuck
  BY DEF ReportError
<1>3. CASE circuit = "open"
  <2>1. /\ state' = state /\ circuit' = circuit /\ seq' = next
        /\ inProgress' = inProgress
    BY <1>3 DEF ReportError
  <2> QED BY <1>1, <1>2, <2>1 DEF ManagerTyped, NeverStranded
<1>4. CASE circuit # "open"
  <2>1. /\ circuit' = "closed" /\ TriggerReconnect(next)
        /\ state' = IF Connected THEN "DISCONNECTED" ELSE state
    BY <1>4 DEF ReportError
  <2>2. CASE inProgress
    <3>1. seq' = next /\ inProgress' = inProgress
      BY <2>1, <2>2 DEF TriggerReconnect
    <3> QED BY <1>1, <1>2, <2>1, <3>1 DEF ManagerTyped, NeverStranded,
                                          Connected, States
  <2>3. CASE ~inProgress
    <3>1. seq' = "started" /\ inProgress' = TRUE
      BY <2>1, <2>3 DEF TriggerReconnect
    <3> QED BY <1>1, <1>2, <2>1, <2>3, <3>1 DEF ManagerTyped,
                                       NeverStranded, Connected, States
  <2> QED BY <2>2, <2>3
<1> QED BY <1>3, <1>4

(* So do the other reports, and a connect that fails or succeeds leaves    *)
(* states nobody has to move on from.                                      *)
LEMMA Recovered ==
  ASSUME SeqFits, Healthy, UNCHANGED <<attempted, inProgress>>,
         seq = "idle" <=> seq' = "idle"
  PROVE  SeqFits'
<1>1. failures' \in 0 .. FAILURE_THRESHOLD
  BY ConnectionAssumption DEF Healthy
<1> QED BY <1>1 DEF SeqFits, ManagerTyped, NeverStranded, Healthy, States

(* A connect that fails leaves a state that nobody has to move on from.    *)
LEMMA Failed ==
  ASSUME SeqFits, OnConnectFailure,
         UNCHANGED <<attempted, inProgress, fatal, stuck>>,
         seq = "idle" <=> seq' = "idle"
  PROVE  SeqFits'
<1>1. failures' \in 0 .. FAILURE_THRESHOLD
  BY ConnectionAssumption DEF SeqFits, ManagerTyped, OnConnectFailure
<1>2. circuit' \in {"closed", "open", "due"}
  BY DEF SeqFits, ManagerTyped, OnConnectFailure
<1> QED BY <1>1, <1>2 DEF SeqFits, ManagerTyped, NeverStranded,
                          OnConnectFailure, States

(* A forced reconnect starts the reconnect thread or finds one at work.    *)
LEMMA Forced ==
  ASSUME SeqFits, ForceReconnect
  PROVE  SeqFits'
<1>1. /\ attempted' = FALSE /\ failures' = failures /\ circuit' = circuit
      /\ fatal' = fatal /\ stuck' = stuck /\ TriggerReconnect(seq)
      /\ state' = IF Connected THEN "DISCONNECTED" ELSE state
  BY DEF ForceReconnect
<1>2. CASE inProgress
  <2>1. seq' = seq /\ inProgress' = inProgress
    BY <1>1, <1>2 DEF TriggerReconnect
  <2> QED BY <1>1, <2>1 DEF SeqFits, ManagerTyped, NeverStranded, Connected,
                            States
<1>3. CASE ~inProgress
  <2>1. seq' = "started" /\ inProgress' = TRUE
    BY <1>1, <1>3 DEF TriggerReconnect
  <2> QED BY <1>1, <1>3, <2>1 DEF SeqFits, ManagerTyped, NeverStranded,
                                  Connected, States
<1> QED BY <1>2, <1>3

(* A step that touches neither the manager nor the sequence keeps it.      *)
LEMMA Untouched ==
  ASSUME SeqFits, UNCHANGED <<manager, seq>>
  PROVE  SeqFits'
BY DEF SeqFits, ManagerTyped, NeverStranded, manager

(* A step that touches none of the other variables keeps their types.      *)
LEMMA Rested ==
  ASSUME ThreadsTyped, Rests
  PROVE  ThreadsTyped'
BY DEF ThreadsTyped, Rests, listeners, hands

(* The beginning of a restart of all threads keeps the types.              *)
LEMMA Handed ==
  ASSUME ThreadsTyped, NEW r \in Restarters,
         RestartAll(r) \/ UNCHANGED hands,
         UNCHANGED <<supervising, listeners, net, slots>>
  PROVE  ThreadsTyped'
<1>1. CASE RestartAll(r)
  <2>1. todo' \in [Restarters -> SUBSET Names]
    BY <1>1 DEF RestartAll, ThreadsTyped
  <2> QED BY <1>1, <2>1 DEF RestartAll, ThreadsTyped, listeners
<1>2. CASE UNCHANGED hands
  BY <1>2, Rested DEF Rests
<1> QED BY <1>1, <1>2

(* The main thread: it connects, then starts the others.                   *)
LEMMA StartKeeps ==
  ASSUME Inv, Start
  PROVE  Inv'
<1> USE DEF Inv
<1>1. CASE Connect
  <2>1. UNCHANGED <<attempted, inProgress, seq>> /\ Rests
    BY <1>1 DEF Connect, Rests, world
  <2>2. \/ Healthy
        \/ OnConnectFailure /\ UNCHANGED <<fatal, stuck>>
    BY <1>1 DEF Connect
  <2> QED BY <2>1, <2>2, Recovered, Failed, Rested
<1>2. CASE EnableSupervision
  <2>1. UNCHANGED <<manager, seq>>
    BY <1>2 DEF EnableSupervision
  <2>2. ThreadsTyped'
    BY <1>2 DEF EnableSupervision, ThreadsTyped, listeners, hands, world
  <2> QED BY <2>1, <2>2, Untouched
<1>3. CASE StartIfConnected
  <2>1. /\ UNCHANGED <<manager, seq, supervising, listeners, net, slots>>
        /\ RestartAll("main") \/ UNCHANGED hands
    BY <1>3 DEF StartIfConnected, world
  <2> QED BY <2>1, Untouched, Handed DEF Restarters
<1>4. CASE StartWatchdog
  <2>1. UNCHANGED <<manager, seq>> /\ Rests
    BY <1>4 DEF StartWatchdog, Rests, world
  <2> QED BY <2>1, Untouched, Rested
<1>5. CASE FirstUpload
  <2>1. Rests
    BY <1>5 DEF FirstUpload, Rests, world
  <2>2. CASE ReportSuccess /\ UNCHANGED seq
    BY <2>1, <2>2, Recovered, Rested DEF ReportSuccess
  <2>3. CASE \E k \in Kinds : ReportError(k, seq)
    BY <2>1, <2>3, Reported, Rested
  <2>4. CASE UNCHANGED <<manager, seq>>
    BY <2>1, <2>4, Untouched, Rested
  <2> QED BY <1>5, <2>2, <2>3, <2>4 DEF FirstUpload
<1>6. CASE StartMetrics
  <2>1. UNCHANGED <<manager, seq>> /\ Rests
    BY <1>6 DEF StartMetrics, Rests, world
  <2> QED BY <2>1, Untouched, Rested
<1>7. CASE StartListeners
  <2>1. /\ UNCHANGED <<manager, seq, supervising, listeners, net, slots>>
        /\ RestartAll("main") \/ UNCHANGED hands
    BY <1>7 DEF StartListeners, world
  <2> QED BY <2>1, Untouched, Handed DEF Restarters
<1> QED BY <1>1, <1>2, <1>3, <1>4, <1>5, <1>6, <1>7 DEF Start

(* The restart of the threads: looks and starts.                           *)
LEMMA HandsKeep ==
  ASSUME Inv, NEW r \in Restarters, LookAtThread(r) \/ StartThread(r)
  PROVE  Inv'
<1> USE DEF Inv
<1>1. CASE LookAtThread(r)
  <2>1. UNCHANGED <<manager, seq, supervising, listeners, net, slots>>
    BY <1>1 DEF LookAtThread, threads, world
  <2>2. todo' \in [Restarters -> SUBSET Names]
    BY <1>1 DEF LookAtThread, ThreadsTyped
  <2>3. picked' \in [Restarters -> Names \cup {NoLoop}]
    BY <1>1 DEF LookAtThread, ThreadsTyped
  <2> QED BY <2>1, <2>2, <2>3, Untouched DEF ThreadsTyped, listeners
<1>2. CASE StartThread(r)
  <2>1. UNCHANGED <<manager, seq, supervising, stop, polling, net, slots>>
    BY <1>2 DEF StartThread, threads, world
  <2>2. picked[r] \in Names
    BY <1>2 DEF StartThread, ThreadsTyped
  <2>3. PICK i \in Loops :
          /\ loop' = [loop EXCEPT ![i] = [name |-> picked[r], at |-> "new"]]
          /\ sup' = [sup EXCEPT ![picked[r]] = i]
    BY <1>2 DEF StartThread
  <2>4. loop' \in [Loops -> {Dead} \cup [name : Names,
                     at : {"new", "ready", "listening", "leaving"}]]
    BY <2>2, <2>3 DEF ThreadsTyped
  <2>5. sup' \in [Names -> Loops \cup {NoLoop}]
    BY <2>2, <2>3 DEF ThreadsTyped
  <2>6. /\ todo' \in [Restarters -> SUBSET Names]
        /\ picked' \in [Restarters -> Names \cup {NoLoop}]
    BY <1>2 DEF StartThread, ThreadsTyped
  <2> QED BY <2>1, <2>4, <2>5, <2>6, Untouched DEF ThreadsTyped
<1> QED BY <1>1, <1>2

(* A loop that is not dead is a record with a name.                        *)
LEMMA Lives ==
  ASSUME ThreadsTyped, NEW i \in Loops, loop[i].at # "dead"
  PROVE  loop[i] \in [name : Names,
                      at : {"new", "ready", "listening", "leaving"}]
<1>1. Dead.at = "dead"
  BY DEF Dead
<1>2. loop[i] \in {Dead} \cup [name : Names,
                   at : {"new", "ready", "listening", "leaving"}]
  BY DEF ThreadsTyped
<1> QED BY <1>1, <1>2

(* A listener loop: it starts, listens, leaves and ends.                   *)
LEMMA LoopKeeps ==
  ASSUME Inv, NEW i \in Loops, LoopStep(i)
  PROVE  Inv'
<1> USE DEF Inv
<1>1. UNCHANGED <<manager, seq, supervising, sup, hands, net, slots>>
  BY DEF LoopStep, LoopStarts, LoopListens, LoopLeaves, LoopEnds, threads,
         world
<1>2. ASSUME NEW p \in {"ready", "listening", "leaving"}, Moves(i, p),
             loop[i].at # "dead"
      PROVE  loop' \in [Loops -> {Dead} \cup [name : Names,
                        at : {"new", "ready", "listening", "leaving"}]]
  <2>1. loop[i] \in [name : Names,
                     at : {"new", "ready", "listening", "leaving"}]
    BY <1>2, Lives
  <2>2. [loop[i] EXCEPT !.at = p] \in [name : Names,
          at : {"new", "ready", "listening", "leaving"}]
    BY <1>2, <2>1
  <2>3. loop' = [loop EXCEPT ![i] = [loop[i] EXCEPT !.at = p]]
    BY <1>2 DEF Moves
  <2> QED BY <2>2, <2>3 DEF ThreadsTyped
<1>3. loop' = [loop EXCEPT ![i] = Dead]
        => loop' \in [Loops -> {Dead} \cup [name : Names,
                        at : {"new", "ready", "listening", "leaving"}]]
  BY DEF ThreadsTyped
<1>4. loop' \in [Loops -> {Dead} \cup [name : Names,
                   at : {"new", "ready", "listening", "leaving"}]]
  BY <1>2, <1>3 DEF LoopStep, LoopStarts, LoopListens, LoopLeaves, LoopEnds
<1>5. loop[i].at # "dead" => loop[i].name \in Names
  BY Lives
<1>6. stop' \in [Names -> Loops \cup {NoLoop}]
  BY <1>5 DEF LoopStep, LoopStarts, LoopListens, LoopLeaves, LoopEnds,
              ThreadsTyped
<1>7. polling' \subseteq Loops
  BY DEF LoopStep, LoopStarts, LoopListens, LoopLeaves, LoopEnds,
         ThreadsTyped
<1> QED BY <1>1, <1>4, <1>6, <1>7, Untouched DEF ThreadsTyped, hands

(* The thread that reconnects.                                             *)
LEMMA ReconnectKeeps ==
  ASSUME Inv, Reconnect
  PROVE  Inv'
<1> USE DEF Inv
<1>1. CASE BackOff
  <2>1. Rests
    BY <1>1 DEF BackOff, Rests, quiet, world
  <2> QED BY <1>1, <2>1, Rested DEF BackOff, SeqFits, ManagerTyped,
                                    NeverStranded, States
<1>2. CASE WakeUp
  <2>1. Rests
    BY <1>2 DEF WakeUp, Rests, quiet, world
  <2> QED BY <1>2, <2>1, Rested DEF WakeUp, SeqFits, ManagerTyped,
                                    NeverStranded, manager
<1>3. CASE Attempt
  <2>1. Rests
    BY <1>3 DEF Attempt, Rests, quiet, world
  <2> QED BY <1>3, <2>1, Rested DEF Attempt, SeqFits, ManagerTyped,
                                    NeverStranded, States
<1>4. CASE Fail
  <2>1. Rests
    BY <1>4 DEF Fail, Rests, quiet, world
  <2> QED BY <1>4, <2>1, Failed, Rested DEF Fail
<1>5. CASE Succeed
  <2>1. Rests
    BY <1>5 DEF Succeed, Rests, quiet, world
  <2> QED BY <1>5, <2>1, Recovered, Rested DEF Succeed
<1>6. CASE RestartThreads
  <2>1. /\ UNCHANGED <<manager, supervising, listeners, net, slots>>
        /\ RestartAll("reconnect") \/ UNCHANGED hands
    BY <1>6 DEF RestartThreads, world
  <2>2. SeqFits'
    BY <1>6 DEF RestartThreads, SeqFits, ManagerTyped, NeverStranded, manager
  <2> QED BY <2>1, <2>2, Handed DEF Restarters
<1>7. CASE OnConnected
  <2>1. Rests
    BY <1>7 DEF OnConnected, Rests, quiet, world
  <2>2. CASE seq' = "ending" /\ UNCHANGED manager
    BY <1>7, <2>1, <2>2, Rested DEF OnConnected, SeqFits, ManagerTyped,
                                    NeverStranded, manager
  <2>3. CASE \E k \in Kinds : ReportError(k, "ending")
    <3>1. seq # "idle" /\ state \notin {"RECONNECTING", "BACKOFF"}
      BY <1>7 DEF OnConnected, SeqFits, NeverStranded
    <3> QED BY <2>1, <2>3, <3>1, Reported, Rested
  <2> QED BY <1>7, <2>2, <2>3 DEF OnConnected
<1>8. CASE Finally
  <2>1. Rests
    BY <1>8 DEF Finally, Rests, quiet, world
  <2> QED BY <1>8, <2>1, Rested DEF Finally, SeqFits, ManagerTyped,
                                    NeverStranded
<1> QED BY <1>1, <1>2, <1>3, <1>4, <1>5, <1>6, <1>7, <1>8 DEF Reconnect

(* The metrics loop, and other operations that fail.                       *)
LEMMA MetricsKeep ==
  ASSUME Inv, Metrics \/ OtherFails
  PROVE  Inv'
<1> USE DEF Inv
<1>1. CASE BeginUpload
  <2>1. UNCHANGED <<manager, seq>> /\ Rests
    BY <1>1 DEF BeginUpload, Rests, world
  <2> QED BY <2>1, Untouched, Rested
<1>2. CASE EndUpload
  <2>1. Rests
    BY <1>2 DEF EndUpload, Rests, world
  <2>2. CASE ReportSuccess /\ UNCHANGED seq
    BY <2>1, <2>2, Recovered, Rested DEF ReportSuccess
  <2>3. CASE \E k \in Kinds : ReportError(k, seq)
    BY <2>1, <2>3, Reported, Rested
  <2>4. CASE UNCHANGED <<manager, seq>>
    BY <2>1, <2>4, Untouched, Rested
  <2> QED BY <1>2, <2>2, <2>3, <2>4 DEF EndUpload
<1>3. CASE ForceFromMetrics
  <2>1. Rests
    BY <1>3 DEF ForceFromMetrics, Rests, world
  <2> QED BY <1>3, <2>1, Forced, Rested DEF ForceFromMetrics
<1>4. CASE OtherFails
  <2>1. Rests
    BY <1>4 DEF OtherFails, Rests, world
  <2> QED BY <1>4, <2>1, Reported, Rested DEF OtherFails
<1> QED BY <1>1, <1>2, <1>3, <1>4 DEF Metrics

(* The watchdog; a restart of the process is as good as its first start.   *)
LEMMA GuardKeeps ==
  ASSUME Inv, Guard
  PROVE  Inv'
<1> USE DEF Inv
<1>1. CASE Look
  <2>1. Rests
    BY <1>1 DEF Look, Rests
  <2>2. ReportError("plain", seq) \/ UNCHANGED <<manager, seq>>
    BY <1>1 DEF Look
  <2> QED BY <2>1, <2>2, Reported, Untouched, Rested
<1>2. CASE Decide
  <2>1. UNCHANGED <<manager, seq>> /\ Rests
    BY <1>2 DEF Decide, Rests, world
  <2> QED BY <2>1, Untouched, Rested
<1>3. CASE SelfRestart
  <2>1. SeqFits'
    <3>1. failures' \in 0 .. FAILURE_THRESHOLD
      BY <1>3, ConnectionAssumption DEF SelfRestart
    <3> QED BY <1>3, <3>1 DEF SelfRestart, SeqFits, ManagerTyped,
                              NeverStranded, States
  <2>2. slots' \in 0 .. MaxPerWindow
    <3>1. slots \in 0 .. MaxPerWindow
      BY DEF ThreadsTyped
    <3>2. slots < MaxPerWindow /\ slots' = slots + 1
      BY <1>3 DEF SelfRestart, ConsumeBudget
    <3> QED BY <3>1, <3>2, ConnectionAssumption
  <2>3. ThreadsTyped'
    BY <1>3, <2>2 DEF SelfRestart, ThreadsTyped, NoThreads, Unpicked
  <2> QED BY <2>1, <2>3
<1>4. CASE Spare
  <2>1. UNCHANGED <<manager, seq>> /\ Rests
    BY <1>4 DEF Spare, Rests, world
  <2> QED BY <2>1, Untouched, Rested
<1> QED BY <1>1, <1>2, <1>3, <1>4 DEF Guard

(* Time and the network.                                                   *)
LEMMA WorldKeeps ==
  ASSUME Inv,
         RecoveryTimeout \/ FatalAges \/ NoSuccess \/ Outage \/ Recover
  PROVE  Inv'
<1> USE DEF Inv
<1>1. CASE RecoveryTimeout \/ FatalAges \/ NoSuccess
  <2>1. Rests
    BY <1>1 DEF RecoveryTimeout, FatalAges, NoSuccess, Rests, quiet, world
  <2>2. SeqFits'
    <3>1. CASE RecoveryTimeout
      BY <3>1 DEF RecoveryTimeout, SeqFits, ManagerTyped, NeverStranded
    <3>2. CASE FatalAges
      BY <3>2 DEF FatalAges, SeqFits, ManagerTyped, NeverStranded
    <3>3. CASE NoSuccess
      BY <3>3 DEF NoSuccess, SeqFits, ManagerTyped, NeverStranded
    <3> QED BY <1>1, <3>1, <3>2, <3>3
  <2> QED BY <2>1, <2>2, Rested
<1>2. CASE Outage \/ Recover
  <2>1. UNCHANGED <<manager, seq>>
    BY <1>2 DEF Outage, Recover, threads
  <2>2. ThreadsTyped'
    BY <1>2 DEF Outage, Recover, ThreadsTyped, listeners, hands
  <2> QED BY <2>1, <2>2, Untouched
<1> QED BY <1>1, <1>2

-----------------------------------------------------------------------------
(* The inductive invariant holds of every reachable state.                 *)
THEOREM Invariance == Spec => []Inv
<1>1. Init => Inv
  <2> SUFFICES ASSUME Init PROVE Inv
    OBVIOUS
  <2>1. SeqFits
    <3>1. failures \in 0 .. FAILURE_THRESHOLD
      BY ConnectionAssumption DEF Init
    <3> QED BY <3>1 DEF Init, SeqFits, ManagerTyped, NeverStranded, States
  <2>2. ThreadsTyped
    <3>1. slots \in 0 .. MaxPerWindow
      BY ConnectionAssumption DEF Init
    <3> QED BY <3>1 DEF Init, ThreadsTyped, NoThreads, Unpicked
  <2> QED BY <2>1, <2>2 DEF Inv
<1>2. Inv /\ [Next]_vars => Inv'
  <2> SUFFICES ASSUME Inv, [Next]_vars PROVE Inv'
    OBVIOUS
  <2>1. CASE UNCHANGED vars
    BY <2>1, Untouched, Rested DEF Inv, vars, Rests, threads, world
  <2> QED BY <2>1, StartKeeps, HandsKeep, LoopKeeps, ReconnectKeeps,
             MetricsKeep, GuardKeeps, WorldKeeps DEF Next
<1> QED BY <1>1, <1>2, PTL DEF Spec

(* Whatever the names, the threshold, the budget and the faults, every     *)
(* variable keeps its type.                                                *)
THEOREM TypeCorrect == Spec => []TypeOK
<1>1. Inv => TypeOK
  BY DEF Inv, SeqFits, ManagerTyped, ThreadsTyped, TypeOK
<1> QED BY <1>1, Invariance, PTL

(* No interleaving of reports, successes, forced reconnects, dead threads  *)
(* and restarts leaves the manager waiting for a reconnect that nobody     *)
(* carries out, or keeps others from starting one.                         *)
THEOREM NobodyStranded == Spec => []NeverStranded
<1>1. Inv => NeverStranded
  BY DEF Inv, SeqFits
<1> QED BY <1>1, Invariance, PTL
=============================================================================

-------------------------- MODULE DeploymentProofs --------------------------
(***************************************************************************)
(* For any fleet and any interference: what is written keeps its type, a   *)
(* target shown as completed has its software installed, and status and    *)
(* targets keep step, and nothing but a retry takes a target back to work, *)
(* while no write is based on a document that has changed.                 *)
(***************************************************************************)
EXTENDS Deployment, SequenceTheorems, TLAPS

Owing == create \in {"start", "command"}
RouteOwing == route # NoRoute /\ route.at \in {"unqueue", "command"}

(* Every command but the first of each machine was paid for by a request.  *)
Paid ==
  \A m \in Machines :
    /\ Len(sent[m]) <= spent + 1
    /\ Owing \/ RouteOwing => Len(sent[m]) <= spent
    /\ Owing /\ RouteOwing => Len(sent[m]) + 1 <= spent

(* A command is on a lane once: in the queue without an entry, or at work  *)
(* with the entry of its phase.                                            *)
Orderly(m) ==
  LET lane == agent[m] IN
  /\ \A i \in DOMAIN lane.queue :
       lane.queue[i] \in DOMAIN sent[m] /\ entry[m][lane.queue[i]] = "none"
  /\ \A i, j \in DOMAIN lane.queue : lane.queue[i] = lane.queue[j] => i = j
  /\ ~lane.up => lane.queue = <<>> /\ lane.command = Idle
  /\ lane.command # Idle =>
       /\ lane.command \in DOMAIN sent[m]
       /\ entry[m][lane.command] = lane.at
       /\ lane.at # "idle"

OnLane == \A m \in Machines : Orderly(m)

(* Only an installer's answer reads completed, and what an event tells has *)
(* been entered.                                                           *)
Honest ==
  /\ \A m \in Machines, n \in Numbers :
       entry[m][n] = "completed" =>
         n \in DOMAIN sent[m] /\ sent[m][n] = "install"
  /\ \A e \in events : e.status = "completed" => Installed(e.machine)
  /\ \A h \in handling :
       h.event.status = "completed" => Installed(h.event.machine)

Truthful(targets) ==
  \A m \in Machines : targets[m] = "completed" => Installed(m)

(* What is shown is true in the document and in each copy of it.           *)
Copies ==
  /\ doc # NoDoc => Truthful(doc.targets)
  /\ route # NoRoute => Truthful(route.snap.targets)
  /\ \A h \in handling : Truthful(h.snap.targets)
  /\ sweep # NoSweep => Truthful(sweep.targets)

(* A cancel or a retry is about a target that is not yet, or no more, done *)
(* once it is written.                                                     *)
Asked ==
  route # NoRoute /\ route.op # "delete" =>
    /\ route.asked # {}
    /\ route.op = "cancel" =>
         \A m \in route.asked : route.snap.targets[m] \in PreFlight

IInv ==
  TypeOK /\ Paid /\ OnLane /\ Honest /\ Copies /\ Asked /\
  StatusFollowsTargets

(* The status calculated from targets is final exactly when they all are.  *)
LEMMA Calculated ==
  ASSUME NEW targets \in [Machines -> Shown]
  PROVE  /\ calculateDeploymentStatus(targets) \in {"in_progress"} \cup Over
         /\ calculateDeploymentStatus(targets) \in Over
              <=> AllTerminal(targets)
  <1> DEFINE shown == {targets[m] : m \in Machines}
  <1>1. AllTerminal(targets) <=> shown \subseteq Terminal
    BY DEF AllTerminal
  <1>2. CASE ~(shown \subseteq Terminal)
    <2>1. calculateDeploymentStatus(targets) = "in_progress"
      BY <1>2 DEF calculateDeploymentStatus
    <2> QED BY <2>1, <1>1, <1>2 DEF Over, Terminal
  <1>3. CASE shown \subseteq Terminal /\ \E s \in Terminal : shown = {s}
    <2>1. calculateDeploymentStatus(targets) =
            CHOOSE s \in Terminal : shown = {s}
      BY <1>3 DEF calculateDeploymentStatus
    <2>2. (CHOOSE s \in Terminal : shown = {s}) \in Terminal
      BY <1>3
    <2> QED BY <2>1, <2>2, <1>1, <1>3 DEF Over
  <1>4. CASE shown \subseteq Terminal /\ ~\E s \in Terminal : shown = {s}
    <2>1. calculateDeploymentStatus(targets) = "partial"
      BY <1>4 DEF calculateDeploymentStatus
    <2> QED BY <2>1, <1>1, <1>4 DEF Over
  <1> QED BY <1>2, <1>3, <1>4

(* Commands are numbered in the order they are written.                    *)
LEMMA FanOutKeeps ==
  ASSUME TypeOK, NEW machines, NEW type \in {"install", "cancel"},
         FanOut(machines, type)
  PROVE  /\ sent' \in [Machines -> Seq({"install", "cancel"})]
         /\ \A m \in Machines :
              /\ pending'[m] \subseteq DOMAIN sent'[m]
              /\ Len(sent'[m]) <= Len(sent[m]) + 1
              /\ m \notin machines => sent'[m] = sent[m]
              /\ \A n \in DOMAIN sent[m] :
                   n \in DOMAIN sent'[m] /\ sent'[m][n] = sent[m][n]
  <1> DEFINE longer(m) == Append(sent[m], type)
  <1>1. ASSUME NEW m \in Machines
        PROVE  /\ longer(m) \in Seq({"install", "cancel"})
               /\ Len(longer(m)) = Len(sent[m]) + 1
               /\ DOMAIN sent[m] = 1 .. Len(sent[m])
               /\ DOMAIN longer(m) = 1 .. Len(sent[m]) + 1
               /\ Len(sent[m]) \in Nat
               /\ \A n \in DOMAIN sent[m] : longer(m)[n] = sent[m][n]
    <2>1. sent[m] \in Seq({"install", "cancel"})
      BY DEF TypeOK
    <2> QED BY <2>1, AppendProperties, LenProperties
  <1>2. \A m \in Machines :
          /\ sent'[m] = IF m \in machines THEN longer(m) ELSE sent[m]
          /\ pending'[m] = IF m \in machines
                           THEN pending[m] \cup {Len(sent[m]) + 1}
                           ELSE pending[m]
    BY DEF FanOut
  <1>3. sent' \in [Machines -> Seq({"install", "cancel"})]
    BY <1>1 DEF FanOut, TypeOK
  <1> HIDE DEF longer
  <1>4. ASSUME NEW m \in Machines
        PROVE  /\ pending'[m] \subseteq DOMAIN sent'[m]
               /\ Len(sent'[m]) <= Len(sent[m]) + 1
               /\ m \notin machines => sent'[m] = sent[m]
               /\ \A n \in DOMAIN sent[m] :
                    n \in DOMAIN sent'[m] /\ sent'[m][n] = sent[m][n]
    <2>1. pending[m] \subseteq 1 .. Len(sent[m])
      BY <1>1 DEF TypeOK
    <2>2. CASE m \in machines
      <3>1. sent'[m] = longer(m)
        BY <1>2, <2>2
      <3>2. pending'[m] = pending[m] \cup {Len(sent[m]) + 1}
        BY <1>2, <2>2
      <3> QED BY <1>1, <2>1, <2>2, <3>1, <3>2
    <2>3. CASE m \notin machines
      <3>1. sent'[m] = sent[m] /\ pending'[m] = pending[m]
        BY <1>2, <2>3
      <3> QED BY <1>1, <2>1, <3>1
    <2> QED BY <2>2, <2>3
  <1> QED BY <1>3, <1>4

(* Interference is bounded.                                                *)
LEMMA SpentType ==
  ASSUME TypeOK
  PROVE  spent \in Nat /\ spent <= MaxInterference
  <1>1. spent \in 0 .. MaxInterference
    BY DEF TypeOK
  <1> QED BY <1>1, DeploymentAssumption

(* Every number a machine was told of is one of Numbers.                   *)
LEMMA Numbered ==
  ASSUME TypeOK, Paid
  PROVE  \A m \in Machines :
           /\ DOMAIN sent[m] = 1 .. Len(sent[m]) /\ Len(sent[m]) \in Nat
           /\ DOMAIN sent[m] \subseteq Numbers
           /\ pending[m] \subseteq Numbers
  <1> TAKE m \in Machines
  <1>1. sent[m] \in Seq({"install", "cancel"})
    BY DEF TypeOK
  <1>2. DOMAIN sent[m] = 1 .. Len(sent[m]) /\ Len(sent[m]) \in Nat
    BY <1>1, LenProperties
  <1>3. Len(sent[m]) <= MaxInterference + 1
    BY <1>2, SpentType, DeploymentAssumption DEF Paid
  <1>4. DOMAIN sent[m] \subseteq Numbers
    BY <1>2, <1>3, DeploymentAssumption DEF Numbers
  <1>5. pending[m] \subseteq DOMAIN sent[m]
    BY DEF TypeOK
  <1> QED BY <1>2, <1>4, <1>5

(* A fan-out that was owed is paid for.                                    *)
LEMMA PaidFor ==
  ASSUME TypeOK, Paid, NEW machines, NEW type \in {"install", "cancel"},
         FanOut(machines, type), spent' \in Nat,
         \/ Owing /\ ~Owing' /\ (RouteOwing' <=> RouteOwing)
         \/ RouteOwing /\ ~RouteOwing' /\ (Owing' <=> Owing),
         spent' >= spent
  PROVE  Paid'
  <1> SUFFICES ASSUME NEW m \in Machines
               PROVE  /\ Len(sent'[m]) <= spent' + 1
                      /\ (Owing \/ RouteOwing)' => Len(sent'[m]) <= spent'
                      /\ (Owing /\ RouteOwing)' =>
                           Len(sent'[m]) + 1 <= spent'
    BY DEF Paid
  <1>1. Len(sent[m]) \in Nat
    BY Numbered
  <1>2. sent' \in [Machines -> Seq({"install", "cancel"})]
    BY FanOutKeeps
  <1>3. Len(sent'[m]) \in Nat
    BY <1>2, LenProperties
  <1>4. Len(sent'[m]) <= Len(sent[m]) + 1
    BY FanOutKeeps
  <1>5. /\ Owing \/ RouteOwing => Len(sent[m]) <= spent
        /\ Owing /\ RouteOwing => Len(sent[m]) + 1 <= spent
    BY DEF Paid
  <1> QED BY <1>1, <1>3, <1>4, <1>5, SpentType DEF Owing, RouteOwing

(* The requests of IInv's steps: nobody sends a command without owing it.  *)
LEMMA PaidKept ==
  ASSUME TypeOK, Paid, [Next]_vars
  PROVE  Paid'
  <1>1. spent \in Nat /\ \A m \in Machines : Len(sent[m]) \in Nat
    BY Numbered, SpentType
  <1>2. CASE SetDocument
    BY <1>1, <1>2 DEF SetDocument, Paid, Owing, RouteOwing
  <1>3. CASE QueueInstalls
    <2>1. /\ FanOut(Machines, "install") /\ spent' = spent
          /\ Owing /\ ~Owing' /\ (RouteOwing' <=> RouteOwing)
      BY <1>3 DEF QueueInstalls, Owing, RouteOwing
    <2> QED BY <1>1, <2>1, PaidFor
  <1>4. CASE Started
    BY <1>1, <1>4 DEF Started, Paid, Owing, RouteOwing
  <1>5. CASE CreateDies
    <2>1. PICK reached \in SUBSET Machines :
            FanOut(IF create = "command" THEN reached ELSE {}, "install")
      BY <1>5 DEF CreateDies
    <2>2. spent' = spent + 1 /\ create' = "done" /\ route' = route
      BY <1>5 DEF CreateDies, Interfere
    <2>3. CASE create = "command"
      BY <1>1, <2>1, <2>2, <2>3, PaidFor DEF Owing, RouteOwing
    <2>4. CASE create # "command"
      <3>1. sent' = sent
        BY <2>1, <2>4 DEF FanOut, TypeOK
      <3> QED BY <1>1, <2>2, <3>1 DEF Paid, Owing, RouteOwing
    <2> QED BY <2>3, <2>4
  <1>6. CASE AskCancel \/ AskRetry \/ AskDelete
    <2>1. /\ route = NoRoute /\ spent' = spent + 1
          /\ create' = create /\ sent' = sent
      BY <1>6 DEF AskCancel, AskRetry, AskDelete, Request, Interfere
    <2> QED BY <1>1, <2>1 DEF Paid, Owing, RouteOwing
  <1>7. CASE Unqueue
    BY <1>1, <1>7 DEF Unqueue, Paid, Owing, RouteOwing, At, TypeOK, Requests
  <1>8. CASE QueueCommands
    <2>1. FanOut(route.asked, CommandType)
      BY <1>8 DEF QueueCommands
    <2>2. RouteOwing /\ ~RouteOwing' /\ create' = create /\ spent' = spent
      BY <1>8 DEF QueueCommands, RouteOwing, At, TypeOK, Requests
    <2>3. CommandType \in {"install", "cancel"}
      BY DEF CommandType
    <2> QED BY <1>1, <2>1, <2>2, <2>3, PaidFor DEF Owing
  <1>9. CASE WriteRoute
    BY <1>1, <1>9 DEF WriteRoute, Paid, Owing, RouteOwing, At
  <1>10. CASE RouteDies
    <2>1. PICK reached \in SUBSET route.asked :
            FanOut(IF At("command") THEN reached ELSE {}, CommandType)
      BY <1>10 DEF RouteDies
    <2>2. spent' = spent /\ route' = NoRoute /\ create' = create
      BY <1>10 DEF RouteDies
    <2>3. CommandType \in {"install", "cancel"}
      BY DEF CommandType
    <2>4. CASE At("command")
      BY <1>1, <2>1, <2>2, <2>3, <2>4, PaidFor DEF Owing, RouteOwing, At
    <2>5. CASE ~At("command")
      <3>1. sent' = sent
        BY <2>1, <2>5 DEF FanOut, TypeOK
      <3> QED BY <1>1, <2>2, <3>1 DEF Paid, Owing, RouteOwing
    <2> QED BY <2>4, <2>5
  <1>11. CASE /\ create' = create /\ route' = route /\ sent' = sent
              /\ spent' \in {spent, spent + 1}
    BY <1>1, <1>11 DEF Paid, Owing, RouteOwing
  <1>12. CASE \/ \E m \in Machines :
                  Fetch(m) \/ Works(m) \/ Crash(m) \/ Restart(m)
              \/ Triggers \/ Lose \/ Sweeps \/ SiteRests \/ Tick
              \/ UNCHANGED vars
    <2>1. /\ create' = create /\ route' = route /\ sent' = sent
          /\ spent' \in {spent, spent + 1}
      BY <1>12 DEF vars, dvars, Fetch, Works, Begin, Progress, Finish, Tell,
           Crash, Restart, Triggers, Deliver, Respond, Lose, Sweeps,
           SweepReads, SweepWrites, SiteRests, Tick, Interfere
    <2> QED BY <2>1, <1>11
  <1> QED BY <1>2, <1>3, <1>4, <1>5, <1>6, <1>7, <1>8, <1>9, <1>10, <1>12
          DEF Next, Creates, Routes

(* What a request, a run of the trigger or the sweeper writes is a         *)
(* document.                                                               *)
LEMMA UpdateTyped ==
  ASSUME TypeOK, NEW snap, NEW new, Update(snap, new),
         doc # NoDoc => new \in Docs \cup {NoDoc}
  PROVE  doc' \in Docs \cup {NoDoc} /\ torn' \in BOOLEAN
  <1>1. doc' = IF doc = NoDoc THEN NoDoc ELSE new
    BY DEF Update
  <1>2. torn' \in BOOLEAN
    <2>1. torn' = (torn \/ (doc # NoDoc /\ doc # snap))
      BY DEF Update
    <2> QED BY <2>1
  <1> QED BY <1>1, <1>2 DEF TypeOK

(* What a request writes is typed.                                         *)
LEMMA WrittenTyped ==
  ASSUME TypeOK, route # NoRoute, doc # NoDoc
  PROVE  Written \in Docs
  <1>1. route.snap \in Docs /\ doc \in Docs /\ route \in Requests
    BY DEF TypeOK, Requests
  <1>2. \A status \in Shown : Marked(status) \in [Machines -> Shown]
    BY <1>1 DEF Marked, Docs
  <1>3. "cancelled" \in Shown /\ "pending" \in Shown
    BY DEF Shown, Terminal
  <1>4. \A targets \in [Machines -> Shown] :
          CancelledStatus(targets) \in {doc.status} \cup Over
    BY DEF CancelledStatus, Over, Terminal
  <1>5. CASE route.op = "cancel"
    <2>1. Written = [targets |-> Marked("cancelled"),
                     status |-> CancelledStatus(Marked("cancelled"))]
      BY <1>5 DEF Written
    <2> QED BY <2>1, <1>1, <1>2, <1>3, <1>4 DEF Docs
  <1>6. CASE route.op # "cancel"
    <2>1. Written = [targets |-> Marked("pending"), status |-> "in_progress"]
      BY <1>6 DEF Written
    <2> QED BY <2>1, <1>2, <1>3 DEF Docs
  <1> QED BY <1>5, <1>6

(* So is what the sweeper makes of the targets.                            *)
LEMMA TimedOutTyped ==
  ASSUME NEW targets \in [Machines -> Shown], NEW quarters
  PROVE  TimedOut(targets, quarters) \in [Machines -> Shown]
  BY DEF TimedOut, Shown, Terminal

(* A machine's report is an entry and an event of it.                      *)
LEMMA TellTyped ==
  ASSUME TypeOK, NEW m \in Machines, NEW n \in Numbers,
         NEW status \in Shown \ {"pending"}, Tell(m, n, status)
  PROVE  /\ entry' \in [Machines ->
                        [Numbers -> (Shown \ {"pending"}) \cup {"none"}]]
         /\ events' \subseteq Events
         /\ entry'[m][n] = status
         /\ \A k \in Machines, i \in Numbers :
              k # m \/ i # n => entry'[k][i] = entry[k][i]
  <1>1. [machine |-> m, n |-> n, status |-> status] \in Events
    BY DEF Events
  <1> QED BY <1>1 DEF Tell, TypeOK

(* The requests keep every type.                                           *)
LEMMA RequestsTyped ==
  ASSUME TypeOK, Paid,
         \/ Creates \/ CreateDies \/ AskCancel \/ AskRetry \/ AskDelete
         \/ Routes \/ RouteDies
  PROVE  TypeOK'
  <1>1. CASE SetDocument
    <2>1. doc' \in Docs /\ create' = "command"
      BY <1>1 DEF SetDocument, Docs, Shown
    <2>2. /\ UNCHANGED <<route, sent, pending, entry, agent, events, handling>>
          /\ UNCHANGED <<sweep, age, watched, torn, spent>>
      BY <1>1 DEF SetDocument, avars, time
    <2> QED BY <2>1, <2>2 DEF TypeOK
  <1>2. ASSUME NEW machines, NEW type \in {"install", "cancel"},
               FanOut(machines, type),
               create' \in {"start", "command", "start it", "done"},
               route' \in Requests \cup {NoRoute},
               spent' \in 0 .. MaxInterference,
               UNCHANGED <<doc, events, handling, sweep, time, torn>>
        PROVE  TypeOK'
    <2>1. /\ sent' \in [Machines -> Seq({"install", "cancel"})]
          /\ \A m \in Machines : pending'[m] \subseteq DOMAIN sent'[m]
      BY <1>2, FanOutKeeps
    <2>2. UNCHANGED <<entry, agent, age, watched>>
      BY <1>2 DEF FanOut, time
    <2> QED BY <1>2, <2>1, <2>2 DEF TypeOK
  <1>3. CASE QueueInstalls
    <2>1. /\ FanOut(Machines, "install") /\ create' = "start it"
          /\ UNCHANGED <<doc, route, events, handling, sweep, time, torn,
                         spent>>
      BY <1>3 DEF QueueInstalls
    <2>2. route' \in Requests \cup {NoRoute} /\ spent' \in 0 .. MaxInterference
      BY <2>1 DEF TypeOK
    <2> QED BY <2>1, <2>2, <1>2
  <1>4. CASE Started
    <2>1. doc' \in Docs \cup {NoDoc} /\ create' = "done"
      BY <1>4 DEF Started, TypeOK, Docs
    <2>2. torn' \in BOOLEAN
      <3>1. torn' = (torn \/ (doc # NoDoc /\ AllTerminal(doc.targets)))
        BY <1>4 DEF Started
      <3> QED BY <3>1
    <2>3. /\ UNCHANGED <<route, sent, pending, entry, agent, events, handling>>
          /\ UNCHANGED <<sweep, age, watched, spent>>
      BY <1>4 DEF Started, avars, time
    <2> QED BY <2>1, <2>2, <2>3 DEF TypeOK
  <1>5. CASE CreateDies
    <2>1. PICK reached \in SUBSET Machines :
            FanOut(IF create = "command" THEN reached ELSE {}, "install")
      BY <1>5 DEF CreateDies
    <2>2. /\ create' = "done"
          /\ UNCHANGED <<doc, route, events, handling, sweep, time, torn>>
          /\ spent < MaxInterference /\ spent' = spent + 1
      BY <1>5 DEF CreateDies, Interfere
    <2>3. route' \in Requests \cup {NoRoute}
      BY <2>2 DEF TypeOK
    <2>4. spent' \in 0 .. MaxInterference
      BY <2>2, SpentType, DeploymentAssumption
    <2> QED BY <2>1, <2>2, <2>3, <2>4, <1>2
  <1>6. ASSUME NEW op \in {"cancel", "retry", "delete"},
               NEW at \in {"unqueue", "command", "write"},
               NEW asked \in SUBSET Machines, Request(op, at, asked)
        PROVE  TypeOK'
    <2>1. /\ UNCHANGED <<doc, create, sent, pending, entry, agent, events>>
          /\ UNCHANGED <<handling, sweep, age, watched, torn>>
      BY <1>6 DEF Request, avars, time
    <2>2. doc \in Docs
      BY <1>6 DEF Request, TypeOK
    <2>3. route' \in Requests
      BY <1>6, <2>2 DEF Request, Requests
    <2>4. spent' \in 0 .. MaxInterference
      BY <1>6, SpentType, DeploymentAssumption DEF Request, Interfere
    <2> QED BY <2>1, <2>3, <2>4 DEF TypeOK
  <1>7. CASE AskCancel
    <2>1. Request("cancel", "unqueue",
                  {m \in Machines : doc.targets[m] \in PreFlight})
      BY <1>7 DEF AskCancel
    <2> QED BY <2>1, <1>6
  <1>8. CASE AskRetry
    <2>1. PICK failed \in SUBSET {m \in Machines : doc.targets[m] = "failed"} :
            Request("retry", "command", failed)
      BY <1>8 DEF AskRetry
    <2> QED BY <2>1, <1>6
  <1>9. CASE AskDelete
    <2>1. Request("delete", "write", {})
      BY <1>9 DEF AskDelete
    <2> QED BY <2>1, <1>6
  <1>10. CASE Unqueue
    <2>1. \A m \in Machines : pending'[m] \subseteq pending[m]
      BY <1>10 DEF Unqueue
    <2>2. route' \in Requests
      BY <1>10 DEF Unqueue, At, TypeOK, Requests
    <2>3. /\ UNCHANGED <<doc, create, sent, entry, agent, events, handling>>
          /\ UNCHANGED <<sweep, age, watched, torn, spent>>
      BY <1>10 DEF Unqueue, time
    <2> QED BY <2>1, <2>2, <2>3 DEF TypeOK
  <1>11. CommandType \in {"install", "cancel"}
    BY DEF CommandType
  <1>12. CASE QueueCommands
    <2>1. /\ FanOut(route.asked, CommandType)
          /\ UNCHANGED <<doc, create, events, handling, sweep, time, torn,
                         spent>>
      BY <1>12 DEF QueueCommands
    <2>2. route' \in Requests
      BY <1>12 DEF QueueCommands, At, TypeOK, Requests
    <2>3. /\ create' \in {"start", "command", "start it", "done"}
          /\ spent' \in 0 .. MaxInterference
      BY <2>1 DEF TypeOK
    <2> QED BY <2>1, <2>2, <2>3, <1>2, <1>11
  <1>13. CASE WriteRoute
    <2>1. route # NoRoute /\ route' = NoRoute
      BY <1>13 DEF WriteRoute, At
    <2>2. \/ Update(route.snap, NoDoc) \/ Update(route.snap, Written)
      BY <1>13 DEF WriteRoute
    <2>3. doc' \in Docs \cup {NoDoc} /\ torn' \in BOOLEAN
      BY <2>1, <2>2, UpdateTyped, WrittenTyped
    <2>4. /\ UNCHANGED <<create, sent, pending, entry, agent, events>>
          /\ UNCHANGED <<handling, sweep, age, watched, spent>>
      BY <1>13 DEF WriteRoute, avars, time
    <2> QED BY <2>1, <2>3, <2>4 DEF TypeOK
  <1>14. CASE RouteDies
    <2>1. PICK reached \in SUBSET route.asked :
            FanOut(IF At("command") THEN reached ELSE {}, CommandType)
      BY <1>14 DEF RouteDies
    <2>2. /\ route' = NoRoute
          /\ UNCHANGED <<doc, create, events, handling, sweep, time>>
          /\ UNCHANGED <<torn, spent>>
      BY <1>14 DEF RouteDies
    <2>3. create' \in {"start", "command", "start it", "done"}
      BY <2>2 DEF TypeOK
    <2>4. spent' \in 0 .. MaxInterference
      BY <2>2, SpentType, DeploymentAssumption
    <2> QED BY <2>1, <2>2, <2>3, <2>4, <1>2, <1>11
  <1> QED BY <1>1, <1>3, <1>4, <1>5, <1>7, <1>8, <1>9, <1>10, <1>12, <1>13,
             <1>14 DEF Creates, Routes

(* The machines keep every type.                                           *)
LEMMA MachinesTyped ==
  ASSUME TypeOK, Paid, NEW m \in Machines,
         Fetch(m) \/ Works(m) \/ Crash(m) \/ Restart(m)
  PROVE  TypeOK'
  <1>1. /\ agent[m].up \in BOOLEAN /\ agent[m].queue \in Seq(Numbers)
        /\ agent[m].command \in Numbers \cup {Idle}
        /\ agent \in [Machines -> Lanes]
    BY DEF TypeOK, Lanes
  <1>2. ASSUME NEW lane \in Lanes, agent' = [agent EXCEPT ![m] = lane]
        PROVE  agent' \in [Machines -> Lanes]
    BY <1>1, <1>2
  <1>3. CASE Fetch(m)
    <2>1. PICK n \in pending[m] :
            agent' = [agent EXCEPT ![m].queue = Append(@, n)]
      BY <1>3 DEF Fetch
    <2>2. n \in Numbers
      BY Numbered
    <2>3. Append(agent[m].queue, n) \in Seq(Numbers)
      BY <1>1, <2>2, AppendProperties
    <2>4. agent' \in [Machines -> Lanes]
      BY <1>1, <2>1, <2>3 DEF Lanes
    <2>5. /\ UNCHANGED <<doc, create, route, sent, pending, entry, events>>
          /\ UNCHANGED <<handling, sweep, age, watched, torn, spent>>
      BY <1>3 DEF Fetch, dvars, time
    <2> QED BY <2>4, <2>5 DEF TypeOK
  <1>4. ASSUME NEW n \in Numbers, NEW status \in Shown \ {"pending"},
               Tell(m, n, status), agent' \in [Machines -> Lanes],
               \A k \in Machines : pending'[k] \subseteq pending[k],
               spent' = spent
        PROVE  TypeOK'
    <2>1. /\ UNCHANGED <<doc, create, route, sent, handling, sweep>>
          /\ UNCHANGED <<age, watched, torn, spent>>
      BY <1>4 DEF Tell, dvars, time
    <2>2. /\ entry' \in [Machines ->
                         [Numbers -> (Shown \ {"pending"}) \cup {"none"}]]
          /\ events' \subseteq Events
      BY <1>4, TellTyped
    <2> QED BY <1>4, <2>1, <2>2 DEF TypeOK
  <1>5. CASE Begin(m)
    <2>1. /\ Head(agent[m].queue) \in Numbers
          /\ Tail(agent[m].queue) \in Seq(Numbers)
      BY <1>1, <1>5, HeadTailProperties DEF Begin
    <2>2. /\ Tell(m, Head(agent[m].queue), "running")
          /\ agent' = [agent EXCEPT ![m].queue = Tail(@),
                                    ![m].command = Head(agent[m].queue),
                                    ![m].at = "running"]
          /\ pending' = pending /\ spent' = spent
      BY <1>5 DEF Begin
    <2>3. agent' \in [Machines -> Lanes]
      BY <1>1, <2>1, <2>2 DEF Lanes
    <2>4. "running" \in Shown \ {"pending"}
      BY DEF Shown
    <2> QED BY <1>4, <2>1, <2>2, <2>3, <2>4
  <1>6. CASE Progress(m)
    <2>1. PICK phase \in Follows(agent[m].at) :
            /\ Tell(m, agent[m].command, phase)
            /\ agent' = [agent EXCEPT ![m].at = phase]
      BY <1>6 DEF Progress
    <2>2. phase \in {"closing_processes"} \cup Active
      BY DEF Follows, Active
    <2>3. phase \in Shown \ {"pending"}
      BY <2>2 DEF Shown, Active
    <2>4. agent' \in [Machines -> Lanes]
      BY <1>1, <2>1, <2>2 DEF Lanes
    <2> QED BY <1>1, <1>4, <1>6, <2>1, <2>3, <2>4 DEF Progress
  <1>7. CASE Finish(m)
    <2>1. PICK status \in Outcomes(m) : Tell(m, agent[m].command, status)
      BY <1>7 DEF Finish
    <2>2. status \in Shown \ {"pending"}
      BY DEF Outcomes, Shown, Terminal
    <2>3. /\ agent[m].command \in Numbers /\ spent' = spent
          /\ pending' = [pending EXCEPT ![m] = @ \ {agent[m].command}]
          /\ agent' = [agent EXCEPT ![m].command = Idle, ![m].at = "idle"]
      BY <1>1, <1>7 DEF Finish
    <2>4. agent' \in [Machines -> Lanes]
      BY <1>1, <2>3 DEF Lanes
    <2>5. \A k \in Machines : pending'[k] \subseteq pending[k]
      BY <2>3
    <2> QED BY <1>4, <2>1, <2>2, <2>3, <2>4, <2>5
  <1>8. CASE Crash(m)
    <2>1. agent' = [agent EXCEPT ![m] = [up |-> FALSE, queue |-> <<>>,
                                         command |-> Idle, at |-> "idle"]]
      BY <1>8 DEF Crash
    <2>2. [up |-> FALSE, queue |-> <<>>, command |-> Idle, at |-> "idle"]
            \in Lanes
      BY DEF Lanes
    <2>3. /\ UNCHANGED <<doc, create, route, sent, pending, entry, events>>
          /\ UNCHANGED <<handling, sweep, age, watched, torn>>
      BY <1>8 DEF Crash, dvars, time
    <2>4. spent' \in 0 .. MaxInterference
      BY <1>8, SpentType, DeploymentAssumption DEF Crash, Interfere
    <2> QED BY <1>2, <2>1, <2>2, <2>3, <2>4 DEF TypeOK
  <1>9. CASE Restart(m)
    <2> DEFINE cut == {n \in Numbers : entry[m][n] = "running"}
    <2>1. /\ agent' = [agent EXCEPT ![m].up = TRUE]
          /\ entry' = [entry EXCEPT ![m] = [n \in Numbers |->
                         IF n \in cut THEN "failed" ELSE entry[m][n]]]
          /\ pending' = [pending EXCEPT ![m] = @ \ cut]
          /\ events' = events \cup
               {[machine |-> m, n |-> n, status |-> "failed"] : n \in cut}
      BY <1>9 DEF Restart
    <2>2. /\ UNCHANGED <<doc, create, route, sent, handling, sweep>>
          /\ UNCHANGED <<age, watched, torn, spent>>
      BY <1>9 DEF Restart, dvars, time
    <2>0. cut \subseteq Numbers
      OBVIOUS
    <2> HIDE DEF cut
    <2>3. agent' \in [Machines -> Lanes]
      BY <1>1, <2>1 DEF Lanes
    <2>4. "failed" \in Shown \ {"pending"}
      BY DEF Shown, Terminal
    <2>5. events' \subseteq Events
      <3>1. \A n \in cut :
              [machine |-> m, n |-> n, status |-> "failed"] \in Events
        BY <2>0, <2>4 DEF Events
      <3> QED BY <2>1, <3>1 DEF TypeOK
    <2>6. entry' \in [Machines ->
                       [Numbers -> (Shown \ {"pending"}) \cup {"none"}]]
      BY <2>1, <2>4 DEF TypeOK
    <2>7. \A k \in Machines : pending'[k] \subseteq pending[k]
      BY <2>1
    <2> QED BY <2>2, <2>3, <2>5, <2>6, <2>7 DEF TypeOK
  <1> QED BY <1>3, <1>5, <1>6, <1>7, <1>8, <1>9 DEF Works

(* So do the trigger, the sweeper and time.                                *)
LEMMA PlatformTyped ==
  ASSUME TypeOK, Triggers \/ Lose \/ Sweeps \/ SiteRests \/ Tick
  PROVE  TypeOK'
  <1>1. ASSUME NEW e \in events, Deliver(e)
        PROVE  TypeOK'
    <2>1. /\ events' \subseteq events
          /\ \A h \in handling' :
               \/ h \in handling
               \/ doc # NoDoc /\ h = [event |-> e, snap |-> doc]
      BY <1>1 DEF Deliver
    <2>2. \A h \in handling' : h.event \in Events /\ h.snap \in Docs
      <3>1. doc # NoDoc => doc \in Docs
        BY DEF TypeOK
      <3>2. /\ e \in Events
            /\ \A h \in handling : h.event \in Events /\ h.snap \in Docs
        BY DEF TypeOK
      <3>3. ASSUME NEW h \in handling',
                   doc # NoDoc, h = [event |-> e, snap |-> doc]
            PROVE  h.event \in Events /\ h.snap \in Docs
        <4>1. h.event = e /\ h.snap = doc
          BY <3>3
        <4> QED BY <4>1, <3>1, <3>2, <3>3
      <3> QED BY <2>1, <3>2, <3>3
    <2>3. /\ UNCHANGED <<doc, create, route, sent, pending, entry, agent>>
          /\ UNCHANGED <<sweep, age, watched, torn, spent>>
      BY <1>1 DEF Deliver, dvars, avars, time
    <2> QED BY <2>1, <2>2, <2>3 DEF TypeOK
  <1>2. ASSUME NEW h \in handling, Respond(h)
        PROVE  TypeOK'
    <2> DEFINE targets == [h.snap.targets EXCEPT ![h.event.machine] =
                             h.event.status]
               calculated == calculateDeploymentStatus(targets)
               status == IF calculated # h.snap.status THEN calculated
                         ELSE doc.status
    <2>1. targets \in [Machines -> Shown]
      BY DEF TypeOK, Events, Docs
    <2>2. calculated \in {"pending", "in_progress"} \cup Over
      BY <2>1, Calculated
    <2>3. Update(h.snap, [targets |-> targets, status |-> status])
      BY <1>2 DEF Respond
    <2> HIDE DEF targets, calculated
    <2>4. doc # NoDoc => status \in {"pending", "in_progress"} \cup Over
      BY <2>2 DEF TypeOK, Docs
    <2> HIDE DEF status
    <2>5. doc # NoDoc => [targets |-> targets, status |-> status] \in Docs
      BY <2>1, <2>4 DEF Docs
    <2>6. doc' \in Docs \cup {NoDoc} /\ torn' \in BOOLEAN
      BY <2>3, <2>5, UpdateTyped
    <2>7. /\ UNCHANGED <<create, route, sent, pending, entry, agent>>
          /\ UNCHANGED <<events, sweep, age, watched, spent>>
          /\ handling' \subseteq handling
      BY <1>2 DEF Respond, dvars, avars, time
    <2> QED BY <2>6, <2>7 DEF TypeOK
  <1>3. CASE Lose
    <2>1. events' \subseteq events /\ handling' \subseteq handling
      BY <1>3 DEF Lose
    <2>2. /\ UNCHANGED <<doc, create, route, sent, pending, entry, agent>>
          /\ UNCHANGED <<sweep, age, watched, torn>>
      BY <1>3 DEF Lose, dvars, avars, time
    <2>3. spent' \in 0 .. MaxInterference
      BY <1>3, SpentType, DeploymentAssumption DEF Lose, Interfere
    <2> QED BY <2>1, <2>2, <2>3 DEF TypeOK
  <1>4. CASE SweepReads
    <2>1. doc \in Docs
      BY <1>4 DEF SweepReads, Ended, TypeOK
    <2>2. TimedOut(doc.targets, age) \in [Machines -> Shown]
      BY <2>1, TimedOutTyped DEF Docs
    <2>3. sweep' = [snap |-> doc, targets |-> TimedOut(doc.targets, age)]
      BY <1>4 DEF SweepReads
    <2>4. /\ UNCHANGED <<doc, create, route, sent, pending, entry, agent>>
          /\ UNCHANGED <<events, handling, age, watched, torn, spent>>
      BY <1>4 DEF SweepReads, dvars, avars, time
    <2> QED BY <2>1, <2>2, <2>3, <2>4 DEF TypeOK
  <1>5. CASE SweepWrites
    <2>1. sweep.targets \in [Machines -> Shown]
      BY <1>5 DEF SweepWrites, TypeOK
    <2>2. calculateDeploymentStatus(sweep.targets)
            \in {"in_progress"} \cup Over
      BY <2>1, Calculated
    <2>3. [targets |-> sweep.targets,
           status |-> calculateDeploymentStatus(sweep.targets)] \in Docs
      BY <2>1, <2>2 DEF Docs
    <2>4. doc' \in Docs \cup {NoDoc} /\ torn' \in BOOLEAN
      BY <1>5, <2>3, UpdateTyped DEF SweepWrites
    <2>5. /\ UNCHANGED <<create, route, sent, pending, entry, agent>>
          /\ UNCHANGED <<events, handling, age, watched, spent>>
          /\ sweep' = NoSweep
      BY <1>5 DEF SweepWrites, dvars, avars, time
    <2> QED BY <2>4, <2>5 DEF TypeOK
  <1>6. CASE SiteRests \/ Tick
    <2>1. /\ UNCHANGED <<doc, create, route, sent, pending, entry, agent>>
          /\ UNCHANGED <<events, handling, sweep, torn, spent>>
      BY <1>6 DEF SiteRests, Tick, dvars, avars
    <2>2. age' \in 0 .. MaxAge
      <3>1. age \in 0 .. MaxAge
        BY DEF TypeOK
      <3>2. MaxAge \in Nat
        BY DeploymentAssumption
      <3>3. CASE SiteRests
        BY <3>1, <3>3 DEF SiteRests
      <3>4. CASE Tick
        <4>1. age < MaxAge /\ age' = age + 1
          BY <3>4 DEF Tick
        <4> QED BY <3>1, <3>2, <4>1
      <3> QED BY <1>6, <3>3, <3>4
    <2>3. watched' \in BOOLEAN
      BY <1>6 DEF SiteRests, Tick, TypeOK
    <2> QED BY <2>1, <2>2, <2>3 DEF TypeOK
  <1> QED BY <1>1, <1>2, <1>3, <1>4, <1>5, <1>6 DEF Triggers, Sweeps

(* Every step keeps every type.                                            *)
LEMMA TypeKept ==
  ASSUME TypeOK, Paid, [Next]_vars
  PROVE  TypeOK'
  <1>1. CASE Next
    BY <1>1, RequestsTyped, MachinesTyped, PlatformTyped DEF Next
  <1>2. CASE UNCHANGED vars
    BY <1>2 DEF TypeOK, vars, dvars, avars, time
  <1> QED BY <1>1, <1>2

(* The commands of a machine are only added to, and an entry is rewritten  *)
(* only for a command on the lane or one that was cut off.                 *)
Grows ==
  \A m \in Machines :
    \A n \in DOMAIN sent[m] : n \in DOMAIN sent'[m] /\ sent'[m][n] = sent[m][n]

Lasts ==
  \A m \in Machines, n \in Numbers :
    entry[m][n] = "completed" => entry'[m][n] = "completed"

(* No step takes a command back that a machine has been sent.              *)
LEMMA GrowsAlways ==
  ASSUME TypeOK, [Next]_vars
  PROVE  Grows
  <1>1. CommandType \in {"install", "cancel"}
    BY DEF CommandType
  <1>2. CASE \E machines : \E type \in {"install", "cancel"} :
               FanOut(machines, type)
    BY <1>2, FanOutKeeps DEF Grows
  <1>3. CASE sent' = sent
    BY <1>3 DEF Grows
  <1>4. CASE QueueInstalls
    BY <1>2, <1>4 DEF QueueInstalls
  <1>5. CASE CreateDies
    BY <1>2, <1>5 DEF CreateDies
  <1>6. CASE QueueCommands
    BY <1>1, <1>2, <1>6 DEF QueueCommands
  <1>7. CASE RouteDies
    BY <1>1, <1>2, <1>7 DEF RouteDies
  <1>8. CASE \/ SetDocument \/ Started
             \/ AskCancel \/ AskRetry \/ AskDelete \/ Unqueue \/ WriteRoute
             \/ \E m \in Machines :
                  Fetch(m) \/ Works(m) \/ Crash(m) \/ Restart(m)
             \/ Triggers \/ Lose \/ Sweeps \/ SiteRests \/ Tick
             \/ UNCHANGED vars
    <2>1. sent' = sent
      BY <1>8 DEF vars, dvars, SetDocument, Started, AskCancel, AskRetry,
           AskDelete, Request, Unqueue, WriteRoute, Fetch, Works, Begin,
           Progress, Finish, Tell, Crash, Restart, Triggers, Deliver,
           Respond, Lose, Sweeps, SweepReads, SweepWrites, SiteRests, Tick
    <2> QED BY <2>1, <1>3
  <1> QED BY <1>4, <1>5, <1>6, <1>7, <1>8 DEF Next, Creates, Routes

(* What the lane does to the entries.                                      *)
LEMMA Entered ==
  ASSUME TypeOK, Paid, OnLane, NEW m \in Machines, NEW n \in Numbers,
         NEW status \in Shown \ {"pending"}, Tell(m, n, status),
         entry[m][n] # "completed"
  PROVE  Lasts
  BY TellTyped DEF Lasts

(* No step overwrites the entry of an install that has completed.          *)
LEMMA LastsAlways ==
  ASSUME TypeOK, Paid, OnLane, [Next]_vars
  PROVE  Lasts
  <1>1. CASE entry' = entry
    BY <1>1 DEF Lasts
  <1>2. ASSUME NEW m \in Machines, Begin(m)
        PROVE  Lasts
    <2>1. Head(agent[m].queue) \in Numbers /\ 1 \in DOMAIN agent[m].queue
          /\ Head(agent[m].queue) = agent[m].queue[1]
      <3>1. agent[m].queue \in Seq(Numbers) /\ agent[m].queue # <<>>
        BY <1>2 DEF Begin, TypeOK, Lanes
      <3>2. /\ Len(agent[m].queue) \in Nat /\ Len(agent[m].queue) # 0
            /\ DOMAIN agent[m].queue = 1 .. Len(agent[m].queue)
        BY <3>1, EmptySeq, LenProperties
      <3> QED BY <3>1, <3>2, HeadTailProperties
    <2>2. Tell(m, Head(agent[m].queue), "running")
      BY <1>2 DEF Begin
    <2>3. entry[m][Head(agent[m].queue)] = "none"
      BY <2>1 DEF OnLane, Orderly
    <2>4. "running" \in Shown \ {"pending"}
      BY DEF Shown
    <2> QED BY <2>1, <2>2, <2>3, <2>4, Entered
  <1>3. ASSUME NEW m \in Machines, Progress(m) \/ Finish(m)
        PROVE  Lasts
    <2>1. agent[m].command \in Numbers
      BY <1>3 DEF Progress, Finish, TypeOK, Lanes
    <2>2. entry[m][agent[m].command] # "completed"
      BY <1>3 DEF Progress, Finish, OnLane, Orderly, TypeOK, Lanes, Active
    <2>3. CASE Progress(m)
      <3>1. PICK phase \in Follows(agent[m].at) :
              Tell(m, agent[m].command, phase)
        BY <2>3 DEF Progress
      <3>2. phase \in Shown \ {"pending"}
        BY DEF Follows, Shown, Active
      <3> QED BY <2>1, <2>2, <3>1, <3>2, Entered
    <2>4. CASE Finish(m)
      <3>1. PICK status \in Outcomes(m) : Tell(m, agent[m].command, status)
        BY <2>4 DEF Finish
      <3>2. status \in Shown \ {"pending"}
        BY DEF Outcomes, Shown, Terminal
      <3> QED BY <2>1, <2>2, <3>1, <3>2, Entered
    <2> QED BY <1>3, <2>3, <2>4
  <1>4. ASSUME NEW m \in Machines, Restart(m)
        PROVE  Lasts
    BY <1>4 DEF Restart, Lasts, TypeOK
  <1>5. CASE \/ Creates \/ CreateDies
             \/ AskCancel \/ AskRetry \/ AskDelete \/ Routes \/ RouteDies
             \/ \E m \in Machines : Fetch(m) \/ Crash(m)
             \/ Triggers \/ Lose \/ Sweeps \/ SiteRests \/ Tick
             \/ UNCHANGED vars
    <2>1. entry' = entry
      BY <1>5 DEF vars, dvars, avars, Creates, Routes, SetDocument,
           QueueInstalls, Started, CreateDies, AskCancel, AskRetry,
           AskDelete, Request, Unqueue, QueueCommands, WriteRoute, RouteDies,
           FanOut, Fetch, Crash, Triggers, Deliver, Respond, Lose, Sweeps,
           SweepReads, SweepWrites, SiteRests, Tick
    <2> QED BY <2>1, <1>1
  <1> QED BY <1>2, <1>3, <1>4, <1>5 DEF Next, Works

(* What is installed stays so.                                             *)
LEMMA InstalledLasts ==
  ASSUME TypeOK, Paid, OnLane, [Next]_vars
  PROVE  \A m \in Machines : Installed(m) => Installed(m)'
  BY GrowsAlways, LastsAlways, Numbered DEF Grows, Lasts, Installed

(* A machine that did nothing, and no entry of it changed, stays orderly.  *)
LEMMA Undisturbed ==
  ASSUME TypeOK, Paid, OnLane, Grows, NEW m \in Machines,
         agent'[m] = agent[m],
         \A n \in Numbers : entry'[m][n] = entry[m][n]
  PROVE  Orderly(m)'
  <1>1. DOMAIN sent[m] \subseteq Numbers
    BY Numbered
  <1> QED BY <1>1 DEF OnLane, Orderly, Grows

(* The commands that wait or are at work are numbers in use.               *)
LEMMA LaneFacts ==
  ASSUME TypeOK, NEW m \in Machines
  PROVE  /\ agent \in [Machines -> Lanes]
         /\ agent[m].queue \in Seq(Numbers)
         /\ agent[m].command \in Numbers \cup {Idle}
         /\ Len(agent[m].queue) \in Nat
         /\ DOMAIN agent[m].queue = 1 .. Len(agent[m].queue)
         /\ \A i \in DOMAIN agent[m].queue : agent[m].queue[i] \in Numbers
  <1>1. /\ agent \in [Machines -> Lanes]
        /\ agent[m].queue \in Seq(Numbers)
        /\ agent[m].command \in Numbers \cup {Idle}
    BY DEF TypeOK, Lanes
  <1> QED BY <1>1, LenProperties

(* What is fetched is new to the lane.                                     *)
LEMMA FetchOrderly ==
  ASSUME TypeOK, Paid, OnLane, Grows, NEW m \in Machines, Fetch(m)
  PROVE  Orderly(m)'
  <1> DEFINE queue == agent[m].queue
  <1>1. PICK n \in pending[m] :
          /\ entry[m][n] = "none" /\ ~Has(m, n)
          /\ agent' = [agent EXCEPT ![m].queue = Append(@, n)]
    BY DEF Fetch
  <1>2. n \in DOMAIN sent[m] /\ n \in Numbers
    BY Numbered DEF TypeOK
  <1>3. /\ agent'[m].queue = Append(queue, n)
        /\ agent'[m].command = agent[m].command
        /\ agent'[m].at = agent[m].at /\ agent'[m].up = agent[m].up
    BY <1>1, LaneFacts DEF Lanes
  <1>4. agent[m].up /\ entry' = entry
    BY DEF Fetch
  <1>5. /\ DOMAIN Append(queue, n) = 1 .. Len(queue) + 1
        /\ Append(queue, n)[Len(queue) + 1] = n
        /\ \A i \in 1 .. Len(queue) : Append(queue, n)[i] = queue[i]
        /\ Len(queue) \in Nat /\ DOMAIN queue = 1 .. Len(queue)
    <2>1. queue \in Seq(Numbers)
      BY LaneFacts
    <2> QED BY <1>2, <2>1, AppendProperties, LenProperties
  <1>6. \A i \in DOMAIN queue : queue[i] # n
    BY <1>1 DEF Has
  <1> DEFINE longer == Append(queue, n)
  <1> HIDE DEF longer
  <1>7. ASSUME NEW i \in DOMAIN longer
        PROVE  /\ longer[i] \in DOMAIN sent'[m] /\ entry[m][longer[i]] = "none"
               /\ \/ i \in DOMAIN queue /\ longer[i] = queue[i]
                  \/ /\ i \notin DOMAIN queue /\ i = Len(queue) + 1
                     /\ longer[i] = n
    <2>1. CASE i \in 1 .. Len(queue)
      BY <2>1, <1>5 DEF OnLane, Orderly, Grows, longer
    <2>2. CASE i = Len(queue) + 1
      BY <2>2, <1>1, <1>2, <1>5 DEF Grows, longer
    <2> QED BY <2>1, <2>2, <1>5 DEF longer
  <1>8. \A i, j \in DOMAIN longer : longer[i] = longer[j] => i = j
    <2>1. \A i, j \in DOMAIN queue : queue[i] = queue[j] => i = j
      BY DEF OnLane, Orderly
    <2> HIDE DEF queue
    <2> QED BY <2>1, <1>6, <1>7
  <1>9. agent[m].command # Idle =>
          /\ agent[m].command \in DOMAIN sent'[m]
          /\ entry[m][agent[m].command] = agent[m].at
          /\ agent[m].at # "idle"
    BY DEF OnLane, Orderly, Grows
  <1>10. agent'[m].queue = longer
    BY <1>3 DEF longer
  <1> QED BY <1>3, <1>4, <1>7, <1>8, <1>9, <1>10 DEF Orderly

(* What begins is entered and off the queue.                               *)
LEMMA BeginOrderly ==
  ASSUME TypeOK, Paid, OnLane, Grows, NEW m \in Machines, Begin(m)
  PROVE  Orderly(m)'
  <1> DEFINE queue == agent[m].queue
             rest == Tail(queue)
             n == Head(queue)
  <1>1. queue \in Seq(Numbers) /\ queue # <<>> /\ agent[m].at = "idle"
    BY LaneFacts DEF Begin
  <1>2. /\ Len(queue) \in Nat /\ Len(queue) # 0
        /\ DOMAIN queue = 1 .. Len(queue)
    BY <1>1, EmptySeq, LenProperties
  <1>3. /\ n \in Numbers /\ n = queue[1] /\ rest \in Seq(Numbers)
        /\ Len(rest) = Len(queue) - 1
        /\ \A i \in 1 .. Len(rest) : rest[i] = queue[i + 1]
    BY <1>1, HeadTailProperties
  <1>4. DOMAIN rest = 1 .. Len(rest)
    BY <1>3, LenProperties
  <1>5. /\ Tell(m, n, "running")
        /\ agent' = [agent EXCEPT ![m].queue = Tail(@), ![m].command = n,
                                  ![m].at = "running"]
    BY DEF Begin
  <1>6. /\ agent'[m].queue = rest /\ agent'[m].command = n
        /\ agent'[m].at = "running" /\ agent'[m].up = agent[m].up
    BY <1>5, LaneFacts DEF Lanes
  <1>7. /\ entry'[m][n] = "running"
        /\ \A i \in Numbers : i # n => entry'[m][i] = entry[m][i]
    BY <1>3, <1>5, TellTyped DEF Shown
  <1>8. /\ \A i \in DOMAIN queue :
            queue[i] \in DOMAIN sent[m] /\ entry[m][queue[i]] = "none"
        /\ \A i, j \in DOMAIN queue : queue[i] = queue[j] => i = j
        /\ agent[m].up
    BY <1>1 DEF OnLane, Orderly
  <1>9. \A i \in DOMAIN queue : queue[i] \in Numbers
    BY LaneFacts
  <1> HIDE DEF queue, rest, n
  <1>10. ASSUME NEW i \in DOMAIN rest
         PROVE  /\ i + 1 \in DOMAIN queue /\ rest[i] = queue[i + 1]
                /\ i \in Nat /\ rest[i] # n
    <2>1. /\ i \in Nat /\ i + 1 \in DOMAIN queue /\ i + 1 # 1
          /\ 1 \in DOMAIN queue /\ rest[i] = queue[i + 1]
      BY <1>2, <1>3, <1>4
    <2> QED BY <2>1, <1>3, <1>8
  <1>11. \A i \in DOMAIN rest :
           rest[i] \in DOMAIN sent'[m] /\ entry'[m][rest[i]] = "none"
    BY <1>7, <1>8, <1>9, <1>10 DEF Grows
  <1>12. \A i, j \in DOMAIN rest : rest[i] = rest[j] => i = j
    <2> SUFFICES ASSUME NEW i \in DOMAIN rest, NEW j \in DOMAIN rest,
                        rest[i] = rest[j]
                 PROVE  i = j
      OBVIOUS
    <2>1. i + 1 = j + 1 /\ i \in Nat /\ j \in Nat
      BY <1>8, <1>10
    <2> QED BY <2>1
  <1>13. n \in DOMAIN sent'[m]
    BY <1>2, <1>3, <1>8 DEF Grows
  <1> QED BY <1>6, <1>7, <1>8, <1>11, <1>12, <1>13 DEF Orderly

(* A step of the command at work does not concern those that wait.         *)
LEMMA WorkOrderly ==
  ASSUME TypeOK, Paid, OnLane, Grows, NEW m \in Machines,
         Progress(m) \/ Finish(m)
  PROVE  Orderly(m)'
  <1> DEFINE queue == agent[m].queue
             n == agent[m].command
  <1>1. n \in Numbers /\ n # Idle
    BY LaneFacts DEF Progress, Finish
  <1>2. /\ n \in DOMAIN sent[m] /\ entry[m][n] = agent[m].at
        /\ agent[m].at # "idle" /\ agent[m].up
        /\ \A i \in DOMAIN queue :
             queue[i] \in DOMAIN sent[m] /\ entry[m][queue[i]] = "none"
        /\ \A i, j \in DOMAIN queue : queue[i] = queue[j] => i = j
    BY <1>1 DEF OnLane, Orderly
  <1>3. \A i \in DOMAIN queue : queue[i] \in Numbers
    BY LaneFacts
  <1>4. agent[m].at # "none"
    BY DEF TypeOK, Lanes, Active
  <1>5. \A i \in DOMAIN queue : queue[i] # n
    BY <1>2, <1>4
  <1>6. ASSUME NEW status \in Shown \ {"pending"}, Tell(m, n, status),
               agent'[m].queue = queue, agent'[m].up = agent[m].up,
               agent'[m].command # Idle =>
                 /\ agent'[m].command = n /\ agent'[m].at = status
                 /\ status # "idle"
        PROVE  Orderly(m)'
    <2>1. /\ entry'[m][n] = status
          /\ \A i \in Numbers : i # n => entry'[m][i] = entry[m][i]
      BY <1>1, <1>6, TellTyped
    <2>2. \A i \in DOMAIN queue :
            queue[i] \in DOMAIN sent'[m] /\ entry'[m][queue[i]] = "none"
      BY <1>2, <1>3, <1>5, <2>1 DEF Grows
    <2>3. n \in DOMAIN sent'[m]
      BY <1>2 DEF Grows
    <2> HIDE DEF queue, n
    <2> QED BY <1>2, <1>6, <2>1, <2>2, <2>3 DEF Orderly
  <1>7. CASE Progress(m)
    <2>1. PICK phase \in Follows(agent[m].at) :
            /\ Tell(m, n, phase)
            /\ agent' = [agent EXCEPT ![m].at = phase]
      BY <1>7 DEF Progress
    <2>2. phase \in Shown \ {"pending"} /\ phase # "idle"
      BY DEF Follows, Shown, Active
    <2>3. /\ agent'[m].queue = queue /\ agent'[m].up = agent[m].up
          /\ agent'[m].command = n /\ agent'[m].at = phase
      BY <2>1, LaneFacts DEF Lanes
    <2> HIDE DEF queue, n
    <2> QED BY <1>6, <2>1, <2>2, <2>3
  <1>8. CASE Finish(m)
    <2>1. PICK status \in Outcomes(m) : Tell(m, n, status)
      BY <1>8 DEF Finish
    <2>2. status \in Shown \ {"pending"}
      BY DEF Outcomes, Shown, Terminal
    <2>3. /\ agent'[m].queue = queue /\ agent'[m].up = agent[m].up
          /\ agent'[m].command = Idle
      BY <1>8, LaneFacts DEF Finish, Lanes
    <2> HIDE DEF queue, n
    <2> QED BY <1>6, <2>1, <2>2, <2>3
  <1> QED BY <1>7, <1>8

(* A crash empties the lane, and a restart enters only what no lane holds. *)
LEMMA DownOrderly ==
  ASSUME TypeOK, Paid, OnLane, Grows, NEW m \in Machines,
         Crash(m) \/ Restart(m)
  PROVE  Orderly(m)'
  <1>1. agent'[m].queue = <<>> /\ agent'[m].command = Idle
    <2>1. CASE Crash(m)
      BY <2>1, LaneFacts DEF Crash
    <2>2. CASE Restart(m)
      <3>1. agent[m].queue = <<>> /\ agent[m].command = Idle
        BY <2>2 DEF Restart, OnLane, Orderly
      <3> QED BY <2>2, <3>1, LaneFacts DEF Restart, Lanes
    <2> QED BY <2>1, <2>2
  <1>2. DOMAIN agent'[m].queue = {}
    BY <1>1
  <1> QED BY <1>1, <1>2 DEF Orderly

(* Every lane stays orderly.                                               *)
LEMMA LaneKept ==
  ASSUME TypeOK, Paid, OnLane, [Next]_vars
  PROVE  OnLane'
  <1> USE GrowsAlways
  <1>1. CASE agent' = agent /\ entry' = entry
    BY <1>1, Undisturbed DEF OnLane
  <1>2. ASSUME NEW m \in Machines,
               Fetch(m) \/ Works(m) \/ Crash(m) \/ Restart(m)
        PROVE  OnLane'
    <2>1. Orderly(m)'
      BY <1>2, FetchOrderly, BeginOrderly, WorkOrderly, DownOrderly
         DEF Works
    <2>2. ASSUME NEW k \in Machines, k # m
          PROVE  Orderly(k)'
      <3>1. agent'[k] = agent[k]
        BY <1>2, <2>2, LaneFacts
           DEF Fetch, Works, Begin, Progress, Finish, Crash, Restart
      <3>2. entry'[k] = entry[k]
        BY <1>2, <2>2 DEF Fetch, Works, Begin, Progress, Finish, Crash,
             Restart, Tell, TypeOK
      <3> QED BY <3>1, <3>2, Undisturbed
    <2> QED BY <2>1, <2>2 DEF OnLane
  <1>3. CASE \/ Creates \/ CreateDies
             \/ AskCancel \/ AskRetry \/ AskDelete \/ Routes \/ RouteDies
             \/ Triggers \/ Lose \/ Sweeps \/ SiteRests \/ Tick
             \/ UNCHANGED vars
    <2>1. entry' = entry /\ agent' = agent
      BY <1>3 DEF vars, dvars, avars, Creates, Routes, SetDocument,
           QueueInstalls, Started, CreateDies, AskCancel, AskRetry,
           AskDelete, Request, Unqueue, QueueCommands, WriteRoute, RouteDies,
           FanOut, Triggers, Deliver, Respond, Lose, Sweeps,
           SweepReads, SweepWrites, SiteRests, Tick
    <2> QED BY <2>1, <1>1
  <1> QED BY <1>2, <1>3 DEF Next

(* A report stays honest if only an install's reads completed.             *)
LEMMA TellHonest ==
  ASSUME TypeOK, Paid, OnLane, Honest, [Next]_vars,
         NEW m \in Machines, NEW n \in DOMAIN sent[m],
         NEW status \in Shown \ {"pending"}, Tell(m, n, status),
         status = "completed" => sent[m][n] = "install"
  PROVE  Honest'
  <1>1. /\ n \in Numbers
        /\ \A k \in Machines : Installed(k) => Installed(k)'
    BY Numbered, InstalledLasts
  <1>2. /\ entry'[m][n] = status
        /\ \A k \in Machines, i \in Numbers :
             k # m \/ i # n => entry'[k][i] = entry[k][i]
    BY <1>1, TellTyped
  <1>3. n \in DOMAIN sent'[m] /\ sent'[m][n] = sent[m][n]
    BY GrowsAlways DEF Grows
  <1>4. ASSUME NEW k \in Machines, NEW i \in Numbers,
               entry'[k][i] = "completed"
        PROVE  i \in DOMAIN sent'[k] /\ sent'[k][i] = "install"
    <2>1. CASE k = m /\ i = n
      BY <1>2, <1>3, <1>4, <2>1
    <2>2. CASE k # m \/ i # n
      BY <1>2, <1>4, <2>2, GrowsAlways DEF Honest, Grows
    <2> QED BY <2>1, <2>2
  <1>5. status = "completed" => Installed(m)'
    BY <1>2, <1>3 DEF Installed
  <1>6. /\ events' = events \cup
             {[machine |-> m, n |-> n, status |-> status]}
        /\ handling' = handling
    BY DEF Tell
  <1>7. ASSUME NEW e \in events', e.status = "completed"
        PROVE  Installed(e.machine)'
    <2>1. CASE e \in events
      <3>1. e.machine \in Machines
        BY <2>1 DEF TypeOK, Events
      <3> QED BY <1>1, <1>7, <2>1, <3>1 DEF Honest
    <2>2. CASE e = [machine |-> m, n |-> n, status |-> status]
      BY <1>5, <1>7, <2>2
    <2> QED BY <1>6, <2>1, <2>2
  <1>8. ASSUME NEW h \in handling', h.event.status = "completed"
        PROVE  Installed(h.event.machine)'
    <2>1. h \in handling /\ h.event.machine \in Machines
      BY <1>6 DEF TypeOK, Events
    <2> QED BY <1>1, <1>8, <2>1 DEF Honest
  <1> QED BY <1>4, <1>7, <1>8 DEF Honest

(* Entries, events and the trigger's runs stay honest.                     *)
LEMMA HonestKept ==
  ASSUME TypeOK, Paid, OnLane, Honest, [Next]_vars
  PROVE  Honest'
  <1>1. \A k \in Machines : Installed(k) => Installed(k)'
    BY InstalledLasts
  <1>2. ASSUME \A k \in Machines, i \in Numbers :
                 entry'[k][i] = "completed" => entry[k][i] = "completed",
               \A e \in events' :
                 \/ e \in events
                 \/ e.status # "completed",
               \A h \in handling' : h \in handling \/ h.event \in events
        PROVE  Honest'
    <2>1. \A k \in Machines, i \in Numbers :
            entry'[k][i] = "completed" =>
              i \in DOMAIN sent'[k] /\ sent'[k][i] = "install"
      BY <1>2, GrowsAlways DEF Honest, Grows
    <2>2. ASSUME NEW e \in events, e.status = "completed"
          PROVE  Installed(e.machine)'
      <3>1. e.machine \in Machines
        BY DEF TypeOK, Events
      <3> QED BY <1>1, <2>2, <3>1 DEF Honest
    <2>3. ASSUME NEW h \in handling, h.event.status = "completed"
          PROVE  Installed(h.event.machine)'
      <3>1. h.event.machine \in Machines
        BY DEF TypeOK, Events
      <3> QED BY <1>1, <2>3, <3>1 DEF Honest
    <2> QED BY <1>2, <2>1, <2>2, <2>3 DEF Honest
  <1>3. CASE entry' = entry /\ events' \subseteq events
    <2>1. CASE handling' \subseteq handling
      BY <1>2, <1>3, <2>1
    <2>2. CASE \E e \in events : Deliver(e)
      <3>1. \A h \in handling' : h \in handling \/ h.event \in events
        BY <2>2 DEF Deliver
      <3> QED BY <1>2, <1>3, <3>1
    <2>3. CASE ~(handling' \subseteq handling) /\ ~\E e \in events : Deliver(e)
      <3>1. handling' \subseteq handling
        <4>1. CASE Next
          BY <2>3, <4>1 DEF Next, dvars, avars, Creates, Routes, SetDocument,
             QueueInstalls, Started, CreateDies, AskCancel, AskRetry,
             AskDelete, Request, Unqueue, QueueCommands, WriteRoute,
             RouteDies, Fetch, Works, Begin, Progress, Finish, Tell, Crash,
             Restart, Triggers, Respond, Lose, Sweeps, SweepReads,
             SweepWrites, SiteRests, Tick
        <4>2. CASE UNCHANGED vars
          BY <4>2 DEF vars
        <4> QED BY <4>1, <4>2
      <3> QED BY <2>3, <3>1
    <2> QED BY <2>1, <2>2, <2>3
  <1>4. ASSUME NEW m \in Machines, Works(m)
        PROVE  Honest'
    <2>1. CASE Begin(m)
      <3>1. agent[m].queue \in Seq(Numbers) /\ agent[m].queue # <<>>
        BY <2>1, LaneFacts DEF Begin
      <3>2. /\ 1 \in DOMAIN agent[m].queue
            /\ Head(agent[m].queue) = agent[m].queue[1]
        BY <3>1, EmptySeq, LenProperties, HeadTailProperties
      <3>3. Head(agent[m].queue) \in DOMAIN sent[m]
        BY <3>2 DEF OnLane, Orderly
      <3>4. Tell(m, Head(agent[m].queue), "running")
        BY <2>1 DEF Begin
      <3>5. "running" \in Shown \ {"pending"} /\ "running" # "completed"
        BY DEF Shown
      <3> QED BY <3>3, <3>4, <3>5, TellHonest
    <2>2. CASE Progress(m)
      <3>1. agent[m].command \in DOMAIN sent[m]
        BY <2>2 DEF Progress, OnLane, Orderly
      <3>2. PICK phase \in Follows(agent[m].at) :
              Tell(m, agent[m].command, phase)
        BY <2>2 DEF Progress
      <3>3. phase \in Shown \ {"pending"} /\ phase # "completed"
        BY DEF Follows, Shown, Active
      <3> QED BY <3>1, <3>2, <3>3, TellHonest
    <2>3. CASE Finish(m)
      <3>1. agent[m].command \in DOMAIN sent[m]
        BY <2>3 DEF Finish, OnLane, Orderly
      <3>2. sent[m][agent[m].command] \in {"install", "cancel"}
        <4>1. sent[m] \in Seq({"install", "cancel"})
          BY DEF TypeOK
        <4> QED BY <3>1, <4>1, LenProperties
      <3>3. PICK status \in Outcomes(m) : Tell(m, agent[m].command, status)
        BY <2>3 DEF Finish
      <3>4. /\ status \in Shown \ {"pending"}
            /\ status = "completed" =>
                 sent[m][agent[m].command] = "install"
        BY <3>2 DEF Outcomes, Shown, Terminal
      <3> QED BY <3>1, <3>3, <3>4, TellHonest
    <2> QED BY <1>4, <2>1, <2>2, <2>3 DEF Works
  <1>5. ASSUME NEW m \in Machines, Restart(m)
        PROVE  Honest'
    <2>1. \A k \in Machines, i \in Numbers :
            entry'[k][i] = "completed" => entry[k][i] = "completed"
      BY <1>5 DEF Restart, TypeOK
    <2>2. /\ \A e \in events' : e \in events \/ e.status # "completed"
          /\ handling' = handling
      BY <1>5 DEF Restart
    <2> QED BY <1>2, <2>1, <2>2
  <1>6. CASE \/ Creates \/ CreateDies
             \/ AskCancel \/ AskRetry \/ AskDelete \/ Routes \/ RouteDies
             \/ \E m \in Machines : Fetch(m) \/ Crash(m)
             \/ Triggers \/ Lose \/ Sweeps \/ SiteRests \/ Tick
             \/ UNCHANGED vars
    <2>1. entry' = entry /\ events' \subseteq events
      BY <1>6 DEF vars, dvars, avars, Creates, Routes, SetDocument,
           QueueInstalls, Started, CreateDies, AskCancel, AskRetry,
           AskDelete, Request, Unqueue, QueueCommands, WriteRoute, RouteDies,
           FanOut, Fetch, Crash, Triggers, Deliver, Respond, Lose, Sweeps,
           SweepReads, SweepWrites, SiteRests, Tick
    <2> QED BY <2>1, <1>3
  <1> QED BY <1>4, <1>5, <1>6 DEF Next

(* What any of them writes is as truthful as what it was based on.         *)
LEMMA WritesTruthful ==
  ASSUME TypeOK, Honest, Copies
  PROVE  /\ route # NoRoute => Truthful(Written.targets)
         /\ \A h \in handling :
              Truthful([h.snap.targets EXCEPT ![h.event.machine] =
                          h.event.status])
         /\ doc # NoDoc => Truthful(TimedOut(doc.targets, age))
  <1>1. ASSUME route # NoRoute
        PROVE  Truthful(Written.targets)
    <2>1. \E status \in {"cancelled", "pending"} :
            Written.targets = Marked(status)
      BY DEF Written
    <2>2. \A status \in {"cancelled", "pending"} : \A m \in Machines :
            Marked(status)[m] = "completed" =>
              route.snap.targets[m] = "completed"
      BY DEF Marked
    <2> QED BY <1>1, <2>1, <2>2 DEF Copies, Truthful
  <1>2. ASSUME NEW h \in handling
        PROVE  Truthful([h.snap.targets EXCEPT ![h.event.machine] =
                           h.event.status])
    <2>1. h.snap.targets \in [Machines -> Shown]
      BY DEF TypeOK, Docs
    <2>2. Truthful(h.snap.targets)
      BY DEF Copies
    <2>3. h.event.status = "completed" => Installed(h.event.machine)
      BY DEF Honest
    <2> QED BY <2>1, <2>2, <2>3 DEF Truthful
  <1>3. ASSUME doc # NoDoc
        PROVE  Truthful(TimedOut(doc.targets, age))
    BY <1>3 DEF Copies, Truthful, TimedOut
  <1> QED BY <1>1, <1>2, <1>3

(* The document and its copies stay truthful.                              *)
LEMMA CopiesKept ==
  ASSUME TypeOK, Paid, OnLane, Honest, Copies, [Next]_vars
  PROVE  Copies'
  <1>1. ASSUME NEW targets, Truthful(targets)
        PROVE  \A m \in Machines : targets[m] = "completed" => Installed(m)'
    BY <1>1, InstalledLasts DEF Truthful
  <1> DEFINE Doc == doc' = doc \/ doc' = NoDoc \/ Truthful(doc'.targets)
             Route == \/ route' = route \/ route' = NoRoute
                      \/ route # NoRoute /\ route'.snap = route.snap
                      \/ doc # NoDoc /\ route'.snap = doc
             Handling == \A h \in handling' :
                           h \in handling \/ (doc # NoDoc /\ h.snap = doc)
             Sweep == \/ sweep' = sweep \/ sweep' = NoSweep
                      \/ Truthful(sweep'.targets)
  <1>2. ASSUME Doc, Route, Handling, Sweep
        PROVE  Copies'
    <2>1. doc' # NoDoc => Truthful(doc'.targets)
      BY <1>2 DEF Copies
    <2>2. route' # NoRoute => Truthful(route'.snap.targets)
      BY <1>2 DEF Copies
    <2>3. \A h \in handling' : Truthful(h.snap.targets)
      BY <1>2 DEF Copies
    <2>4. sweep' # NoSweep => Truthful(sweep'.targets)
      BY <1>2 DEF Copies
    <2>5. /\ doc' # NoDoc => Truthful(doc.targets)'
          /\ route' # NoRoute => Truthful(route.snap.targets)'
          /\ sweep' # NoSweep => Truthful(sweep.targets)'
          /\ \A h \in handling' : \A m \in Machines :
               h.snap.targets[m] = "completed" => Installed(m)'
      BY <1>1, <2>1, <2>2, <2>3, <2>4 DEF Truthful
    <2> QED BY <2>5 DEF Copies, Truthful
  <1>3. CASE SetDocument
    <2>1. \A m \in Machines : doc'.targets[m] = "pending"
      BY <1>3 DEF SetDocument
    <2>2. Truthful(doc'.targets)
      BY <2>1 DEF Truthful
    <2>3. Doc /\ Route /\ Handling /\ Sweep
      BY <1>3, <2>2 DEF SetDocument
    <2> QED BY <1>2, <2>3
  <1>4. CASE Started
    <2>1. doc # NoDoc => doc'.targets = doc.targets
      BY <1>4 DEF Started, TypeOK, Docs
    <2>2. doc' = NoDoc \/ Truthful(doc'.targets)
      BY <1>4, <2>1 DEF Started, Copies
    <2>3. Doc /\ Route /\ Handling /\ Sweep
      BY <1>4, <2>2 DEF Started
    <2> QED BY <1>2, <2>3
  <1>5. CASE AskCancel \/ AskRetry \/ AskDelete
    <2>1. /\ doc # NoDoc /\ route'.snap = doc
          /\ UNCHANGED <<doc, handling, sweep>>
      BY <1>5 DEF AskCancel, AskRetry, AskDelete, Request
    <2>2. Doc /\ Route /\ Handling /\ Sweep
      BY <2>1
    <2> QED BY <1>2, <2>2
  <1>6. CASE Unqueue \/ QueueCommands
    <2>1. /\ route # NoRoute /\ route'.snap = route.snap
          /\ UNCHANGED <<doc, handling, sweep>>
      BY <1>6 DEF Unqueue, QueueCommands, At, TypeOK, Requests
    <2>2. Doc /\ Route /\ Handling /\ Sweep
      BY <2>1
    <2> QED BY <1>2, <2>2
  <1>7. CASE WriteRoute
    <2>1. route # NoRoute /\ route' = NoRoute /\ UNCHANGED <<handling, sweep>>
      BY <1>7 DEF WriteRoute, At
    <2>2. doc' = NoDoc \/ doc' = Written
      BY <1>7 DEF WriteRoute, Update
    <2>3. Doc /\ Route /\ Handling /\ Sweep
      BY <2>1, <2>2, WritesTruthful
    <2> QED BY <1>2, <2>3
  <1>8. ASSUME NEW e \in events, Deliver(e)
        PROVE  Copies'
    <2>1. Doc /\ Route /\ Handling /\ Sweep
      BY <1>8 DEF Deliver, dvars
    <2> QED BY <1>2, <2>1
  <1>9. ASSUME NEW h \in handling, Respond(h)
        PROVE  Copies'
    <2>1. \/ doc' = NoDoc
          \/ doc'.targets = [h.snap.targets EXCEPT ![h.event.machine] =
                               h.event.status]
      BY <1>9 DEF Respond, Update
    <2>2. /\ handling' \subseteq handling
          /\ UNCHANGED <<route, sweep>>
      BY <1>9 DEF Respond, dvars
    <2>3. Doc /\ Route /\ Handling /\ Sweep
      BY <2>1, <2>2, WritesTruthful
    <2> QED BY <1>2, <2>3
  <1>10. CASE SweepReads
    <2>1. /\ doc # NoDoc /\ sweep'.targets = TimedOut(doc.targets, age)
          /\ UNCHANGED <<doc, route, handling>>
      BY <1>10 DEF SweepReads, Ended, dvars
    <2>2. Doc /\ Route /\ Handling /\ Sweep
      BY <2>1, WritesTruthful
    <2> QED BY <1>2, <2>2
  <1>11. CASE SweepWrites
    <2>1. /\ doc' = NoDoc \/ doc'.targets = sweep.targets
          /\ sweep # NoSweep /\ sweep' = NoSweep
          /\ UNCHANGED <<route, handling>>
      BY <1>11 DEF SweepWrites, Update, dvars
    <2>2. Doc /\ Route /\ Handling /\ Sweep
      BY <2>1 DEF Copies
    <2> QED BY <1>2, <2>2
  <1>12. CASE \/ QueueInstalls \/ CreateDies \/ RouteDies \/ Lose
              \/ \E m \in Machines :
                   Fetch(m) \/ Works(m) \/ Crash(m) \/ Restart(m)
              \/ SiteRests \/ Tick \/ UNCHANGED vars
    <2>1. /\ doc' = doc /\ sweep' = sweep
          /\ route' = route \/ route' = NoRoute
          /\ handling' \subseteq handling
      BY <1>12 DEF vars, dvars, QueueInstalls, CreateDies, RouteDies, Lose,
           Fetch, Works, Begin, Progress, Finish, Tell, Crash, Restart,
           SiteRests, Tick
    <2>2. Doc /\ Route /\ Handling /\ Sweep
      BY <2>1
    <2> QED BY <1>2, <2>2
  <1> QED BY <1>3, <1>4, <1>5, <1>6, <1>7, <1>8, <1>9, <1>10, <1>11, <1>12
          DEF Next, Creates, Routes, Triggers, Sweeps

(* A request on its way is still about what it was asked for.              *)
LEMMA AskedKept ==
  ASSUME TypeOK, Asked, [Next]_vars
  PROVE  Asked'
  <1>1. CASE AskCancel
    <2> DEFINE cancellable == {m \in Machines : doc.targets[m] \in PreFlight}
    <2>1. /\ cancellable # {}
          /\ route' = [op |-> "cancel", at |-> "unqueue", snap |-> doc,
                       asked |-> cancellable]
      BY <1>1 DEF AskCancel, Request
    <2> QED BY <2>1 DEF Asked
  <1>2. CASE AskRetry
    <2>1. PICK failed \in SUBSET {m \in Machines : doc.targets[m] = "failed"} :
            failed # {} /\ Request("retry", "command", failed)
      BY <1>2 DEF AskRetry
    <2> QED BY <2>1 DEF Asked, Request
  <1>3. CASE AskDelete
    BY <1>3 DEF AskDelete, Request, Asked
  <1>4. CASE Unqueue \/ QueueCommands
    <2>1. /\ route # NoRoute /\ route \in Requests
          /\ \/ route' = [route EXCEPT !.at = "command"]
             \/ route' = [route EXCEPT !.at = "write"]
      BY <1>4 DEF Unqueue, QueueCommands, At, TypeOK
    <2>2. /\ route'.op = route.op /\ route'.asked = route.asked
          /\ route'.snap = route.snap
      BY <2>1 DEF Requests
    <2> QED BY <2>1, <2>2 DEF Asked
  <1>5. CASE \/ Creates \/ CreateDies \/ WriteRoute \/ RouteDies
             \/ \E m \in Machines :
                  Fetch(m) \/ Works(m) \/ Crash(m) \/ Restart(m)
             \/ Triggers \/ Lose \/ Sweeps \/ SiteRests \/ Tick
             \/ UNCHANGED vars
    <2>1. route' = route \/ route' = NoRoute
      BY <1>5 DEF vars, dvars, Creates, SetDocument, QueueInstalls, Started,
           CreateDies, WriteRoute, RouteDies, Fetch, Works, Begin, Progress,
           Finish, Tell, Crash, Restart, Triggers, Deliver, Respond, Lose,
           Sweeps, SweepReads, SweepWrites, SiteRests, Tick
    <2> QED BY <2>1 DEF Asked
  <1> QED BY <1>1, <1>2, <1>3, <1>4, <1>5 DEF Next, Routes

(* As long as no write is based on a document that has changed, the status *)
(* that is written is that of the targets written with it.                 *)
LEMMA StatusKept ==
  ASSUME TypeOK, Asked, StatusFollowsTargets, [Next]_vars
  PROVE  StatusFollowsTargets'
  <1>1. CASE SetDocument
    BY <1>1, DeploymentAssumption
       DEF SetDocument, StatusFollowsTargets, AllTerminal, Over, Terminal
  <1>2. CASE Started
    <2>1. torn' = (torn \/ (doc # NoDoc /\ AllTerminal(doc.targets)))
      BY <1>2 DEF Started
    <2>2. doc # NoDoc =>
            doc'.status = "in_progress" /\ doc'.targets = doc.targets
      BY <1>2 DEF Started, TypeOK, Docs
    <2>3. doc = NoDoc => doc' = NoDoc
      BY <1>2 DEF Started
    <2> QED BY <2>1, <2>2, <2>3
            DEF StatusFollowsTargets, AllTerminal, Over, Terminal
  <1>3. CASE WriteRoute
    <2> SUFFICES ASSUME doc' # NoDoc, ~torn'
                 PROVE  doc'.status \in Over <=> AllTerminal(doc'.targets)
      BY DEF StatusFollowsTargets, AllTerminal
    <2>1. /\ route # NoRoute /\ doc # NoDoc /\ ~torn /\ doc = route.snap
          /\ doc' = Written /\ route.op # "delete"
      BY <1>3 DEF WriteRoute, At, Update
    <2>2. route.asked # {} /\ route.asked \subseteq Machines
      BY <2>1 DEF Asked, TypeOK, Requests
    <2>3. CASE route.op = "cancel"
      <3>1. PICK m \in route.asked : doc.targets[m] \in PreFlight
        BY <2>1, <2>2, <2>3 DEF Asked
      <3>2. ~AllTerminal(doc.targets)
        BY <2>2, <3>1 DEF AllTerminal, PreFlight, Terminal
      <3>3. doc.status \notin Over
        BY <2>1, <3>2 DEF StatusFollowsTargets
      <3>4. /\ Written.targets = Marked("cancelled")
            /\ Written.status = CancelledStatus(Marked("cancelled"))
        BY <2>3 DEF Written
      <3>5. \A targets : CancelledStatus(targets) \in Over
                          <=> AllTerminal(targets)
        BY <3>3 DEF CancelledStatus, AllTerminal, Over, Terminal
      <3> QED BY <2>1, <3>4, <3>5
    <2>4. CASE route.op # "cancel"
      <3>1. Written.targets = Marked("pending")
            /\ Written.status = "in_progress"
        BY <2>4 DEF Written
      <3>2. ~AllTerminal(Marked("pending"))
        BY <2>2 DEF AllTerminal, Marked, Terminal
      <3> QED BY <2>1, <3>1, <3>2 DEF Over, Terminal
    <2> QED BY <2>3, <2>4
  <1>4. ASSUME NEW h \in handling, Respond(h)
        PROVE  StatusFollowsTargets'
    <2> DEFINE targets == [h.snap.targets EXCEPT ![h.event.machine] =
                             h.event.status]
               calculated == calculateDeploymentStatus(targets)
    <2> SUFFICES ASSUME doc' # NoDoc, ~torn'
                 PROVE  doc'.status \in Over <=> AllTerminal(doc'.targets)
      BY DEF StatusFollowsTargets, AllTerminal
    <2>1. Update(h.snap, [targets |-> targets,
                          status |-> IF calculated # h.snap.status
                                     THEN calculated ELSE doc.status])
      BY <1>4 DEF Respond
    <2>2. targets \in [Machines -> Shown]
      BY DEF TypeOK, Events, Docs
    <2>3. calculated \in Over <=> AllTerminal(targets)
      BY <2>2, Calculated
    <2> HIDE DEF targets, calculated
    <2>4. doc = h.snap
      BY <2>1 DEF Update
    <2>5. doc'.targets = targets /\ doc'.status = calculated
      BY <2>1, <2>4 DEF Update
    <2> QED BY <2>3, <2>5
  <1>5. CASE SweepWrites
    <2>1. sweep.targets \in [Machines -> Shown]
      BY <1>5 DEF SweepWrites, TypeOK
    <2>2. \/ doc' = NoDoc
          \/ /\ doc'.targets = sweep.targets
             /\ doc'.status = calculateDeploymentStatus(sweep.targets)
      BY <1>5 DEF SweepWrites, Update
    <2> QED BY <2>1, <2>2, Calculated DEF StatusFollowsTargets, AllTerminal
  <1>6. CASE \/ QueueInstalls \/ CreateDies
             \/ AskCancel \/ AskRetry \/ AskDelete
             \/ Unqueue \/ QueueCommands \/ RouteDies
             \/ \E m \in Machines :
                  Fetch(m) \/ Works(m) \/ Crash(m) \/ Restart(m)
             \/ (\E e \in events : Deliver(e)) \/ Lose
             \/ SweepReads \/ SiteRests \/ Tick \/ UNCHANGED vars
    <2>1. doc' = doc /\ torn' = torn
      BY <1>6 DEF vars, dvars, QueueInstalls, CreateDies, AskCancel,
           AskRetry, AskDelete, Request, Unqueue, QueueCommands, RouteDies,
           Fetch, Works, Begin, Progress, Finish, Tell, Crash, Restart,
           Deliver, Lose, SweepReads, SiteRests, Tick
    <2> QED BY <2>1 DEF StatusFollowsTargets, AllTerminal
  <1> QED BY <1>1, <1>2, <1>3, <1>4, <1>5, <1>6
          DEF Next, Creates, Routes, Triggers, Sweeps

----------------------------------------------------------------------------
(* The invariant holds at the start and survives every step.               *)
LEMMA Initially == Init => IInv
  <1> SUFFICES ASSUME Init PROVE IInv
    OBVIOUS
  <1>1. <<>> \in Seq({"install", "cancel"}) /\ <<>> \in Seq(Numbers)
        /\ Len(<<>>) = 0 /\ DOMAIN <<>> = {}
    BY EmptySeq, LenProperties
  <1>2. /\ spent \in 0 .. MaxInterference /\ age \in 0 .. MaxAge
        /\ spent \in Nat
    BY DeploymentAssumption DEF Init
  <1>3. agent \in [Machines -> Lanes]
    BY <1>1 DEF Init, Lanes
  <1>4. TypeOK
    BY <1>1, <1>2, <1>3 DEF Init, TypeOK
  <1>5. Paid
    BY <1>1 DEF Init, Paid, RouteOwing
  <1>6. OnLane
    BY <1>1 DEF Init, OnLane, Orderly
  <1>7. Honest
    BY DEF Init, Honest
  <1>8. Copies /\ Asked /\ StatusFollowsTargets
    BY DEF Init, Copies, Asked, StatusFollowsTargets
  <1> QED BY <1>4, <1>5, <1>6, <1>7, <1>8 DEF IInv

(* The inductive invariant: every reachable state has orderly lanes,       *)
(* honest entries, truthful copies and commands that were paid for.        *)
THEOREM Invariance == Spec => []IInv
  <1>1. IInv /\ [Next]_vars => IInv'
    BY TypeKept, PaidKept, LaneKept, HonestKept, CopiesKept, AskedKept,
       StatusKept DEF IInv
  <1> QED BY <1>1, Initially, PTL DEF Spec

(* Documents, commands, events and snapshots are what the code writes, for *)
(* any fleet and any interference.                                         *)
THEOREM TypeCorrect == Spec => []TypeOK
  <1>1. IInv => TypeOK
    BY DEF IInv
  <1> QED BY <1>1, Invariance, PTL

(* cancelDeployment.server.ts, deploymentStatus.ts, deploymentSweeper.ts:  *)
(* whatever they overwrite, a target shown as completed is installed.      *)
THEOREM ShownIsInstalled == Spec => []CompletedIsInstalled
  <1>1. IInv => CompletedIsInstalled
    BY DEF IInv, Copies, Truthful, CompletedIsInstalled
  <1> QED BY <1>1, Invariance, PTL

(* deploymentUtils.ts: the status is final exactly when every target is,   *)
(* as long as no write is based on a document that has changed.            *)
THEOREM StatusInStep == Spec => []StatusFollowsTargets
  <1>1. IInv => StatusFollowsTargets
    BY DEF IInv
  <1> QED BY <1>1, Invariance, PTL

----------------------------------------------------------------------------
(* Which way a target goes.                                                *)

(* What is about to be written takes no target back to work: the trigger   *)
(* has let the event through, and the sweeper only fails what is not over; *)
(* the document is set once.                                               *)
Forward ==
  /\ create = "start" => doc = NoDoc
  /\ \A h \in handling :
       h.snap.targets[h.event.machine] \in Terminal
         => h.event.status \in Terminal
  /\ sweep # NoSweep =>
       \A m \in Machines :
         sweep.snap.targets[m] \in Terminal => sweep.targets[m] \in Terminal

(* Every step keeps Forward.                                               *)
LEMMA ForwardKept == IInv /\ Forward /\ [Next]_vars => Forward'
  <1> SUFFICES ASSUME IInv, Forward, [Next]_vars PROVE Forward'
    OBVIOUS
  <1>1. create' = "start" => doc' = NoDoc
    <2>1. doc = NoDoc =>
            doc' = NoDoc \/ SetDocument
      BY DEF Next, vars, dvars, Creates, QueueInstalls, Started, CreateDies,
         AskCancel, AskRetry, AskDelete, Request, Routes, Unqueue,
         QueueCommands, WriteRoute, RouteDies, Fetch, Works, Begin, Progress,
         Finish, Tell, Crash, Restart, Triggers, Deliver, Respond, Lose,
         Sweeps, SweepReads, SweepWrites, SiteRests, Tick, Update
    <2>2. create' = "start" => create = "start"
      BY DEF Next, vars, dvars, Creates, SetDocument, QueueInstalls, Started,
         CreateDies, AskCancel, AskRetry, AskDelete, Request, Routes, Unqueue,
         QueueCommands, WriteRoute, RouteDies, Fetch, Works, Begin, Progress,
         Finish, Tell, Crash, Restart, Triggers, Deliver, Respond, Lose,
         Sweeps, SweepReads, SweepWrites, SiteRests, Tick
    <2> QED
      BY <2>1, <2>2 DEF Forward, SetDocument
  <1>2. \A h \in handling' : \/ h \in handling
                             \/ h.snap.targets[h.event.machine] \in Terminal
                                  => h.event.status \in Terminal
    <2>1. CASE \E e \in events : Deliver(e)
      BY <2>1 DEF Deliver, Ignored
    <2>2. CASE ~\E e \in events : Deliver(e)
      <3>1. handling' \subseteq handling
        BY <2>2 DEF Next, vars, dvars, Creates, SetDocument, QueueInstalls,
           Started, CreateDies, AskCancel, AskRetry, AskDelete, Request,
           Routes, Unqueue, QueueCommands, WriteRoute, RouteDies, Fetch,
           Works, Begin, Progress, Finish, Tell, Crash, Restart, Triggers,
           Respond, Lose, Sweeps, SweepReads, SweepWrites, SiteRests, Tick
      <3> QED
        BY <3>1
    <2> QED
      BY <2>1, <2>2
  <1>3. \/ sweep' = sweep \/ sweep' = NoSweep
        \/ sweep' = [snap |-> doc, targets |-> TimedOut(doc.targets, age)]
    BY DEF Next, vars, dvars, Creates, SetDocument, QueueInstalls, Started,
       CreateDies, AskCancel, AskRetry, AskDelete, Request, Routes, Unqueue,
       QueueCommands, WriteRoute, RouteDies, Fetch, Works, Begin, Progress,
       Finish, Tell, Crash, Restart, Triggers, Deliver, Respond, Lose,
       Sweeps, SweepReads, SweepWrites, SiteRests, Tick
  <1>4. sweep' # NoSweep =>
          \A m \in Machines :
            sweep'.snap.targets[m] \in Terminal
              => sweep'.targets[m] \in Terminal
    BY <1>3 DEF Forward, TimedOut, Terminal
  <1> QED
    BY <1>1, <1>2, <1>4 DEF Forward

(* A write over the document it was based on takes back what is retried.   *)
LEMMA RegressesBy ==
  ASSUME IInv, Forward, [Next]_vars, doc # NoDoc, doc' # NoDoc, ~torn',
         NEW m \in Machines, GoesBack(m)
  PROVE  route # NoRoute /\ route.op = "retry" /\ m \in route.asked
  <1>1. CASE WriteRoute
    <2>1. /\ route # NoRoute /\ doc = route.snap
          /\ doc' = Written /\ route.op # "delete"
      BY <1>1 DEF WriteRoute, At, Update
    <2>2. route.op \in {"cancel", "retry"}
      BY <2>1 DEF IInv, TypeOK, Requests
    <2>3. doc'.targets[m] = doc.targets[m] \/ m \in route.asked
      BY <2>1 DEF Written, Marked
    <2>4. route.op = "cancel" =>
            doc'.targets[m] \in {doc.targets[m], "cancelled"}
      BY <2>1 DEF Written, Marked
    <2> QED
      BY <2>1, <2>2, <2>3, <2>4 DEF GoesBack, Terminal
  <1>2. ASSUME NEW h \in handling, Respond(h)
        PROVE  FALSE
    <2>1. /\ doc = h.snap
          /\ doc'.targets = [h.snap.targets EXCEPT ![h.event.machine] =
                               h.event.status]
      BY <1>2 DEF Respond, Update
    <2>2. h.snap.targets \in [Machines -> Shown]
      BY DEF IInv, TypeOK, Docs
    <2> QED
      BY <2>1, <2>2 DEF Forward, GoesBack
  <1>3. CASE SweepWrites
    BY <1>3 DEF SweepWrites, Update, Forward, GoesBack
  <1>4. CASE Started
    <2>1. doc'.targets = doc.targets
      BY <1>4 DEF Started, IInv, TypeOK, Docs
    <2> QED
      BY <2>1 DEF GoesBack
  <1>5. ~SetDocument
    BY DEF SetDocument, Forward
  <1>6. CASE doc' = doc
    BY <1>6 DEF GoesBack
  <1>7. CASE \/ QueueInstalls \/ CreateDies
             \/ AskCancel \/ AskRetry \/ AskDelete
             \/ Unqueue \/ QueueCommands \/ RouteDies
             \/ \E k \in Machines :
                  Fetch(k) \/ Works(k) \/ Crash(k) \/ Restart(k)
             \/ (\E e \in events : Deliver(e)) \/ Lose
             \/ SweepReads \/ SiteRests \/ Tick \/ UNCHANGED vars
    BY <1>6, <1>7 DEF vars, dvars, QueueInstalls, CreateDies, AskCancel,
       AskRetry, AskDelete, Request, Unqueue, QueueCommands, RouteDies,
       Fetch, Works, Begin, Progress, Finish, Tell, Crash, Restart, Deliver,
       Lose, SweepReads, SiteRests, Tick
  <1> QED
    BY <1>1, <1>2, <1>3, <1>4, <1>5, <1>7
       DEF Next, Creates, Routes, Triggers, Sweeps

(* deploymentStatus.ts: "A terminal target must not regress to an          *)
(* intermediate state": it does so only by the retry that asked for it, or *)
(* by a write over another one.                                            *)
THEOREM OnlyRetriesRegress == Spec => RegressesOnlyByRetry
  <1>1. Init => Forward
    BY DEF Init, Forward
  <1>2. IInv /\ Forward /\ [Next]_vars
          => [doc # NoDoc /\ doc' # NoDoc =>
                \A m \in Machines : GoesBack(m) =>
                  \/ torn'
                  \/ route # NoRoute /\ route.op = "retry" /\ m \in route.asked
             ]_vars
    BY RegressesBy
  <1> QED
    BY <1>1, <1>2, Invariance, ForwardKept, PTL
       DEF Spec, RegressesOnlyByRetry
=============================================================================

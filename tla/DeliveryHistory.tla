-------------------------- MODULE DeliveryHistory --------------------------
(***************************************************************************)
(* CommandDelivery observed: four history variables about the process that *)
(* is running, which no action reads.                                      *)
(*   dispatched : the commands it has dispatched                           *)
(*   repeated   : those it has dispatched again                            *)
(*   slipped    : those that seeding, cleaning or a stopped poller has made*)
(*                it unlearn, or that a stopped poller has handled         *)
(*   recorded   : those with an entry in completed since before it started *)
(***************************************************************************)
EXTENDS MCCommandDelivery

VARIABLES dispatched, repeated, slipped, recorded

observed == <<dispatched, repeated, slipped, recorded>>

(* Only Consider adds to seen_commands as it handles an id.                *)
Dispatched == IF poll' # poll THEN seen' \ seen ELSE {}

Unlearnt == IF poll'["live"] = poll["live"] THEN seen \ seen' ELSE {}

HandledLate == poll["stopped"].todo \ poll'["stopped"].todo

Observe ==
  IF Restart
  THEN /\ dispatched' = {} /\ repeated' = {} /\ slipped' = {}
       /\ recorded' = Recorded
  ELSE /\ dispatched' = dispatched \cup Dispatched
       /\ repeated' = repeated \cup (dispatched \cap Dispatched)
       /\ slipped' = slipped \cup Unlearnt \cup HandledLate
       /\ recorded' = recorded \cap Recorded'

HistInit ==
  /\ Init
  /\ dispatched = {} /\ repeated = {} /\ slipped = {} /\ recorded = {}

HistSpec == HistInit /\ [][Next /\ Observe]_<<vars, observed>>

(* A process dispatches a command once, whatever is queued, answered or    *)
(* rejected meanwhile and however often the poller forgets what is gone:   *)
(* the ids it dispatches again are among those that the seeding or the     *)
(* cleaning has made it unlearn or that a stopped poller has handled.      *)
OncePerProcess == repeated \subseteq slipped

(* _seed_seen_commands: "Stops re-execution after a crash between writing  *)
(* "completed" and deleting "pending".  Entries still status:'running'     *)
(* died with the service, so they are marked failed [...] the id is        *)
(* already seeded so it can never re-run."  Then no command with an entry  *)
(* at the start of a process begins to run in it.                          *)
SeededNeverReruns ==
  [][\A j \in jobs' \ jobs :
       j.stage = "running" => j.id \notin recorded]_<<vars, observed>>
=============================================================================

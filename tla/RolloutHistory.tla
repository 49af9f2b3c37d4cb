--------------------------- MODULE RolloutHistory ---------------------------
(***************************************************************************)
(* RoostRollout observed: two history variables that no action reads.      *)
(*   stale[v]  : machines whose report on v is older than v's rollout      *)
(*   served[v] : machines that had a command for v since the head last     *)
(*               moved to v                                                *)
(***************************************************************************)
EXTENDS MCRoostRollout

VARIABLES stale, served

WaveStarts(v) ==
  /\ rollout'[v].stage = "canary"
  /\ rollout[v].stage # "canary"

Heard(m, v) == running'[m] # running[m] /\ <<m, v>> \in targetEvents'

Has(m, v) == \E c \in pending[m] : c.version = v

Observe ==
  /\ stale' = [v \in Versions |->
       IF WaveStarts(v) THEN {m \in Machines : target[m].version = v}
       ELSE {m \in stale[v] : target'[m].version = v /\ ~Heard(m, v)}]
  /\ served' = [v \in Versions |->
       IF head' = v /\ head # v THEN {}
       ELSE served[v] \cup {m \in Machines : Has(m, v)'}]

HistInit ==
  /\ Init
  /\ stale = [v \in Versions |-> {}]
  /\ served = [v \in Versions |-> {}]

HistSpec ==
  HistInit /\ [][Next /\ Observe]_<<vars, stale, served>> /\ Fairness

(* versions.mdx: "`aborted` is terminal, so deploying that version again   *)
(* starts a fresh rollout."  A fresh rollout is judged by what its own     *)
(* canary machines report: an abort counts failures reported since it      *)
(* started, and nobody is promoted on a success that is older than it.     *)
FreshEvidence ==
  [][\A v \in Versions :
       rollout[v].stage = "canary" /\ ~(v \in forced') =>
         /\ rollout'[v].stage = "aborted" =>
              4 * Cardinality({m \in rollout[v].canary \ stale[v] :
                                 StatusFor(v)[m] = "failed"})
                > Cardinality(rollout[v].canary)
         /\ rollout'[v].stage = "fleet" =>
              rollout[v].canary \cap stale[v] = {}]_<<vars, stale, served>>

(* architecture.mdx: "Every `currentVersionId` pointer flip goes through a *)
(* staged rollout".  When the head has moved to v and stays there, some    *)
(* target gets a command to sync v.                                        *)
FlipFansOut ==
  \A v \in Versions : head = v ~> head # v \/ served[v] # {}
=============================================================================

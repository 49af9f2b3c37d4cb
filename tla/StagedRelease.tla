--------------------------- MODULE StagedRelease ---------------------------
(***************************************************************************)
(* What a staged rollout promises a fleet.  A version goes first to a few  *)
(* machines, the wave; it goes to the rest once machines of a wave have    *)
(* really installed it; and a rollout is called complete only when most of *)
(* the rest have installed it too.  An operator may force a version past   *)
(* all this, and may withdraw or restart a rollout at any time.            *)
(***************************************************************************)
EXTENDS Integers, FiniteSets

CONSTANTS Machines, Versions

VARIABLES stage,    \* "none", "canary", "fleet" or "complete"
          wave,     \* the canary machines of the rollout under way
          rest,     \* and the machines that follow them
          tried,    \* machines that were in some canary wave of a version
          reached,  \* machines that were sent a version
          has,      \* machines that have installed it
          exempt    \* versions that were forced

vars == <<stage, wave, rest, tried, reached, has, exempt>>

Init ==
  /\ stage = [v \in Versions |-> "none"]
  /\ wave = [v \in Versions |-> {}]
  /\ rest = [v \in Versions |-> {}]
  /\ tried = [v \in Versions |-> {}]
  /\ reached = [v \in Versions |-> {}]
  /\ has = [v \in Versions |-> {}]
  /\ exempt = {}

(* At least a/b of the machines of S have v.                               *)
Most(a, b, S, v) ==
  b * Cardinality(S \cap has[v]) >= a * Cardinality(S)

Earned(v) == Most(9, 10, wave[v], v) /\ wave[v] \cap has[v] # {}

Waves(v, w, r) ==
  /\ wave' = [wave EXCEPT ![v] = w]
  /\ rest' = [rest EXCEPT ![v] = r]

(* A first wave starts, whatever there was before.                         *)
Open(v, w, r) ==
  /\ w \cap r = {}
  /\ stage' = [stage EXCEPT ![v] = "canary"]
  /\ Waves(v, w, r)
  /\ tried' = [tried EXCEPT ![v] = @ \cup w]
  /\ reached' = [reached EXCEPT ![v] = @ \cup w]
  /\ UNCHANGED <<has, exempt>>

Promote(v) ==
  /\ stage[v] = "canary"
  /\ Earned(v)
  /\ stage' = [stage EXCEPT ![v] = "fleet"]
  /\ UNCHANGED <<wave, rest, tried, reached, has, exempt>>

Finish(v) ==
  /\ \/ stage[v] = "canary" /\ Earned(v) /\ rest[v] = {}
     \/ stage[v] = "fleet" /\ Most(3, 4, rest[v], v)
  /\ stage' = [stage EXCEPT ![v] = "complete"]
  /\ Waves(v, {}, {})
  /\ UNCHANGED <<tried, reached, has, exempt>>

(* Aborted, or replaced by a rollout that waits for its time.              *)
Withdraw(v) ==
  /\ stage' = [stage EXCEPT ![v] = "none"]
  /\ Waves(v, {}, {})
  /\ UNCHANGED <<tried, reached, has, exempt>>

(* Rolled back to or resynced: everybody is to have v at once.             *)
Force(v, S) ==
  /\ stage' \in {[stage EXCEPT ![v] = "none"],
                 [stage EXCEPT ![v] = "complete"]}
  /\ Waves(v, {}, {})
  /\ reached' = [reached EXCEPT ![v] = @ \cup S]
  /\ exempt' = exempt \cup {v}
  /\ UNCHANGED <<tried, has>>

Send(v, S) ==
  /\ v \in exempt \/ tried[v] \cap has[v] # {}
  /\ reached' = [reached EXCEPT ![v] = @ \cup S]
  /\ UNCHANGED <<stage, wave, rest, tried, has, exempt>>

Install(v, m) ==
  /\ m \in reached[v]
  /\ has' = [has EXCEPT ![v] = @ \cup {m}]
  /\ UNCHANGED <<stage, wave, rest, tried, reached, exempt>>

Next == \E v \in Versions :
  \/ \E w, r \in SUBSET Machines : Open(v, w, r)
  \/ Promote(v) \/ Finish(v) \/ Withdraw(v)
  \/ \E S \in SUBSET Machines : Force(v, S) \/ Send(v, S)
  \/ \E m \in Machines : Install(v, m)

Spec == Init /\ [][Next]_vars
=============================================================================

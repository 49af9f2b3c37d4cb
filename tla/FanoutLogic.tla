----------------------------- MODULE FanoutLogic -----------------------------
(***************************************************************************)
(* The decisions of functions/src/lib/fanoutLogic.ts: who is in the canary *)
(* wave of a rollout, how a wave is doing, and which stage follows.        *)
(*                                                                         *)
(* The thresholds that matter to the state machine keep their values in    *)
(* the code (promote at 90% success, abort above 25% failure), written     *)
(* without division.  The canary size is a parameter: the code takes 10%   *)
(* of the fleet, at least 1 and at most 50 machines, and a model with      *)
(* three machines scales the percentage so that a wave can have two.       *)
(***************************************************************************)
EXTENDS Integers, FiniteSets

CONSTANTS CanaryPercent,  \* CANARY_FRACTION * 100
          CanaryMin,      \* CANARY_MIN
          CanaryMax       \* CANARY_MAX

ASSUME CanaryAssumption ==
  /\ CanaryPercent \in 0..100
  /\ CanaryMin \in Nat \ {0}
  /\ CanaryMax \in Nat
  /\ CanaryMin <= CanaryMax

(* A rollout document always has one of these, except for a document that  *)
(* a merge write re-created without one: "unset".                          *)
Stages == {"scheduled", "canary", "fleet", "complete", "aborted", "unset"}

Terminal(stage) == stage \in {"complete", "aborted"}

(* What a wave evaluation tells apart: succeeded, failed (which counts     *)
(* cancelled as well), and everything still in flight.                     *)
Statuses == {"succeeded", "failed", "pending"}

----------------------------------------------------------------------------
(* Wave selection.                                                         *)

CanarySizeFor(n) ==
  LET ceiling == (n * CanaryPercent + 99) \div 100
      capped  == IF ceiling < CanaryMax THEN ceiling ELSE CanaryMax
      bounded == IF capped > CanaryMin THEN capped ELSE CanaryMin
  IN  IF bounded < n THEN bounded ELSE n

(* The machines of `ms` that fewer than CanarySizeFor of them precede in   *)
(* the order `rank`: the slice(0, canarySize) of the sorted list.          *)
CanaryOf(ms, rank) ==
  {m \in ms : Cardinality({x \in ms : rank[x] < rank[m]})
                < CanarySizeFor(Cardinality(ms))}

----------------------------------------------------------------------------
(* Wave evaluation: `status` maps each machine of the wave to its status.  *)

EvaluateWave(wave, status) ==
  [total     |-> Cardinality(wave),
   succeeded |-> Cardinality({m \in wave : status[m] = "succeeded"}),
   failed    |-> Cardinality({m \in wave : status[m] = "failed"})]

Settled(e) == e.succeeded + e.failed = e.total

(* Mutant: only a majority of failures aborts.                             *)
MutAbortMajority(e) == e.total > 0 /\ 2 * e.failed > e.total

CanaryShouldAbort(e) == e.total > 0 /\ 4 * e.failed > e.total

(* Mutant: 0/0 counts as a success rate of 1, and nobody waits.            *)
MutPromoteUnsettled(e) ==
  /\ e.total > 0
  /\ 10 * e.succeeded >= 9 * (e.succeeded + e.failed)

CanaryShouldPromote(e) ==
  /\ Settled(e)
  /\ e.total > 0
  /\ 10 * e.succeeded >= 9 * (e.succeeded + e.failed)

(* The stage that follows, or the current one when nothing changes.        *)
NextStage(stage, e) ==
  IF Terminal(stage) THEN stage
  ELSE IF CanaryShouldAbort(e) THEN "aborted"
  ELSE IF stage = "canary" /\ CanaryShouldPromote(e) THEN "fleet"
  ELSE IF stage = "fleet" /\ Settled(e) THEN "complete"
  ELSE stage
=============================================================================

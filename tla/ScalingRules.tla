----------------------------- MODULE ScalingRules -----------------------------
(***************************************************************************)
(* The arithmetic of one scaling decision: how many instances a set of     *)
(* Buildkite metrics asks for (ScalingCalculator), how Scaler.Run turns    *)
(* that into a target and a direction, and how scaleIn and scaleOut apply  *)
(* their factor and their cooldown.                                        *)
(*                                                                         *)
(* A definition whose name adds a mistake to the name of the one after it  *)
(* (PerInstanceRoundedDown) is a slip the checks are shown to notice; it   *)
(* is used nowhere else.                                                   *)
(*                                                                         *)
(* Everything here is a constant operator of                               *)
(*   p    the configuration (Params), read once when the scaler is built   *)
(*   m    the queue's metrics (AgentMetrics)                               *)
(*   a    the Auto Scaling group as one Describe call saw it               *)
(*                                                                         *)
(* The code's floats are exact fractions over Unit: the availability       *)
(* threshold k stands for k/Unit, and so do the two scaling factors.       *)
(* Negative results are not modelled: job, agent and instance counts are   *)
(* natural numbers, so the code's "< 0" guards on them never fire.         *)
(***************************************************************************)
EXTENDS Integers

CONSTANT Unit          \* the denominator of every fraction

ASSUME UnitAssumption == Unit \in Nat \ {0}

-----------------------------------------------------------------------------
(* Types.                                                                  *)

Params ==
  [ agentsPerInstance : Int,       \* <= 0 means one agent per instance
    includeWaiting    : BOOLEAN,
    threshold         : 0..Unit,   \* AVAILABILITY_THRESHOLD, 0 disables it
    instanceBuffer    : Nat,
    maxInstanceCap    : Nat,       \* 0 means no cap
    elastic           : BOOLEAN,   \* ELASTIC_CI_MODE
    disableIn         : BOOLEAN,
    disableOut        : BOOLEAN,
    inCooldown        : Nat,
    outCooldown       : Nat,
    inFactor          : Nat,       \* 0 means no factor
    outFactor         : Nat,
    onlyAfterAll      : BOOLEAN,   \* SCALE_ONLY_AFTER_ALL_EVENT
    maxDangling       : Nat ]      \* MAX_DANGLING_INSTANCES_TO_CHECK

AgentMetrics ==
  [ scheduled : Nat, running : Nat, waiting : Nat, total : Nat ]

AutoscaleGroupDetails ==
  [ pending : Nat, desired : Nat, min : Nat, max : Nat,
    ids     : Nat,      \* how many instance IDs the group lists
    actual  : Nat ]     \* how many of them are InService

(* The age of an event that has not happened: LastEvent.IsZero().          *)
Never == -1

-----------------------------------------------------------------------------
(* Helpers.                                                                *)

Least(x, y)    == IF x <= y THEN x ELSE y
Greatest(x, y) == IF x >= y THEN x ELSE y

(* math.Ceil(x / d) for d > 0.  \div rounds towards minus infinity, which  *)
(* is math.Floor.                                                          *)
CeilDiv(x, d) == -((-x) \div d)

Capped(p, n) == IF p.maxInstanceCap > 0 THEN Least(n, p.maxInstanceCap) ELSE n

(* The instances a decision compares with: those InService or, when there  *)
(* are none, the group's desired count.                                    *)
InstanceCount(a) == IF a.actual = 0 THEN a.desired ELSE a.actual

-----------------------------------------------------------------------------
(* ScalingCalculator.                                                      *)

PerInstanceRoundedDown(p, count) ==
  IF p.agentsPerInstance <= 0
  THEN count
  ELSE Capped(p, count \div p.agentsPerInstance)

PerInstance(p, count) ==
  IF p.agentsPerInstance <= 0
  THEN count
  ELSE Capped(p, CeilDiv(count, p.agentsPerInstance))

AgentsRequiredWaitingOnly(p, m) ==
  IF p.includeWaiting /\ m.waiting > m.running
  THEN m.waiting
  ELSE m.scheduled + m.running

AgentsRequired(p, m) ==
  m.scheduled + (IF p.includeWaiting /\ m.waiting > m.running
                 THEN m.waiting
                 ELSE m.running)

(* Fewer agents are online than the threshold's share of those expected.   *)
(* Without expected agents the availability is 1, never below a threshold. *)
LowAvailability(p, m, a) ==
  LET expected == p.agentsPerInstance * InstanceCount(a)
  IN  expected > 0 /\ m.total * Unit < p.threshold * expected

BoostedWhileConverging(p, m, a) ==
  LET required == AgentsRequired(p, m)
      jobBased == IF required > 0 THEN PerInstance(p, required) ELSE 0
  IN  IF /\ required > 0
         /\ LowAvailability(p, m, a)
         /\ a.actual # a.desired
      THEN Greatest(jobBased, a.desired + 1)
      ELSE jobBased

(* The job-based count and, when agents are missing although the group has *)
(* converged, at least one instance more than the group has.               *)
Boosted(p, m, a) ==
  LET required == AgentsRequired(p, m)
      jobBased == IF required > 0 THEN PerInstance(p, required) ELSE 0
  IN  IF /\ required > 0
         /\ LowAvailability(p, m, a)
         /\ a.actual = a.desired
      THEN Greatest(jobBased, a.desired + 1)
      ELSE jobBased

DesiredCountAtAnyAge(p, m, a, stale) == Boosted(p, m, a)

(* The count before buffer and limits; stale tells whether the metrics are *)
(* more than two minutes old.  The code's metrics cache is left out:       *)
(* timestamps are taken by the client itself when a response arrives and   *)
(* one scaler polls sequentially, so a cached timestamp is never newer     *)
(* than the current one and the cached agent count is never used.          *)
DesiredCount(p, m, a, stale) ==
  IF p.elastic /\ stale THEN a.desired ELSE Boosted(p, m, a)

-----------------------------------------------------------------------------
(* Scaler.Run.                                                             *)

(* The spare instances added while there are jobs: in proportion to them,  *)
(* and never more than INSTANCE_BUFFER.                                    *)
Buffer(p, m) ==
  LET jobs == m.scheduled + m.running
                + (IF p.includeWaiting THEN m.waiting ELSE 0)
      proportional == IF p.agentsPerInstance <= 0
                      THEN jobs
                      ELSE CeilDiv(jobs, p.agentsPerInstance)
  IN  IF m.scheduled + m.running + m.waiting > 0
      THEN Least(Capped(p, proportional), p.instanceBuffer)
      ELSE 0

TargetBufferLast(p, m, a, stale) ==
  Greatest(Least(DesiredCount(p, m, a, stale), a.max), a.min) + Buffer(p, m)

Target(p, m, a, stale) ==
  Greatest(Least(DesiredCount(p, m, a, stale) + Buffer(p, m), a.max), a.min)

WantsOut(a, target) ==
  target > InstanceCount(a) /\ target > a.desired

(* Either the group's desired count is above the target, or only its       *)
(* running instances are; the second case waits for pending instances in   *)
(* Elastic CI mode, the first does not look at them.                       *)
WantsIn(p, a, target) ==
  \/ a.desired > target
  \/ /\ a.desired <= target
     /\ InstanceCount(a) > target
     /\ ~(p.elastic /\ a.pending > 0)

(* Instances run exactly as wanted, but not one agent reports.             *)
WantsDanglingCheck(p, m, a, target) ==
  /\ p.elastic
  /\ InstanceCount(a) = target
  /\ a.desired <= target
  /\ InstanceCount(a) > 0
  /\ m.total = 0

-----------------------------------------------------------------------------
(* scaleIn and scaleOut.                                                   *)

ScaleInTargetRoundedUp(p, a, target) ==
  LET change == target - a.desired
  IN  IF p.inFactor = 0
      THEN target
      ELSE Greatest(a.desired + CeilDiv(change * p.inFactor, Unit), a.min)

ScaleInTargetFromActual(p, a, target) ==
  LET change == target - a.desired
  IN  IF p.inFactor = 0
      THEN target
      ELSE Greatest(a.actual + ((change * p.inFactor) \div Unit), a.min)

ScaleInTarget(p, a, target) ==
  LET change   == target - a.desired
      factored == IF p.inFactor = 0
                  THEN target
                  ELSE Greatest(a.desired + ((change * p.inFactor) \div Unit),
                                a.min)
  IN  Greatest(factored, 0)

ScaleOutTargetRoundedDown(p, a, target) ==
  LET change == target - a.desired
  IN  IF p.outFactor = 0
      THEN target
      ELSE Least(a.desired + ((change * p.outFactor) \div Unit), a.max)

ScaleOutTarget(p, a, target) ==
  LET change == target - a.desired
  IN  IF p.outFactor = 0
      THEN target
      ELSE Least(a.desired + CeilDiv(change * p.outFactor, Unit), a.max)

(* own and other are the ages of the last event of this direction and of   *)
(* the other one.  No event of its own, no cooldown; with onlyAfterAll the *)
(* more recent of the two events counts.                                   *)
CoolingDown(p, cooldown, own, other) ==
  LET age == IF p.onlyAfterAll /\ other # Never THEN Least(own, other) ELSE own
  IN  own # Never /\ age < cooldown

ScaleInBlocked(p, own, other) ==
  \/ p.disableIn /\ ~p.elastic
  \/ CoolingDown(p, p.inCooldown, own, other)

ScaleOutBlocked(p, own, other) ==
  \/ p.disableOut
  \/ CoolingDown(p, p.outCooldown, own, other)

(* Elastic CI mode stops the agents itself before it lowers the capacity,  *)
(* when the group lists instances and there is something to terminate.     *)
Graceful(p, a, target) ==
  p.elastic /\ a.ids > 0 /\ a.desired > target

=============================================================================

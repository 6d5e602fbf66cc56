-------------------------------- MODULE MCRules --------------------------------
(***************************************************************************)
(* The arithmetic of ScalingRules against reference definitions: every     *)
(* combination of the small inputs below is an initial state, and the one  *)
(* step writes down the decision.                                          *)
(***************************************************************************)
EXTENDS ScalingRules, FiniteSets

CONSTANT Limit       \* bound of every count

ASSUME LimitAssumption == Limit \in Nat

VARIABLES p, m, a, stale, answer

rulesVars == << p, m, a, stale, answer >>

RulesConfigs ==
  { c \in [ agentsPerInstance : {0, 2}, includeWaiting : BOOLEAN,
            threshold : {0, 1}, instanceBuffer : {0, 1},
            maxInstanceCap : {0, 2}, elastic : {TRUE},
            disableIn : {FALSE}, disableOut : {FALSE},
            inCooldown : {0}, outCooldown : {0},
            inFactor : 0..Unit, outFactor : 0..Unit,
            onlyAfterAll : {FALSE}, maxDangling : {1} ] :
      c.inFactor = c.outFactor }

Init ==
  /\ p \in RulesConfigs
  /\ m \in [scheduled : 0..Limit, running : {0, 1}, waiting : {0, 2},
            total : {0, Limit}]
  /\ a \in [pending : {0}, desired : 0..Limit, min : {0, 1}, max : {Limit},
            ids : {1}, actual : {0, 1, Limit}]
  /\ a.min <= a.desired
  /\ stale \in BOOLEAN
  /\ answer = -1

Answer ==
  /\ answer = -1
  /\ answer' = Target(p, m, a, stale)
  /\ UNCHANGED << p, m, a, stale >>

Next == Answer

Spec == Init /\ [][Next]_rulesVars

-----------------------------------------------------------------------------

(* perInstance is the smallest fleet that hosts the agents, up to the cap: *)
(* no instance too few and none too many, also where the division leaves a *)
(* remainder.                                                              *)
Hosts(instances, agents) ==
  instances * Greatest(p.agentsPerInstance, 1) >= agents

SmallestFleet(agents) ==
  CHOOSE n \in 0..agents :
    Hosts(n, agents) /\ \A k \in 0..agents : Hosts(k, agents) => n <= k

PerInstanceIsSmallest ==
  LET required == AgentsRequired(p, m)
      fleet    == SmallestFleet(required)
  IN  PerInstance(p, required)
        = IF p.maxInstanceCap > 0 /\ p.agentsPerInstance > 0
          THEN Least(fleet, p.maxInstanceCap)
          ELSE fleet

(* More load never asks for fewer instances: one job more of any kind, in  *)
(* any configuration and for any group, through the switch from running to *)
(* waiting jobs, the availability boost, the buffer and the limits.        *)
MoreLoad ==
  { [m EXCEPT !.scheduled = @ + 1], [m EXCEPT !.running = @ + 1],
    [m EXCEPT !.waiting = @ + 1] }

MoreLoadNeverFewerInstances ==
  (answer # -1) => \A more \in MoreLoad : Target(p, more, a, stale) >= answer

(* A factor of at most 1 slows a change down but never stops it: each step *)
(* goes towards the target, and not past it.                               *)
FactorsKeepMoving ==
  (answer # -1) =>
    /\ answer < a.desired =>
         LET step == ScaleInTarget(p, a, answer)
         IN  answer <= step /\ step < a.desired
    /\ answer > a.desired =>
         LET step == ScaleOutTarget(p, a, answer)
         IN  a.desired < step /\ step <= answer

=============================================================================

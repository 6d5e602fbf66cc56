------------------------------- MODULE MCScaler -------------------------------
(***************************************************************************)
(* Instances of Scaler for TLC: the configurations and the metrics of the  *)
(* runs.  Halves are enough for the fractions: 1 stands for a factor or a  *)
(* threshold of 0.5, 2 for 1, 4 for 2.                                     *)
(***************************************************************************)
EXTENDS Scaler, TLC

Plain ==
  [ agentsPerInstance |-> 1, includeWaiting |-> FALSE, threshold |-> 0,
    instanceBuffer |-> 0, maxInstanceCap |-> 0, elastic |-> FALSE,
    disableIn |-> FALSE, disableOut |-> FALSE,
    inCooldown |-> 0, outCooldown |-> 0, inFactor |-> 0, outFactor |-> 0,
    onlyAfterAll |-> FALSE, maxDangling |-> 1 ]

Elastic == [Plain EXCEPT !.elastic = TRUE]

Jobs(scheduled, total) ==
  [scheduled |-> scheduled, running |-> 0, waiting |-> 0, total |-> total]

Load(scheduled, running, total) ==
  [Jobs(scheduled, total) EXCEPT !.running = running]

-----------------------------------------------------------------------------
(* Requests: every feature that adds to a target, and cooldowns in Elastic *)
(* CI mode.                                                                *)
RequestConfigs ==
  { [Plain EXCEPT !.threshold = 1, !.instanceBuffer = 2, !.inFactor = 2],
    [Plain EXCEPT !.inFactor = 1, !.outFactor = 4, !.instanceBuffer = 1],
    [Elastic EXCEPT !.inFactor = 1, !.outFactor = 1, !.inCooldown = 1],
    [Elastic EXCEPT !.inCooldown = 2, !.disableIn = TRUE] }

RequestDemand == { Jobs(0, 0), Jobs(1, 0), Load(1, 2, 2) }

(* Settling: one steady load, with every way of stretching the steps.      *)
SteadyConfigs ==
  { [Plain EXCEPT !.inFactor = 1, !.outFactor = 1, !.instanceBuffer = 1],
    [Plain EXCEPT !.inFactor = 2, !.inCooldown = 1, !.outCooldown = 1,
                  !.onlyAfterAll = TRUE],
    [Elastic EXCEPT !.inCooldown = 1, !.inFactor = 1] }

OverlapConfigs ==
  { [Plain EXCEPT !.inFactor = 1, !.outFactor = 1] }

SteadyDemand == { Jobs(1, 1) }

=============================================================================

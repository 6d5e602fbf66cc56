------------------------------- MODULE MCLambda -------------------------------
(***************************************************************************)
(* Instances of LambdaScaler for TLC.                                      *)
(***************************************************************************)
EXTENDS LambdaClaims, MCScaler

(* Cooldowns in both modes, scale-in allowed or not.  Where a direction is *)
(* disabled the lookup does not ask for its last event and may miss it.    *)
WarmConfigs ==
  { [Plain EXCEPT !.inCooldown = 2],
    [Plain EXCEPT !.inCooldown = 2, !.disableOut = TRUE],
    [Plain EXCEPT !.disableIn = TRUE, !.outCooldown = 1, !.outFactor = 4],
    [Plain EXCEPT !.inCooldown = 1, !.outCooldown = 1, !.onlyAfterAll = TRUE],
    [Elastic EXCEPT !.inCooldown = 2] }

WarmDemand == { Jobs(0, 0), Jobs(1, 1), Jobs(2, 0) }

CooldownConfig == { [Plain EXCEPT !.inCooldown = 2] }

SomeJobs == { Jobs(0, 0), Jobs(1, 1) }

=============================================================================

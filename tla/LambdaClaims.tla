----------------------------- MODULE LambdaClaims -----------------------------
(***************************************************************************)
(* What comments and documents of the repository say of the Lambda and     *)
(* LambdaScaler does not keep: each a property that one run refutes.       *)
(***************************************************************************)
EXTENDS LambdaScaler

(* "Stores the last time we scaled in/out in global lambda state": once an *)
(* environment remembers its group's last scale-in, a lookup never makes it*)
(* remember an earlier one instead.  It does when the first lookup failed  *)
(* and the next one comes while the last scale-in is still in progress: it *)
(* finds the one before.                                                   *)
RemembersLast(e) ==
  globalIn[e] # Never /\ sinceLowered # Never /\ globalIn[e] <= sinceLowered

GlobalsKeepLastScaleIn ==
  [][\A e \in Scalers :
       (phase[e] = "fetch" /\ phase'[e] = "build" /\ RemembersLast(e))
         => globalIn'[e] <= sinceLowered]_allVars

=============================================================================

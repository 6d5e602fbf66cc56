----------------------------- MODULE ScalerClaims -----------------------------
(***************************************************************************)
(* What comments, tests and documents of the repository say of the scaler  *)
(* and Scaler does not keep.  Each is a property that one run of TLC       *)
(* refutes; the finding that goes with it quotes the text.                 *)
(***************************************************************************)
EXTENDS Scaler

SetsCapacity(s) == pc[s] = "request" /\ pc'[s] # pc[s]

(* "Scale out disabled": with DISABLE_SCALE_OUT no scaler ever raises the  *)
(* desired capacity.  scaleIn does, when fewer instances are desired than  *)
(* wanted while more are running.                                          *)
DisabledScaleOutNeverRaises ==
  [][\A s \in Scalers :
       (p.disableOut /\ SetsCapacity(s)) => asg'.desired <= asg.desired]_vars

=============================================================================

---------------------------- MODULE MCScalerClaims ----------------------------
(***************************************************************************)
(* The configurations and metrics of the runs that refute ScalerClaims:    *)
(* one feature each, so that the counterexample shows that feature.        *)
(***************************************************************************)
EXTENDS ScalerClaims, MCScaler

DisableOutConfigs == { [Plain EXCEPT !.disableOut = TRUE] }
BufferConfigs     == { [Elastic EXCEPT !.instanceBuffer = 1] }

OneJob == { Jobs(1, 1) }

=============================================================================

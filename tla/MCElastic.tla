------------------------------- MODULE MCElastic -------------------------------
(***************************************************************************)
(* Instances of GracefulScaleIn and of the claims about it for TLC.        *)
(***************************************************************************)
EXTENDS ElasticClaims

=============================================================================

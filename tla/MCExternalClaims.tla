-------------------------- MODULE MCExternalClaims --------------------------
(* The model-checking instance of ExternalClaims on its own. *)
EXTENDS ExternalClaims
=============================================================================

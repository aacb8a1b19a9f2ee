----------------------------- MODULE MCStaging ------------------------------
(* Staging with BLAS, which is not privatized, and BLACS and PBLAS, which  *)
(* are, and whose headers are staged twice.                                *)
EXTENDS Staging, TLC

CONSTANTS blas, blacs, pblas

MCPos == (blas :> 1) @@ (blacs :> 2) @@ (pblas :> 3)
=============================================================================

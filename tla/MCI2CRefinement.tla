-------------------------- MODULE MCI2CRefinement --------------------------
(* The refinement on the same small instance.                              *)
EXTENDS I2CRefinement, MCI2CClient
=============================================================================

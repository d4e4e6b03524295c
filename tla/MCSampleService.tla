-------------------------- MODULE MCSampleService --------------------------
(***************************************************************************)
(* Model-checking instances of SampleService: two contents and two slots,  *)
(* one or two +Drive paths.                                                *)
(***************************************************************************)
EXTENDS SampleService

CONSTANTS kick, snare, p, q
=============================================================================

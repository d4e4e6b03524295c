------------------------ MODULE MCOverbridgeCapture ------------------------
(***************************************************************************)
(* Model-checking instances of OverbridgeCapture, and of the choice of its *)
(* stream configuration.                                                   *)
(***************************************************************************)
EXTENDS OverbridgeCapture

CONSTANTS a, main, bd
=============================================================================

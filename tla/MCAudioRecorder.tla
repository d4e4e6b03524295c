-------------------------- MODULE MCAudioRecorder --------------------------
(***************************************************************************)
(* Model-checking instances of AudioRecorder.                              *)
(***************************************************************************)
EXTENDS AudioRecorder

CONSTANTS a, b
=============================================================================

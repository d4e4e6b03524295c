-------------------------- MODULE MCTransportClock --------------------------
(***************************************************************************)
(* Model-checking instance of TransportClock: two clocks to a step, two    *)
(* steps to a beat, two beats to a measure and patterns of one to three    *)
(* steps, so that every kind of boundary, the last step of a pattern and a *)
(* length that does not divide the measure all occur within MaxStep steps. *)
(***************************************************************************)
EXTENDS TransportClock
=============================================================================

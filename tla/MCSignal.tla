------------------------------- MODULE MCSignal -------------------------------
(***************************************************************************)
(* Two values, so that observations of one time conflict; four times, and  *)
(* timeouts of which one is zero and one is shorter than the run.          *)
(***************************************************************************)
EXTENDS Signal
=============================================================================

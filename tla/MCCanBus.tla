------------------------------ MODULE MCCanBus ------------------------------
(***************************************************************************)
(* One caller, or callers that serialise their calls, which is the same:   *)
(* two task identities, so that a second live task could be seen; a ring   *)
(* and a semaphore of two.  No counter is bounded: every run is unlimited. *)
(***************************************************************************)
EXTENDS CanBusSource
=============================================================================

----------------------------- MODULE MCRuntime -----------------------------
(***************************************************************************)
(* Two callers that may overlap, both builds and both kinds of source; no  *)
(* bound on the number of runs, faults, retries or runtimes.               *)
(***************************************************************************)
EXTENDS Runtime
=============================================================================

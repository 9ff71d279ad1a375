---------------------------- MODULE MCNotification ----------------------------
(***************************************************************************)
(* The two slots of the code, two dispatching tasks, generations that wrap *)
(* inside the run, and readings of which two are available.                *)
(***************************************************************************)
EXTENDS NotificationChannel

MCReadings ==
  {[value |-> "a", availability |-> "Fresh"],
   [value |-> "b", availability |-> "FreshnessUnverified"],
   [value |-> "a", availability |-> "Unavailable"]}
=============================================================================

--------------------------- MODULE AcquisitionSource ---------------------------
(***************************************************************************)
(* What a Runtime assumes of the acquisition source it drives and a source *)
(* guarantees (receive.hpp:22-43): Runtime takes it for its environment,   *)
(* CanBusSource is checked against it.                                     *)
(***************************************************************************)

\* A start() that reports Ok holds the acquisition, and so may any other but
\* a refusal that the caller takes for another owner's.
StartReport(code, held) == code = "Ok" => held

\* "until cleanup succeeds or the source reports NotRunning": these two are
\* the results after which the source is forgotten, so nothing may be held.
\* Faulted keeps what could not be released.
StopReport(code, held) ==
  /\ code \in {"Ok", "NotRunning"} => ~held
  /\ code = "Faulted" => held

\* A receive() that reports a fault ends the run of the runtime.
ReceiveReport(status, running) ==
  status \in {"Fault", "NotStarted"} => ~running
=============================================================================

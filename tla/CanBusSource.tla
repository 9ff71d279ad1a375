----------------------------- MODULE CanBusSource -----------------------------
(***************************************************************************)
(* CanBusSource (can_bus_source.cpp): the acquisition boundary CanBus as   *)
(* an AcquisitionSource.  Its calls are those of CanBus with their results *)
(* mapped; stop() and retry_stop() are the same call.                      *)
(***************************************************************************)
EXTENDS CanBus, AcquisitionSource

map_start_result(result) ==
  CASE result = "kOk" -> "Ok"
    [] result = "kInvalidConfiguration" -> "InvalidConfiguration"
    [] result = "kAlreadyStarted" -> "AlreadyRunning"
    [] result = "kStopping" -> "Stopping"
    [] result \in {"kFaulted", "kDriverFailure", "kTaskFailure"} -> "Faulted"
    [] result \in {"kNotStarted", "kTimeout"} -> "InvalidState"

\* Bug: a failure of the driver is taken for a boundary that does not run.
map_stop_result_lenient(result) ==
  CASE result = "kOk" -> "Ok"
    [] result \in {"kNotStarted", "kDriverFailure"} -> "NotRunning"
    [] result = "kStopping" -> "Stopping"
    [] result = "kTimeout" -> "Timeout"
    [] result \in {"kFaulted", "kTaskFailure"} -> "Faulted"
    [] result \in {"kInvalidConfiguration", "kAlreadyStarted"} -> "InvalidState"

map_stop_result(result) ==
  CASE result = "kOk" -> "Ok"
    [] result = "kNotStarted" -> "NotRunning"
    [] result = "kStopping" -> "Stopping"
    [] result = "kTimeout" -> "Timeout"
    [] result \in {"kFaulted", "kDriverFailure", "kTaskFailure"} -> "Faulted"
    [] result \in {"kInvalidConfiguration", "kAlreadyStarted"} -> "InvalidState"

\* receive()
map_receive_result(result) ==
  CASE result = "kOk" -> "Frame"
    [] result = "kTimeout" -> "Timeout"
    [] result = "kNotStarted" -> "NotStarted"
    [] OTHER -> "Fault"

-----------------------------------------------------------------------------
Held == driver # "absent" \/ \E t \in Tasks : Live(t)
Returns(c, op) == ~At(c, "idle") /\ At(c, "idle")' /\ caller'[c].op = op
Result(c) == caller'[c].result

ReceiveReturns == ~ConsumerAt("idle") /\ ConsumerAt("idle")'

\* The source keeps the contract that the runtime relies on.  It never reports
\* an acquisition released that still has a driver or a task, nor one held
\* that has none, whatever failed on the way; and a consumer, which latches a
\* fault for good, is told of one only when the run has ended.
SourceKeepsContract ==
  [][/\ \A c \in Callers :
         /\ Returns(c, "start") =>
              StartReport(map_start_result(Result(c)), Held')
         /\ Returns(c, "stop") => StopReport(map_stop_result(Result(c)), Held')
     /\ ReceiveReturns =>
          ReceiveReport(map_receive_result(consumer'.result),
                        state = "Running")]_vars
=============================================================================

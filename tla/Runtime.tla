------------------------------- MODULE Runtime -------------------------------
(***************************************************************************)
(* RuntimeImplementation of vehicle_telemetry (runtime.cpp): callers that  *)
(* start, stop and destroy a runtime, the worker each start creates, and   *)
(* diagnostics() from any task, over an AcquisitionSource that may fail at *)
(* every call.                                                             *)
(*                                                                         *)
(* A step is one access to state that several tasks share: a critical      *)
(* section of lifecycle_mutex_ or diagnostics_mutex_, or one atomic.  The  *)
(* members that only the holder of lifecycle_operation_active_ touches     *)
(* change together with the source call whose outcome they record.         *)
(* diagnostics_mutex_ is kept as a variable where it is held across a read *)
(* of config_.  Statistics and frame counters are left out.                *)
(***************************************************************************)
EXTENDS Naturals, AcquisitionSource

CONSTANTS
  Callers,    \* tasks that call start(), stop() or the destructor
  Configurations,  \* the valid values of RuntimeConfig
  Platforms   \* the builds considered: "esp" (ESP_PLATFORM) and "host"

ASSUME PlatformAssumption == Platforms \subseteq {"esp", "host"}

VARIABLES
  platform,        \* the build, fixed
  opts_in,         \* source_->supports_stop_retry(), fixed
  config,          \* config_
  lifecycle,       \* lifecycle_
  operation,       \* lifecycle_operation_active_
  stop_requested,  \* stop_requested_
  worker_active,   \* worker_active_
  handle,          \* "esp": task_ is set; "host": worker_ is joinable
  cleanup,         \* the source_* members and partial_cleanup_attempts_
  diagnostics,     \* diagnostics_
  diagnostics_mutex,  \* who reads config_ under diagnostics_mutex_, or "free"
  source,          \* external: what the source really holds
  handoff,         \* history: the stop calls for the last source start
  worker,          \* the task or thread in run_loop()
  caller           \* the call each caller runs, or its last result

run == <<operation, stop_requested, worker_active, handle>>
members == <<lifecycle, run>>
sourcing == <<cleanup, source, handoff>>
settings == <<platform, opts_in, config>>
observed == <<diagnostics, diagnostics_mutex>>
vars == <<settings, members, sourcing, observed, worker, caller>>

LifecycleStates == {"Stopped", "Running", "Stopping", "Faulted"}
TransportHealth == {"AwaitingTraffic", "Live", "TimedOut", "Faulted",
                    "Stopped"}
\* Stopping is reported and treated like Timeout by every caller of a stop.
StopResults == {"Ok", "NotRunning", "Timeout", "Faulted"}
\* A Frame that the processor faults on is "FrameFault"; NotStarted is
\* treated like Fault.  The fault that a source reports because it is being
\* stopped is "Cancelled", which the code cannot tell from another fault.
ReceiveStatus == {"Frame", "FrameFault", "Timeout", "Fault", "Cancelled"}
Faults == {"Fault", "Cancelled"}
CallerSteps ==
  {"idle", "source_start", "refused", "arm", "publish", "running",
   "create", "assign", "undo", "partial", "stopping", "request",
   "source_stop", "join", "settle", "settle_diagnostics", "end",
   "destroy", "destroy_stop", "destroy_join", "destroy_retry", "destroyed"}
WorkerSteps == {"none", "loop", "receive", "recheck", "snapshot", "silence",
                "callback", "latch", "latch_request", "leave", "inactive"}

TypeOK ==
  /\ platform \in Platforms
  /\ opts_in \in BOOLEAN
  /\ config \in Configurations
  /\ diagnostics_mutex \in {"free", "reader", "worker"}
  /\ lifecycle \in LifecycleStates
  /\ operation \in BOOLEAN
  /\ stop_requested \in BOOLEAN
  /\ worker_active \in BOOLEAN
  /\ handle \in BOOLEAN
  /\ cleanup \in [started : BOOLEAN,
                  ownership : {"None", "SuccessfulStart", "PartialStart"},
                  called : BOOLEAN, retry_supported : BOOLEAN,
                  result : StopResults, attempts : 0 .. 2]
  /\ diagnostics \in [lifecycle : LifecycleStates,
                      transport : TransportHealth, has_last_frame : BOOLEAN]
  /\ source \in {"idle", "partial", "running", "foreign"}
  /\ handoff \in [kind : {"none", "started", "partial"}, stops : 0 .. 2,
                  retried : BOOLEAN]
  /\ worker \in [step : WorkerSteps, status : ReceiveStatus \cup {"none"}]
  /\ caller \in [Callers -> [step : CallerSteps,
                             result : StopResults \cup {"none"},
                             op : {"none", "start", "stop", "destroy"}]]

Released == [started |-> FALSE, ownership |-> "None", called |-> FALSE,
             retry_supported |-> FALSE, result |-> "Ok", attempts |-> 0]
NoWorker == [step |-> "none", status |-> "none"]
NoHandoff == [kind |-> "none", stops |-> 0, retried |-> FALSE]

NoDiagnostics == [lifecycle |-> "Stopped", transport |-> "Stopped",
                  has_last_frame |-> FALSE]

Init ==
  /\ platform \in Platforms
  /\ opts_in \in BOOLEAN
  /\ config \in Configurations
  /\ diagnostics_mutex = "free"
  /\ lifecycle = "Stopped"
  /\ operation = FALSE
  /\ stop_requested = FALSE
  /\ worker_active = FALSE
  /\ handle = FALSE
  /\ cleanup = Released
  /\ diagnostics = NoDiagnostics
  /\ worker = NoWorker
  /\ source = "idle"
  /\ handoff = NoHandoff
  /\ caller = [c \in Callers |-> [step |-> "idle", op |-> "none",
                                  result |-> "none"]]

-----------------------------------------------------------------------------
At(c, step) == caller[c].step = step
Go(c, step) == caller' = [caller EXCEPT ![c].step = step]
GoWith(c, step, result) ==
  caller' = [caller EXCEPT ![c].step = step, ![c].result = result]
\* The result of a finished call is the caller's affair and is not kept.
Return(c) ==
  caller' = [caller EXCEPT ![c] = [step |-> "idle", op |-> "none",
                                   result |-> "none"]]
Call(c, op, step) ==
  caller' = [caller EXCEPT ![c] = [step |-> step, op |-> op,
                                   result |-> "none"]]

\* No call may begin once the destructor has.
Usable == \A c \in Callers : caller[c].op = "destroy" => At(c, "idle")
Quiet == \A c \in Callers : At(c, "idle")

\* A critical section of diagnostics_mutex_ in which config_ is not read.
Diagnose(value) == /\ diagnostics_mutex = "free"
                   /\ diagnostics' = value
                   /\ UNCHANGED diagnostics_mutex

SetDiagnostic(state, transport) ==
  Diagnose([diagnostics EXCEPT !.lifecycle = state, !.transport = transport])

\* What stop() or retry_stop() of the source may do and report: the contract,
\* and that an idle source says so.
SourceStops(result) ==
  /\ source' \in {source, "idle"}
  /\ StopReport(result, source' # "idle")
  /\ IF source = "idle" THEN result \in {"Ok", "NotRunning"}
                        ELSE result # "NotRunning"

CallsStop == handoff' = [handoff EXCEPT !.stops = @ + 1]
CallsRetryStop == handoff' = [handoff EXCEPT !.retried = TRUE]

(***************************************************************************)
(* attempt_source_stop(): its result goes to the caller, and so does the   *)
(* step to continue with.                                                  *)
(***************************************************************************)
\* Bug: a source is never asked twice, not even one that opted in.
StopsNothingOnceCalled == \/ cleanup.ownership # "SuccessfulStart"
                          \/ ~cleanup.started
                          \/ cleanup.called

StopsNothing == \/ cleanup.ownership # "SuccessfulStart"
                \/ ~cleanup.started
                \/ cleanup.called /\ ~cleanup.retry_supported

\* Bug: a failed stop of a source that opted in is not remembered.
AfterSourceStopForgets(result) ==
  IF result = "Ok" \/ (cleanup.retry_supported /\ result = "NotRunning")
  THEN Released
  ELSE IF cleanup.retry_supported
  THEN [cleanup EXCEPT !.result = result]
  ELSE Released

AfterSourceStop(result) ==
  IF result = "Ok" \/ (cleanup.retry_supported /\ result = "NotRunning")
  THEN Released
  ELSE IF cleanup.retry_supported
  THEN [cleanup EXCEPT !.called = TRUE, !.result = result]
  ELSE Released

ReportedStop(result) ==
  IF cleanup.retry_supported /\ result = "NotRunning" THEN "Ok" ELSE result

AttemptSourceStop(c, onTimeout, next) ==
  \/ /\ StopsNothing
     /\ GoWith(c, IF cleanup.result = "Timeout" THEN onTimeout ELSE next,
               cleanup.result)
     /\ UNCHANGED <<sourcing>>
  \/ /\ ~StopsNothing
     /\ \E result \in StopResults :
          /\ SourceStops(result)
          /\ cleanup' = AfterSourceStop(result)
          /\ GoWith(c, IF result = "Timeout" THEN onTimeout ELSE next,
                    ReportedStop(result))
     /\ IF cleanup.called THEN CallsRetryStop ELSE CallsStop

(***************************************************************************)
(* attempt_partial_start_cleanup(), called with ownership "PartialStart".  *)
(* The attempts matter up to the limit of two only, and only until the     *)
(* cleanup is complete: the next partial start counts from 0 again.        *)
(***************************************************************************)
\* Bug: the attempts of a partial start are not limited.
ExhaustedLate == FALSE

Exhausted == cleanup.attempts >= 2 /\ ~cleanup.retry_supported

\* Bug: a cleanup that timed out counts as complete.
AfterPartialCleanupHasty(result) ==
  IF result \in {"Ok", "NotRunning", "Timeout"}
  THEN Released
  ELSE [cleanup EXCEPT !.called = TRUE, !.result = result,
                       !.attempts = IF @ < 2 THEN @ + 1 ELSE 2]

AfterPartialCleanup(result) ==
  IF result \in {"Ok", "NotRunning"}
  THEN Released
  ELSE [cleanup EXCEPT !.called = TRUE, !.result = result,
                       !.attempts = IF @ < 2 THEN @ + 1 ELSE 2]

AttemptPartialCleanup(c, next) ==
  \/ /\ Exhausted
     /\ GoWith(c, next, cleanup.result)
     /\ UNCHANGED <<sourcing>>
  \/ /\ ~Exhausted
     /\ \E result \in StopResults :
          /\ SourceStops(result)
          /\ cleanup' = AfterPartialCleanup(result)
          /\ GoWith(c, next, IF result = "NotRunning" THEN "Ok" ELSE result)
     /\ IF cleanup.retry_supported /\ cleanup.called THEN CallsRetryStop
                                                     ELSE CallsStop

-----------------------------------------------------------------------------
(***************************************************************************)
(* configure(), of a valid configuration.                                  *)
(***************************************************************************)
\* Bug: the configuration is replaced between calls whatever the state.
MayConfigureAnyState == ~operation

MayConfigure == ~operation /\ lifecycle = "Stopped"

Configure ==
  /\ Usable
  /\ MayConfigure
  /\ config' \in Configurations
  /\ UNCHANGED <<platform, opts_in, members, sourcing, observed, worker, caller>>

-----------------------------------------------------------------------------
(***************************************************************************)
(* start()                                                                 *)
(***************************************************************************)
\* The critical section of lifecycle_mutex_.  The call returns Stopping, or
\* the result that names the lifecycle state, unless it may go on.
StartBegin(c) ==
  /\ At(c, "idle") /\ Usable
  /\ IF operation \/ lifecycle # "Stopped"
     THEN UNCHANGED <<operation, caller>>
     ELSE operation' = TRUE /\ Call(c, "start", "source_start")
  /\ UNCHANGED <<settings, lifecycle, stop_requested, worker_active, handle,
                 sourcing, observed, worker>>

SourceStarted(c) ==
  /\ At(c, "source_start")
  /\ source = "idle"
  /\ source' = "running"
  /\ cleanup' = [cleanup EXCEPT !.retry_supported = opts_in]
  /\ handoff' = [NoHandoff EXCEPT !.kind = "started"]
  /\ Go(c, "arm")
  /\ UNCHANGED <<settings, members, observed, worker>>

\* AlreadyRunning, or an InvalidConfiguration of the source.
SourceNotOwned(c) ==
  /\ At(c, "source_start")
  /\ cleanup' = [cleanup EXCEPT !.retry_supported = FALSE]
  /\ Go(c, "refused")
  /\ UNCHANGED <<settings, members, observed, source, handoff, worker>>

\* Any other failure: part of the source may be installed, or nothing.
SourceFailed(c) ==
  /\ At(c, "source_start")
  /\ IF source = "idle" THEN source' \in {"idle", "partial"}
                        ELSE UNCHANGED source
  /\ cleanup' = [cleanup EXCEPT !.retry_supported = opts_in,
                                !.started = TRUE, !.attempts = 0,
                                !.ownership = "PartialStart"]
  /\ handoff' = [NoHandoff EXCEPT !.kind = "partial"]
  /\ Go(c, "partial")
  /\ UNCHANGED <<settings, members, observed, worker>>

\* update_after_start_failure()
StartRefused(c) ==
  /\ At(c, "refused")
  /\ SetDiagnostic("Stopped", "Stopped")
  /\ Go(c, "end")
  /\ UNCHANGED <<settings, members, sourcing, worker>>

StartArm(c) ==
  /\ At(c, "arm")
  /\ cleanup' = [cleanup EXCEPT !.started = TRUE, !.called = FALSE,
                                !.ownership = "SuccessfulStart",
                                !.result = "Ok"]
  /\ stop_requested' = FALSE
  /\ worker_active' = TRUE
  /\ Go(c, "publish")
  /\ UNCHANGED <<settings, lifecycle, operation, handle, observed, source,
                 handoff, worker>>

StartPublish(c) ==
  /\ At(c, "publish")
  /\ Diagnose([lifecycle |-> "Running", transport |-> "AwaitingTraffic",
               has_last_frame |-> FALSE])
  /\ Go(c, "running")
  /\ UNCHANGED <<settings, members, sourcing, worker>>

StartRunning(c) ==
  /\ At(c, "running")
  /\ lifecycle' = "Running"
  /\ Go(c, "create")
  /\ UNCHANGED <<settings, run, sourcing, observed, worker>>

\* Bug: the ESP creator does not hold task_handle_mutex_.
HandleNeverBeforeRun == FALSE

\* On the ESP the creator holds task_handle_mutex_ until the handle is set;
\* a std::thread runs before worker_ is assigned.
HandleBeforeRun == platform = "esp"

StartCreate(c) ==
  /\ At(c, "create")
  /\ worker' = [NoWorker EXCEPT !.step = "loop"]
  /\ IF HandleBeforeRun
     THEN handle' = TRUE /\ Go(c, "end")
     ELSE UNCHANGED handle /\ Go(c, "assign")
  /\ UNCHANGED <<settings, lifecycle, operation, stop_requested, worker_active,
                 sourcing, observed>>

StartAssign(c) ==
  /\ At(c, "assign")
  /\ handle' = TRUE
  /\ Go(c, "end")
  /\ UNCHANGED <<settings, lifecycle, operation, stop_requested, worker_active,
                 sourcing, observed, worker>>

StartCreateFails(c) ==
  /\ At(c, "create")
  /\ worker_active' = FALSE
  /\ stop_requested' = TRUE
  /\ Go(c, "undo")
  /\ UNCHANGED <<settings, lifecycle, operation, handle, sourcing, observed,
                 worker>>

StartUndo(c) ==
  /\ At(c, "undo")
  /\ AttemptSourceStop(c, "settle", "settle")
  /\ UNCHANGED <<settings, members, observed, worker>>

\* Of start() and of stop().
PartialCleanup(c) ==
  /\ At(c, "partial")
  /\ AttemptPartialCleanup(c, "settle")
  /\ UNCHANGED <<settings, members, observed, worker>>

-----------------------------------------------------------------------------
(***************************************************************************)
(* The end of start() and stop(): the state by the outcome of the cleanup, *)
(* then the diagnostics, then the operation.                               *)
(***************************************************************************)
Outcome(c) == IF caller[c].result = "Ok" THEN "Stopped" ELSE "Faulted"

\* Bug: the diagnostics keep the state of the run.
SettleSilently(c) ==
  /\ At(c, "settle")
  /\ lifecycle' = Outcome(c)
  /\ Go(c, "end")
  /\ UNCHANGED <<settings, run, sourcing, observed, worker>>

Settle(c) ==
  /\ At(c, "settle")
  /\ lifecycle' = Outcome(c)
  /\ Go(c, "settle_diagnostics")
  /\ UNCHANGED <<settings, run, sourcing, observed, worker>>

SettleDiagnostics(c) ==
  /\ At(c, "settle_diagnostics")
  /\ SetDiagnostic(Outcome(c), Outcome(c))
  /\ Go(c, "end")
  /\ UNCHANGED <<settings, members, sourcing, worker>>

End(c) ==
  /\ At(c, "end")
  /\ operation' = FALSE
  /\ Return(c)
  /\ UNCHANGED <<settings, lifecycle, stop_requested, worker_active, handle,
                 sourcing, observed, worker>>

-----------------------------------------------------------------------------
(***************************************************************************)
(* stop(), by a task other than the worker.                                *)
(***************************************************************************)
\* Returns Stopping or NotRunning unless it may go on.
StopBegin(c) ==
  /\ At(c, "idle") /\ Usable
  /\ IF operation \/ (lifecycle = "Stopped" /\ ~cleanup.started)
     THEN UNCHANGED <<operation, lifecycle, caller>>
     ELSE /\ operation' = TRUE
          /\ lifecycle' = "Stopping"
          /\ Call(c, "stop", "stopping")
  /\ UNCHANGED <<settings, stop_requested, worker_active, handle, sourcing,
                 observed, worker>>

StopDiagnostics(c) ==
  /\ At(c, "stopping")
  /\ SetDiagnostic("Stopping", "Stopped")
  /\ Go(c, IF cleanup.ownership = "PartialStart" THEN "partial"
           ELSE "request")
  /\ UNCHANGED <<settings, members, sourcing, worker>>

StopRequest(c) ==
  /\ At(c, "request")
  /\ stop_requested' = TRUE
  /\ Go(c, "source_stop")
  /\ UNCHANGED <<settings, lifecycle, operation, worker_active, handle,
                 sourcing, observed, worker>>

StopSource(c) ==
  /\ At(c, "source_stop")
  /\ AttemptSourceStop(c, "end", "join")
  /\ UNCHANGED <<settings, members, observed, worker>>

\* join() of a joinable worker_, or worker_active_ read as false.
WorkerGone == IF platform = "host" THEN handle => worker.step = "none"
                                   ELSE ~worker_active
Joins == handle' = IF platform = "host" THEN FALSE ELSE handle

StopJoin(c) ==
  /\ At(c, "join")
  /\ WorkerGone
  /\ Joins
  /\ Go(c, "settle")
  /\ UNCHANGED <<settings, lifecycle, operation, stop_requested, worker_active,
                 sourcing, observed, worker>>

\* Bug: the stop goes on when its wait is over, whatever the worker does.
AfterJoinTimeoutGoesOn(c) == Go(c, "settle")

AfterJoinTimeout(c) == GoWith(c, "end", "Timeout")

\* The ESP build waits for a bounded number of ticks.
StopJoinTimeout(c) ==
  /\ At(c, "join")
  /\ platform = "esp"
  /\ worker_active
  /\ AfterJoinTimeout(c)
  /\ UNCHANGED <<settings, members, sourcing, observed, worker>>

-----------------------------------------------------------------------------
(***************************************************************************)
(* shutdown_noexcept(), the destructor, which no other call overlaps.  A   *)
(* new runtime may then be constructed over the same source, which it does *)
(* not own if the old one could not release it.                            *)
(***************************************************************************)
DestroyCall(c) ==
  /\ Quiet /\ diagnostics_mutex # "reader"
  /\ Usable
  /\ Call(c, "destroy", "destroy")
  /\ UNCHANGED <<settings, members, sourcing, observed, worker>>

\* Bug: the destructor does not ask the worker to stop.
DestroyRequestForgotten(c) ==
  /\ At(c, "destroy")
  /\ Go(c, "destroy_stop")
  /\ UNCHANGED <<settings, members, sourcing, observed, worker>>

DestroyRequest(c) ==
  /\ At(c, "destroy")
  /\ stop_requested' = TRUE
  /\ Go(c, "destroy_stop")
  /\ UNCHANGED <<settings, lifecycle, operation, worker_active, handle,
                 sourcing, observed, worker>>

DestroyAttempt(c, next) ==
  CASE cleanup.ownership = "SuccessfulStart" ->
         AttemptSourceStop(c, next, next)
    [] cleanup.ownership = "PartialStart" ->
         AttemptPartialCleanup(c, next)
    [] cleanup.ownership = "None" ->
         Go(c, next) /\ UNCHANGED <<sourcing>>

DestroyStop(c) ==
  /\ At(c, "destroy_stop")
  /\ DestroyAttempt(c, "destroy_join")
  /\ UNCHANGED <<settings, members, observed, worker>>

\* Bug: the destructor does not wait for the worker.
DestructorNeverWaits == TRUE

DestructorWaits == WorkerGone

DestroyJoin(c) ==
  /\ At(c, "destroy_join")
  /\ DestructorWaits
  /\ Joins
  /\ Go(c, IF cleanup.retry_supported /\ cleanup.started THEN "destroy_retry"
           ELSE "destroyed")
  /\ UNCHANGED <<settings, lifecycle, operation, stop_requested, worker_active,
                 sourcing, observed, worker>>

DestroyRetry(c) ==
  /\ At(c, "destroy_retry")
  /\ DestroyAttempt(c, "destroyed")
  /\ UNCHANGED <<settings, members, observed, worker>>

Construct(c) ==
  /\ At(c, "destroyed")
  /\ lifecycle' = "Stopped"
  /\ stop_requested' = FALSE
  /\ cleanup' = Released
  /\ diagnostics' = NoDiagnostics
  /\ source' = IF source = "idle" THEN "idle" ELSE "foreign"
  /\ handoff' = NoHandoff
  /\ Return(c)
  /\ operation' = FALSE /\ worker_active' = FALSE /\ handle' = FALSE
  /\ worker' = NoWorker
  /\ config' \in Configurations
  /\ UNCHANGED <<platform, opts_in, diagnostics_mutex>>

-----------------------------------------------------------------------------
(***************************************************************************)
(* run_loop() and task_entry()                                             *)
(***************************************************************************)
WorkerGoes(step) == worker' = [worker EXCEPT !.step = step]

WorkerLoop ==
  /\ worker.step = "loop"
  /\ worker' = [NoWorker EXCEPT !.step = IF stop_requested THEN "leave"
                                         ELSE "receive"]
  /\ UNCHANGED <<settings, members, sourcing, observed, caller>>

\* A stop of the source has begun: from here on a receive() may end early.
SourceStopping == \/ handoff.stops > 0
                  \/ \E c \in Callers : At(c, "source_stop")
                                        \/ At(c, "destroy_stop")

\* A frame taken just before a stop of the source may be returned after it.
WorkerReceive ==
  /\ worker.step = "receive"
  /\ \E status \in ReceiveStatus :
       /\ status = "Cancelled" => SourceStopping
       /\ worker' = [step |-> "recheck", status |-> status]
  /\ UNCHANGED <<settings, members, sourcing, observed, caller>>

WorkerRecheck ==
  /\ worker.step = "recheck"
  /\ WorkerGoes(IF stop_requested THEN "leave" ELSE "snapshot")
  /\ UNCHANGED <<settings, members, sourcing, observed, caller>>

(***************************************************************************)
(* update_silence_diagnostic_locked(): the state is loaded, then config_   *)
(* is read; whether the silence has lasted is the clock's choice.          *)
(***************************************************************************)
LooksAtSilence == lifecycle = "Running" /\ diagnostics.has_last_frame

JudgeSilence ==
  /\ \/ UNCHANGED diagnostics
     \/ diagnostics' = [diagnostics EXCEPT !.transport = "TimedOut"]
  /\ diagnostics_mutex' = "free"

\* snapshot_and_update(), after the processor for a frame.
WorkerSnapshot ==
  /\ worker.step = "snapshot"
  /\ diagnostics_mutex = "free"
  /\ IF worker.status = "Timeout" /\ LooksAtSilence
     THEN /\ diagnostics_mutex' = "worker"
          /\ WorkerGoes("silence")
          /\ UNCHANGED diagnostics
     ELSE /\ WorkerGoes("callback")
          /\ CASE worker.status = "Frame" ->
                    Diagnose([diagnostics EXCEPT !.transport = "Live",
                                                 !.has_last_frame = TRUE])
               [] worker.status = "FrameFault" ->
                    Diagnose([lifecycle |-> "Faulted", transport |-> "Faulted",
                              has_last_frame |-> TRUE])
               [] worker.status \in Faults ->
                    SetDiagnostic("Faulted", "Faulted")
               [] worker.status = "Timeout" ->
                    Diagnose(IF diagnostics.has_last_frame THEN diagnostics
                             ELSE [diagnostics EXCEPT
                                     !.transport = "AwaitingTraffic"])
  /\ UNCHANGED <<settings, members, sourcing, caller>>

WorkerSilence ==
  /\ worker.step = "silence"
  /\ JudgeSilence
  /\ WorkerGoes("callback")
  /\ UNCHANGED <<settings, members, sourcing, caller>>

\* The observer's callbacks.
WorkerCallback ==
  /\ worker.step = "callback"
  /\ WorkerGoes(IF worker.status \in Faults \cup {"FrameFault"} THEN "latch"
                ELSE "loop")
  /\ UNCHANGED <<settings, members, sourcing, observed, caller>>

WorkerLatch ==
  /\ worker.step = "latch"
  /\ lifecycle' = "Faulted"
  /\ WorkerGoes("latch_request")
  /\ UNCHANGED <<settings, run, sourcing, observed, caller>>

WorkerLatchRequest ==
  /\ worker.step = "latch_request"
  /\ stop_requested' = TRUE
  /\ WorkerGoes("loop")
  /\ UNCHANGED <<settings, lifecycle, operation, worker_active, handle,
                 sourcing, observed, caller>>

\* The ESP task clears its handle first; a thread has nothing else to do.
WorkerLeave ==
  /\ worker.step = "leave"
  /\ IF platform = "esp"
     THEN handle' = FALSE /\ UNCHANGED worker_active /\ WorkerGoes("inactive")
     ELSE worker_active' = FALSE /\ UNCHANGED handle /\ worker' = NoWorker
  /\ UNCHANGED <<settings, lifecycle, operation, stop_requested, sourcing,
                 observed, caller>>

WorkerInactive ==
  /\ worker.step = "inactive"
  /\ worker_active' = FALSE
  /\ worker' = NoWorker
  /\ UNCHANGED <<settings, lifecycle, operation, stop_requested, handle,
                 sourcing, observed, caller>>

\* diagnostics(), from any task, the observer's callbacks included.  It changes
\* nothing unless it looks at the silence.
ReadDiagnostics ==
  /\ Usable
  /\ diagnostics_mutex = "free"
  /\ LooksAtSilence
  /\ diagnostics_mutex' = "reader"
  /\ UNCHANGED <<settings, members, sourcing, diagnostics, worker, caller>>

ReaderSilence ==
  /\ diagnostics_mutex = "reader"
  /\ JudgeSilence
  /\ UNCHANGED <<settings, members, sourcing, worker, caller>>

-----------------------------------------------------------------------------
Start(c) == \/ SourceStarted(c) \/ SourceNotOwned(c)
            \/ SourceFailed(c) \/ StartRefused(c) \/ StartArm(c)
            \/ StartPublish(c) \/ StartRunning(c) \/ StartCreate(c)
            \/ StartAssign(c) \/ StartCreateFails(c) \/ StartUndo(c)
Stop(c) == \/ StopDiagnostics(c) \/ StopRequest(c)
           \/ StopSource(c) \/ StopJoin(c) \/ StopJoinTimeout(c)
Finish(c) == PartialCleanup(c) \/ Settle(c) \/ SettleDiagnostics(c) \/ End(c)
Destroy(c) == \/ DestroyRequest(c) \/ DestroyStop(c) \/ DestroyJoin(c)
              \/ DestroyRetry(c)
CallerStep(c) == Start(c) \/ Stop(c) \/ Finish(c) \/ Destroy(c)
Worker == \/ WorkerLoop \/ WorkerReceive \/ WorkerRecheck \/ WorkerSnapshot
          \/ WorkerSilence \/ WorkerCallback \/ WorkerLatch \/ WorkerLatchRequest
          \/ WorkerLeave \/ WorkerInactive

Next == \/ \E c \in Callers : \/ StartBegin(c) \/ StopBegin(c)
                              \/ DestroyCall(c)
                              \/ CallerStep(c) \/ Construct(c)
        \/ Worker
        \/ Configure
        \/ ReadDiagnostics
        \/ ReaderSilence

Spec == Init /\ [][Next]_vars

(***************************************************************************)
(* Tasks are scheduled, and one that waits for diagnostics_mutex_ is not   *)
(* passed over for ever by those that take it again and again; a source    *)
(* call returns, receive() within its poll interval; a stop() that has not *)
(* succeeded is repeated; and a source that is stopped again and again is  *)
(* released at last.                                                       *)
(***************************************************************************)
Releases == \E c \in Callers : CallerStep(c) /\ source # "idle"
                              /\ source' = "idle"

Fairness ==
  /\ SF_vars(Worker)
  /\ WF_vars(ReaderSilence)
  /\ \A c \in Callers : SF_vars(CallerStep(c))
  /\ SF_vars(\E c \in Callers : StopBegin(c))
  /\ SF_vars(Releases)

FairSpec == Spec /\ Fairness

-----------------------------------------------------------------------------
(***************************************************************************)
(* Properties.                                                             *)
(***************************************************************************)
Destroyed == \E c \in Callers : At(c, "destroyed")

\* A new worker is created only when the previous one is gone, and worker_ is
\* assigned only when no thread is left to join: anything else ends in
\* std::terminate or in two tasks in one runtime.
OneWorker ==
  \A c \in Callers :
    /\ At(c, "create") => worker.step = "none" /\ ~handle
    /\ At(c, "assign") => ~handle

\* The runtime is destroyed, and a stop() returns Ok, only when no worker is
\* left that could touch the runtime or call the observer again.
NoWorkerLeftBehind ==
  /\ Destroyed => worker.step = "none"
  /\ \A c \in Callers : caller[c].op = "stop" /\ caller[c].result = "Ok"
                        /\ caller[c].step \in {"settle_diagnostics", "end"}
                          => worker.step = "none"
  /\ Quiet /\ lifecycle = "Stopped" => worker.step = "none"

\* Between calls a Stopped runtime says so in its diagnostics too: no late
\* snapshot of the worker and no failed start leaves another state behind.
StoppedIsVisible ==
  Quiet /\ lifecycle = "Stopped" =>
    diagnostics.lifecycle = "Stopped" /\ diagnostics.transport = "Stopped"

\* stop() is a one-shot handoff (receive.hpp:27-32): once for a successful
\* start, twice for a partial start, and retry_stop() only for a source that
\* opted in, which then sees stop() once in any case.
StopIsOneShot ==
  /\ handoff.retried => opts_in /\ handoff.stops = 1
  /\ handoff.stops <= IF handoff.kind = "partial" /\ ~opts_in THEN 2 ELSE 1

\* A source that opted into retries is never forgotten: while it is held the
\* runtime is not Stopped between calls and still owns the cleanup.
RetainedUntilReleased ==
  opts_in /\ Quiet /\ source \in {"running", "partial"} =>
    lifecycle # "Stopped" /\ cleanup.started

\* On the ESP a stop() from a callback always finds the handle of its own
\* task and is refused (runtime.cpp:134-137); see CallbackStopRefused.
CallbackStopRefusedOnEsp ==
  platform = "esp" /\ worker.step = "callback" => handle

\* A stop() of a healthy source is no fault: what receive() reports because
\* the source is being stopped is never latched or shown to the observer,
\* since the request is published before the source is asked to stop.
StopIsNoFault ==
  worker.status = "Cancelled" => worker.step \in {"recheck", "leave", "inactive"}

\* configure() takes lifecycle_mutex_ only, while the worker reads config_ with
\* no lock and diagnostics() under another one: yet no configuration is
\* replaced while a task may be reading it.
ConfigurationIsSettled ==
  [][config' # config => worker.step = "none" /\ diagnostics_mutex = "free"]_vars

\* A stop() that timed out or failed, and a faulted run, can be stopped in
\* the end; only a partial start of a source that does not support retries
\* stays Faulted once its two attempts are used up.
StopEventuallySucceeds ==
  lifecycle \in {"Stopping", "Faulted"} /\ (opts_in \/ ~Exhausted)
    ~> lifecycle = "Stopped" \/ Exhausted \/ Destroyed

\* Once requested to stop the worker leaves, and a destructor that waits for
\* it without a bound returns.
DestructionEnds ==
  (\E c \in Callers : caller[c].op = "destroy" /\ ~At(c, "idle")) ~> Destroyed

\* "generic runtime latches source faults" (the title of a test,
\* vehicle_telemetry_runtime_tests.cpp:452): once the worker has latched a
\* fault the diagnostics report a faulted transport until the next stop().
FaultStaysVisible ==
  lifecycle = "Faulted" /\ diagnostics.lifecycle = "Faulted" =>
    diagnostics.transport = "Faulted"

\* stop() recognises a call from a callback by the handle of the worker
\* (runtime.cpp:183), in both builds; with the handle missing it goes on, and
\* once start() has ended it joins its own thread.
CallbackStopRefused == worker.step = "callback" => handle
=============================================================================

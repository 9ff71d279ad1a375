---------------------------- MODULE RuntimeProofs ----------------------------
(***************************************************************************)
(* Theorems about Runtime, for any callers and configurations, both builds *)
(* and both kinds of source.                                               *)
(***************************************************************************)
EXTENDS Runtime, TLAPS

(***************************************************************************)
(* The call in progress.  lifecycle_operation_active_ is a lock that a     *)
(* call holds across its critical sections, and the destructor overlaps no *)
(* call, so there is at most one: what the invariant says of the steps of  *)
(* callers it says of this one.                                            *)
(***************************************************************************)
Idle == [step |-> "idle", op |-> "none", result |-> "none"]

CurrentIn(calls) ==
  IF \A c \in Callers : calls[c].step = "idle" THEN Idle
  ELSE calls[CHOOSE c \in Callers : calls[c].step # "idle"]

Current == CurrentIn(caller)

InStep(steps) == Current.step \in steps

StartSteps == {"source_start", "refused", "arm", "publish", "running",
               "create", "assign", "undo", "partial", "settle",
               "settle_diagnostics", "end"}
StopSteps == {"stopping", "partial", "request", "source_stop", "join",
              "settle", "settle_diagnostics", "end"}
DestroySteps == {"destroy", "destroy_stop", "destroy_join", "destroy_retry",
                 "destroyed"}

CleanupRecord == [started : BOOLEAN,
                  ownership : {"None", "SuccessfulStart", "PartialStart"},
                  called : BOOLEAN, retry_supported : BOOLEAN,
                  result : StopResults, attempts : 0 .. 2]
DiagnosticsRecord == [lifecycle : LifecycleStates,
                      transport : TransportHealth, has_last_frame : BOOLEAN]
SourceStates == {"idle", "partial", "running", "foreign"}
HandoffRecord == [kind : {"none", "started", "partial"}, stops : 0 .. 2,
                  retried : BOOLEAN]
WorkerRecord == [step : WorkerSteps, status : ReceiveStatus \cup {"none"}]
CallRecord == [step : CallerSteps, result : StopResults \cup {"none"},
               op : {"none", "start", "stop", "destroy"}]

OneCall ==
  /\ \A c \in Callers : At(c, "idle") => caller[c] = Idle
  /\ \A c, d \in Callers : ~At(c, "idle") /\ ~At(d, "idle") => c = d

(***************************************************************************)
(* The inductive invariant, by subject.                                    *)
(***************************************************************************)
\* A call is at a step of its operation, and holds the lock unless it is the
\* destructor.
CallInv ==
  /\ Current.op = "none" => InStep({"idle"})
  /\ Current.op = "start" => InStep(StartSteps)
  /\ Current.op = "stop" => InStep(StopSteps)
  /\ Current.op = "destroy" => InStep(DestroySteps)
  /\ operation => Current.op \in {"start", "stop"}
  /\ Current.op \in {"start", "stop"} => operation

\* What cleanup remembers fits the step of the call that works on it.
CleanupInv ==
  /\ cleanup.started => cleanup.ownership # "None"
  /\ cleanup.ownership # "None" =>
       cleanup.started /\ cleanup.retry_supported = opts_in
  /\ cleanup.ownership = "None" =>
       ~cleanup.called /\ cleanup.result = "Ok" /\ cleanup.attempts = 0
  /\ cleanup.ownership = "SuccessfulStart" => (cleanup.called => opts_in)
  /\ cleanup.ownership = "PartialStart" =>
       /\ cleanup.called => cleanup.attempts > 0
       /\ ~cleanup.called => cleanup.attempts = 0
       /\ cleanup.called => cleanup.result \notin {"Ok", "NotRunning"}
  /\ lifecycle = "Stopped" /\ cleanup.ownership # "None" =>
       InStep({"partial", "settle", "publish", "running"})
  /\ InStep({"source_start", "refused", "arm"}) => cleanup.ownership = "None"
  /\ InStep({"arm"}) => cleanup.retry_supported = opts_in
  /\ InStep({"publish", "running", "create", "undo"}) =>
       cleanup.ownership = "SuccessfulStart" /\ ~cleanup.called
  /\ InStep({"assign"}) => cleanup.ownership = "SuccessfulStart"
  /\ InStep({"partial"}) => cleanup.ownership = "PartialStart"
  /\ InStep({"request", "source_stop"}) => cleanup.ownership # "PartialStart"
  /\ InStep({"join", "settle", "settle_diagnostics"})
       /\ Current.result = "Ok" => cleanup.ownership = "None"

\* No worker, no handle of one, and none announced.
Absent == worker.step = "none" /\ ~handle /\ ~worker_active

\* Where a worker may be, and what is known of it where.
WorkerInv ==
  /\ worker.step # "none" => worker_active /\ lifecycle # "Stopped"
  /\ handle => lifecycle # "Stopped"
  /\ platform = "esp" =>
       /\ handle => worker.step \notin {"none", "inactive"}
       /\ worker.step \notin {"none", "inactive"} => handle
  /\ platform # "esp" /\ worker.step # "none" => handle \/ InStep({"assign"})
  /\ worker_active /\ worker.step = "none" =>
       InStep({"publish", "running", "create"})
  /\ cleanup.ownership = "PartialStart" => Absent
  /\ InStep({"source_start", "refused", "arm", "undo", "partial", "settle",
             "settle_diagnostics", "destroy_retry", "destroyed"}) => Absent
  /\ InStep({"publish", "running", "create"}) =>
       worker.step = "none" /\ ~handle /\ worker_active
  /\ InStep({"create"}) => lifecycle = "Running"
  /\ InStep({"assign"}) =>
       platform # "esp" /\ ~handle /\ lifecycle # "Stopped"
  /\ Current.op = "stop" /\ InStep({"end"}) /\ Current.result # "Timeout" =>
       Absent

\* The calls of a source, by the ownership they belong to.
HandoffInv ==
  /\ StopIsOneShot
  /\ cleanup.ownership = "SuccessfulStart" =>
       /\ handoff.kind = "started"
       /\ cleanup.called => handoff.stops = 1
       /\ ~cleanup.called => handoff.stops = 0
  /\ cleanup.ownership = "PartialStart" =>
       /\ handoff.kind = "partial"
       /\ ~opts_in => handoff.stops = cleanup.attempts
       /\ opts_in => /\ cleanup.called => handoff.stops = 1
                     /\ ~cleanup.called => handoff.stops = 0
  /\ InStep({"arm"}) =>
       handoff.kind = "started" /\ handoff.stops = 0 /\ ~handoff.retried

\* The source is not forgotten.
SourceInv ==
  opts_in /\ source \in {"running", "partial"} =>
    cleanup.started \/ InStep({"arm"})

\* The request to stop precedes every stop of a source that a worker uses.
RequestInv ==
  /\ InStep({"source_stop", "join", "destroy_stop", "destroy_join",
             "destroy_retry"}) => stop_requested
  /\ worker.step # "none" /\ handoff.stops > 0 => stop_requested
  /\ worker.status = "Cancelled" =>
       stop_requested /\ worker.step \in {"recheck", "leave", "inactive"}
  /\ worker.step \in {"recheck", "snapshot", "silence", "callback"} =>
       worker.status # "none"

\* Who may write the diagnostics, and when they show a stop.
DiagnosticsInv ==
  /\ diagnostics_mutex = "worker" => worker.step = "silence"
  /\ worker.step = "silence" => diagnostics_mutex = "worker"
  /\ diagnostics_mutex = "reader" =>
       /\ Current.op # "destroy"
       /\ lifecycle \in {"Running", "Faulted"}
            \/ InStep({"stopping", "settle_diagnostics"})
  /\ lifecycle = "Stopped" =>
       \/ InStep({"running", "settle_diagnostics"})
       \/ /\ diagnostics.lifecycle = "Stopped"
          /\ diagnostics.transport = "Stopped"
  /\ InStep({"stopping"}) => lifecycle # "Stopped"
  /\ InStep({"settle_diagnostics"}) /\ lifecycle = "Stopped" =>
       Current.result = "Ok"

Consistent ==
  /\ CallInv
  /\ CleanupInv
  /\ WorkerInv
  /\ HandoffInv
  /\ SourceInv
  /\ RequestInv
  /\ DiagnosticsInv

IInv == TypeOK /\ OneCall /\ Consistent

-----------------------------------------------------------------------------
\* What the moves of a caller make of the call in progress.

\* The only caller that is not idle makes the current call.
LEMMA OnlyCall ==
  ASSUME NEW calls, NEW c \in Callers, calls[c].step # "idle",
         \A d \in Callers : d # c => calls[d].step = "idle"
  PROVE  CurrentIn(calls) = calls[c]
<1> DEFINE d == CHOOSE e \in Callers : calls[e].step # "idle"
<1>1. d \in Callers /\ calls[d].step # "idle"
  OBVIOUS
<1>2. d = c
  BY <1>1
<1> QED
  BY <1>2 DEF CurrentIn

\* A call in progress is the current one.
LEMMA CurrentIs ==
  ASSUME OneCall, NEW c \in Callers, ~At(c, "idle")
  PROVE  Current = caller[c] /\ \A d \in Callers : d # c => At(d, "idle")
<1>1. \A d \in Callers : d # c => At(d, "idle")
  BY DEF OneCall
<1> QED
  BY <1>1, OnlyCall DEF Current, At

\* With every caller idle there is none.
LEMMA NoneCurrent ==
  ASSUME Quiet
  PROVE  Current = Idle
BY DEF Current, CurrentIn, Quiet, At

\* The current call has a type.
LEMMA CurrentType ==
  ASSUME TypeOK, OneCall
  PROVE  Current \in CallRecord
<1>1. CASE Quiet
  BY <1>1, NoneCurrent DEF Idle, CallerSteps, CallRecord
<1>2. CASE ~Quiet
  <2>1. PICK c \in Callers : ~At(c, "idle")
    BY <1>2 DEF Quiet
  <2>2. Current = caller[c]
    BY <2>1, CurrentIs
  <2> QED
    BY <2>2 DEF TypeOK, CallRecord
<1> QED
  BY <1>1, <1>2

\* With no lock held and no destructor at work, every caller is idle.
LEMMA UsableIsQuiet ==
  ASSUME OneCall, CallInv, TypeOK, Usable, ~operation
  PROVE  Quiet
<1> SUFFICES ASSUME NEW c \in Callers, ~At(c, "idle")
             PROVE  FALSE
  BY DEF Quiet
<1>1. Current = caller[c]
  BY CurrentIs
<1>2. caller[c].op \in {"none", "start", "stop", "destroy"}
  BY DEF TypeOK
<1>3. caller[c].op \notin {"start", "stop"}
  BY <1>1 DEF CallInv
<1>4. caller[c].op # "destroy"
  BY DEF Usable
<1> QED
  BY <1>1, <1>2, <1>3, <1>4 DEF CallInv, InStep, At

\* One caller moves, the others being idle: its new record is the current
\* call.
LEMMA Moves ==
  ASSUME OneCall, TypeOK, NEW c \in Callers,
         \A d \in Callers : d # c => At(d, "idle"),
         NEW k \in CallRecord, k.step = "idle" => k = Idle,
         caller' = [caller EXCEPT ![c] = k]
  PROVE  OneCall' /\ Current' = k /\ caller' \in [Callers -> CallRecord]
<1>1. caller'[c] = k /\ \A d \in Callers : d # c => caller'[d] = caller[d]
  BY DEF TypeOK
<1>2. OneCall'
  BY <1>1 DEF OneCall, At
<1>3. Current' = k
  <2>1. CASE k.step = "idle"
    BY <1>1, <2>1 DEF Current, CurrentIn, At
  <2>2. CASE k.step # "idle"
    BY <1>1, <2>2, OnlyCall DEF Current, At
  <2> QED
    BY <2>1, <2>2
<1>4. caller' \in [Callers -> CallRecord]
  BY DEF TypeOK, CallRecord
<1> QED
  BY <1>2, <1>3, <1>4

\* Such are the moves of a call in progress.
Moved(step, op, result) ==
  /\ OneCall' /\ caller' \in [Callers -> CallRecord]
  /\ Current'.step = step
  /\ Current'.op = op
  /\ Current'.result = result

\* Go() moves the call in progress to its next step,
LEMMA Goes ==
  ASSUME OneCall, TypeOK, NEW c \in Callers, ~At(c, "idle"),
         NEW step \in CallerSteps \ {"idle"}, Go(c, step)
  PROVE  Moved(step, Current.op, Current.result)
<1> DEFINE k == [step |-> step, op |-> Current.op, result |-> Current.result]
<1>1. Current = caller[c] /\ \A d \in Callers : d # c => At(d, "idle")
  BY CurrentIs
<1>2. k \in CallRecord /\ k.step # "idle"
  BY CurrentType DEF CallRecord
<1>3. caller' = [caller EXCEPT ![c] = k]
  <2>1. caller[c] \in CallRecord
    BY DEF TypeOK, CallRecord
  <2>2. k = [caller[c] EXCEPT !.step = step]
    BY <1>1, <2>1 DEF CallRecord
  <2> QED
    BY <2>2 DEF Go
<1> HIDE DEF k
<1>4. OneCall' /\ Current' = k /\ caller' \in [Callers -> CallRecord]
  BY <1>1, <1>2, <1>3, Moves
<1> QED
  BY <1>4 DEF Moved, k

\* GoWith() notes a result with it,
LEMMA GoesWith ==
  ASSUME OneCall, TypeOK, NEW c \in Callers, ~At(c, "idle"),
         NEW step \in CallerSteps \ {"idle"},
         NEW result \in StopResults \cup {"none"}, GoWith(c, step, result)
  PROVE  Moved(step, Current.op, result)
<1> DEFINE k == [step |-> step, op |-> Current.op, result |-> result]
<1>1. Current = caller[c] /\ \A d \in Callers : d # c => At(d, "idle")
  BY CurrentIs
<1>2. k \in CallRecord /\ k.step # "idle"
  BY CurrentType DEF CallRecord
<1>3. caller' = [caller EXCEPT ![c] = k]
  <2>1. caller[c] \in CallRecord
    BY DEF TypeOK, CallRecord
  <2> DEFINE r == [caller[c] EXCEPT !.step = step]
  <2>2. r \in CallRecord /\ r.step = step /\ r.op = Current.op
    BY <1>1, <2>1 DEF CallRecord
  <2> HIDE DEF r
  <2>3. k = [r EXCEPT !.result = result]
    BY <2>2 DEF CallRecord
  <2> HIDE DEF k
  <2>4. /\ caller' = [caller EXCEPT ![c].step = step, ![c].result = result]
        /\ caller \in [Callers -> CallRecord]
    BY DEF GoWith, TypeOK, CallRecord
  <2>5. caller' = [caller EXCEPT ![c] = [r EXCEPT !.result = result]]
    BY <2>4 DEF r
  <2> QED
    BY <2>3, <2>5
<1> HIDE DEF k
<1>4. OneCall' /\ Current' = k /\ caller' \in [Callers -> CallRecord]
  BY <1>1, <1>2, <1>3, Moves
<1> QED
  BY <1>4 DEF Moved, k

\* Return() ends it,
LEMMA Returns ==
  ASSUME OneCall, TypeOK, NEW c \in Callers, ~At(c, "idle"), Return(c)
  PROVE  Moved("idle", "none", "none")
<1>1. Current = caller[c] /\ \A d \in Callers : d # c => At(d, "idle")
  BY CurrentIs
<1>2. Idle \in CallRecord
  BY DEF CallRecord, CallerSteps, Idle
<1>3. caller' = [caller EXCEPT ![c] = Idle]
  BY DEF Return, Idle
<1>4. OneCall' /\ Current' = Idle /\ caller' \in [Callers -> CallRecord]
  BY <1>1, <1>2, <1>3, Moves
<1> QED
  BY <1>4 DEF Moved, Idle

\* and Call() begins one where there is none.
LEMMA Calls ==
  ASSUME OneCall, TypeOK, NEW c \in Callers, Quiet,
         NEW step \in CallerSteps \ {"idle"},
         NEW op \in {"start", "stop", "destroy"}, Call(c, op, step)
  PROVE  Moved(step, op, "none")
<1> DEFINE k == [step |-> step, op |-> op, result |-> "none"]
<1>1. \A d \in Callers : d # c => At(d, "idle")
  BY DEF Quiet
<1>2. k \in CallRecord /\ k.step # "idle"
  BY DEF CallRecord
<1>3. caller' = [caller EXCEPT ![c] = k]
  BY DEF Call
<1> HIDE DEF k
<1>4. OneCall' /\ Current' = k /\ caller' \in [Callers -> CallRecord]
  BY <1>1, <1>2, <1>3, Moves
<1> QED
  BY <1>4 DEF Moved, k

-----------------------------------------------------------------------------
\* What the critical sections and the calls of the source leave behind.

\* The diagnostics of a step that sets both states.
LEMMA DiagnosticsSet ==
  ASSUME TypeOK, NEW state \in LifecycleStates,
         NEW transport \in TransportHealth, SetDiagnostic(state, transport)
  PROVE  /\ diagnostics' \in DiagnosticsRecord
         /\ diagnostics'.lifecycle = state
         /\ diagnostics'.transport = transport
         /\ diagnostics_mutex = "free" /\ diagnostics_mutex' = "free"
<1> DEFINE d == [diagnostics EXCEPT !.lifecycle = state]
<1>1. d \in DiagnosticsRecord /\ d.lifecycle = state
  BY DEF TypeOK, DiagnosticsRecord
<1>2. diagnostics' = [d EXCEPT !.transport = transport]
  BY DEF SetDiagnostic, Diagnose
<1> HIDE DEF d
<1> QED
  BY <1>1, <1>2 DEF SetDiagnostic, Diagnose, DiagnosticsRecord

\* attempt_source_stop(): nothing is done, or the source is asked; then its
\* cleanup is over, and a source that opted in is released, or it is kept.
NothingStopped(result) ==
  StopsNothing /\ UNCHANGED <<sourcing>> /\ result = cleanup.result

StopCalled == IF cleanup.called THEN CallsRetryStop ELSE CallsStop

SourceForgotten ==
  /\ ~StopsNothing /\ StopCalled
  /\ source' \in {source, "idle"}
  /\ cleanup' = Released /\ (opts_in => source' = "idle")

SourceKept(result) ==
  /\ ~StopsNothing /\ StopCalled
  /\ source' \in {source, "idle"}
  /\ opts_in
  /\ cleanup' = [cleanup EXCEPT !.called = TRUE, !.result = result]
  /\ result \notin {"Ok", "NotRunning"}

SourceAttempted(result) ==
  NothingStopped(result) \/ SourceForgotten \/ SourceKept(result)

\* These are the outcomes of attempt_source_stop(), with the step the call
\* goes on with.
LEMMA SourceStopAttempted ==
  ASSUME IInv, NEW c \in Callers, ~At(c, "idle"),
         NEW onTimeout \in CallerSteps \ {"idle"},
         NEW next \in CallerSteps \ {"idle"},
         AttemptSourceStop(c, onTimeout, next)
  PROVE  \E result \in StopResults :
           /\ Moved(IF result = "Timeout" THEN onTimeout ELSE next,
                    Current.op, result)
           /\ SourceAttempted(result)
<1> USE DEF IInv
<1>1. CASE StopsNothing
  <2>1. cleanup.result \in StopResults
    BY DEF TypeOK
  <2>2. /\ GoWith(c, IF cleanup.result = "Timeout" THEN onTimeout ELSE next,
                  cleanup.result)
        /\ UNCHANGED <<sourcing>>
    BY <1>1 DEF AttemptSourceStop
  <2>3. Moved(IF cleanup.result = "Timeout" THEN onTimeout ELSE next,
              Current.op, cleanup.result)
    BY <2>1, <2>2, GoesWith
  <2> QED
    BY <1>1, <2>1, <2>2, <2>3 DEF SourceAttempted, NothingStopped
<1>2. CASE ~StopsNothing
  <2>1. PICK result \in StopResults :
          /\ SourceStops(result)
          /\ cleanup' = AfterSourceStop(result)
          /\ GoWith(c, IF result = "Timeout" THEN onTimeout ELSE next,
                    ReportedStop(result))
          /\ IF cleanup.called THEN CallsRetryStop ELSE CallsStop
    BY <1>2 DEF AttemptSourceStop
  <2> DEFINE reported == ReportedStop(result)
  <2>2. /\ reported \in StopResults
        /\ reported = "Timeout" <=> result = "Timeout"
    BY DEF ReportedStop, StopResults
  <2>3. Moved(IF reported = "Timeout" THEN onTimeout ELSE next, Current.op,
              reported)
    BY <2>1, <2>2, GoesWith
  <2>4. cleanup.retry_supported = opts_in
    BY <1>2 DEF StopsNothing, Consistent, CleanupInv
  <2>5. SourceAttempted(reported)
    BY <1>2, <2>1, <2>4
       DEF SourceAttempted, SourceForgotten, SourceKept, StopCalled,
           SourceStops, StopReport, AfterSourceStop, ReportedStop
  <2> QED
    BY <2>2, <2>3, <2>5
<1> QED
  BY <1>1, <1>2

\* attempt_partial_start_cleanup(): the attempts are used up, or the source
\* is asked; then it is released, or it is kept and the attempt counts.
AttemptsUsedUp(result) ==
  Exhausted /\ UNCHANGED <<sourcing>> /\ result = cleanup.result

CleanupCalled == IF cleanup.retry_supported /\ cleanup.called
                 THEN CallsRetryStop ELSE CallsStop

PartialReleased(result) ==
  /\ ~Exhausted /\ CleanupCalled
  /\ cleanup' = Released /\ source' = "idle" /\ result = "Ok"

PartialKept(result) ==
  /\ ~Exhausted /\ CleanupCalled
  /\ source' \in {source, "idle"}
  /\ cleanup' = [cleanup EXCEPT !.called = TRUE, !.result = result,
                                !.attempts = IF @ < 2 THEN @ + 1 ELSE 2]
  /\ result \notin {"Ok", "NotRunning"}

PartialAttempted(result) ==
  AttemptsUsedUp(result) \/ PartialReleased(result) \/ PartialKept(result)

\* These are the outcomes of attempt_partial_start_cleanup().
LEMMA PartialCleanupAttempted ==
  ASSUME IInv, NEW c \in Callers, ~At(c, "idle"),
         NEW next \in CallerSteps \ {"idle"}, AttemptPartialCleanup(c, next)
  PROVE  \E result \in StopResults :
           Moved(next, Current.op, result) /\ PartialAttempted(result)
<1> USE DEF IInv
<1>1. CASE Exhausted
  <2>1. cleanup.result \in StopResults
    BY DEF TypeOK
  <2>2. GoWith(c, next, cleanup.result) /\ UNCHANGED <<sourcing>>
    BY <1>1 DEF AttemptPartialCleanup
  <2> QED
    BY <1>1, <2>1, <2>2, GoesWith DEF PartialAttempted, AttemptsUsedUp
<1>2. CASE ~Exhausted
  <2>1. PICK result \in StopResults :
          /\ SourceStops(result)
          /\ cleanup' = AfterPartialCleanup(result)
          /\ GoWith(c, next, IF result = "NotRunning" THEN "Ok" ELSE result)
          /\ IF cleanup.retry_supported /\ cleanup.called THEN CallsRetryStop
                                                          ELSE CallsStop
    BY <1>2 DEF AttemptPartialCleanup
  <2> DEFINE reported == IF result = "NotRunning" THEN "Ok" ELSE result
  <2>2. reported \in StopResults
    BY DEF StopResults
  <2>3. Moved(next, Current.op, reported)
    BY <2>1, <2>2, GoesWith
  <2>4. PartialAttempted(reported)
    BY <1>2, <2>1
       DEF PartialAttempted, PartialReleased, PartialKept, CleanupCalled,
           SourceStops, StopReport, AfterPartialCleanup
  <2> QED
    BY <2>2, <2>3, <2>4
<1> QED
  BY <1>1, <1>2

\* The history of the calls of a source keeps its type while stop() is not
\* called more than twice.
LEMMA StopCallsTypes ==
  ASSUME handoff \in HandoffRecord
  PROVE  /\ CallsRetryStop => handoff' \in HandoffRecord
         /\ handoff.stops < 2 /\ CallsStop => handoff' \in HandoffRecord
<1>1. handoff.stops < 2 => handoff.stops + 1 \in 0 .. 2
  BY DEF HandoffRecord
<1> QED
  BY <1>1 DEF CallsRetryStop, CallsStop, HandoffRecord

\* An attempt keeps the types.
LEMMA SourceAttemptedTypes ==
  ASSUME IInv, NEW result \in StopResults, SourceAttempted(result)
  PROVE  /\ cleanup' \in CleanupRecord /\ source' \in SourceStates
         /\ handoff' \in HandoffRecord
<1>1. Released \in CleanupRecord
  BY DEF Released, StopResults, CleanupRecord
<1>2. /\ cleanup \in CleanupRecord /\ handoff \in HandoffRecord
      /\ source \in SourceStates
  BY DEF IInv, TypeOK, CleanupRecord, HandoffRecord, SourceStates
<1>3. ~StopsNothing /\ ~cleanup.called => handoff.stops = 0
  BY DEF StopsNothing, IInv, Consistent, HandoffInv
<1>4. cleanup' \in CleanupRecord
  BY <1>1, <1>2 DEF SourceAttempted, NothingStopped, SourceForgotten,
                    SourceKept, CleanupRecord, sourcing
<1>5. handoff' \in HandoffRecord
  BY <1>2, <1>3, StopCallsTypes
     DEF SourceAttempted, NothingStopped, SourceForgotten, SourceKept,
         StopCalled, sourcing
<1> QED
  BY <1>2, <1>4, <1>5 DEF SourceAttempted, NothingStopped,
     SourceForgotten, SourceKept, sourcing, SourceStates

\* So does one after a partial start.
LEMMA PartialAttemptedTypes ==
  ASSUME IInv, cleanup.ownership = "PartialStart",
         NEW result \in StopResults, PartialAttempted(result)
  PROVE  /\ cleanup' \in CleanupRecord /\ source' \in SourceStates
         /\ handoff' \in HandoffRecord
<1>1. Released \in CleanupRecord
  BY DEF Released, StopResults, CleanupRecord
<1>2. /\ cleanup \in CleanupRecord /\ handoff \in HandoffRecord
      /\ source \in SourceStates
  BY DEF IInv, TypeOK, CleanupRecord, HandoffRecord, SourceStates
<1>3. ~Exhausted /\ ~(cleanup.retry_supported /\ cleanup.called)
        => handoff.stops < 2
  BY <1>2 DEF Exhausted, IInv, Consistent, HandoffInv, CleanupInv,
              CleanupRecord
<1>4. cleanup' \in CleanupRecord
  <2> DEFINE attempts == IF cleanup.attempts < 2 THEN cleanup.attempts + 1
                         ELSE 2
  <2>1. attempts \in 0 .. 2
    BY <1>2 DEF CleanupRecord
  <2> HIDE DEF attempts
  <2>2. [cleanup EXCEPT !.called = TRUE, !.result = result,
                        !.attempts = attempts] \in CleanupRecord
    BY <1>2, <2>1 DEF CleanupRecord
  <2>3. \/ cleanup' = Released \/ cleanup' = cleanup
        \/ cleanup' = [cleanup EXCEPT !.called = TRUE, !.result = result,
                                      !.attempts = attempts]
    BY DEF PartialAttempted, AttemptsUsedUp, PartialReleased, PartialKept,
           sourcing, attempts
  <2> QED
    BY <1>1, <1>2, <2>2, <2>3
<1>5. handoff' \in HandoffRecord
  BY <1>2, <1>3, StopCallsTypes
     DEF PartialAttempted, AttemptsUsedUp, PartialReleased, PartialKept,
         CleanupCalled, sourcing
<1> QED
  BY <1>2, <1>4, <1>5 DEF PartialAttempted, AttemptsUsedUp,
     PartialReleased, PartialKept, sourcing, SourceStates

-----------------------------------------------------------------------------
\* Every step of start() keeps the invariant: each establishes what the next
\* one relies on.
LEMMA StartPreserves ==
  ASSUME IInv, NEW c \in Callers, Start(c)
  PROVE  IInv'
<1> USE DEF Consistent, CallInv, CleanupInv, WorkerInv, HandoffInv,
            SourceInv, RequestInv, DiagnosticsInv, StopIsOneShot, Absent,
            InStep, StartSteps, StopSteps, DestroySteps, settings, members,
            run, sourcing, observed
<1>0. TypeOK /\ OneCall
  BY DEF IInv
<1>1. NoHandoff \in HandoffRecord
  BY DEF NoHandoff, HandoffRecord
<1>2. ASSUME SourceStarted(c)
     PROVE  IInv'
  <2>1. /\ Current.step = "source_start"
        /\ Moved("arm", Current.op, Current.result)
    BY <1>2, CurrentIs, Goes DEF IInv, SourceStarted, At, CallerSteps
  <2>2. /\ source' \in SourceStates /\ cleanup' \in CleanupRecord
        /\ handoff' \in HandoffRecord
        /\ UNCHANGED <<platform, opts_in, config, lifecycle, operation,
                       stop_requested, worker_active, handle, diagnostics,
                       diagnostics_mutex, worker>>
    BY <1>0, <1>2, <1>1
       DEF SourceStarted, TypeOK, SourceStates, CleanupRecord, HandoffRecord
  <2>3. TypeOK'
    BY <1>0, <2>1, <2>2
       DEF TypeOK, Moved, CallRecord, SourceStates, CleanupRecord,
           HandoffRecord
  <2>4. Consistent'
    BY <1>2, <2>1 DEF IInv, SourceStarted, Moved, TypeOK, NoHandoff
  <2> QED
    BY <2>1, <2>3, <2>4 DEF IInv, Moved
<1>3. ASSUME SourceNotOwned(c)
     PROVE  IInv'
  <2>1. /\ Current.step = "source_start"
        /\ Moved("refused", Current.op, Current.result)
    BY <1>3, CurrentIs, Goes DEF IInv, SourceNotOwned, At, CallerSteps
  <2>2. /\ cleanup' \in CleanupRecord
        /\ UNCHANGED <<platform, opts_in, config, lifecycle, operation,
                       stop_requested, worker_active, handle, source,
                       handoff, diagnostics, diagnostics_mutex, worker>>
    BY <1>0, <1>3 DEF SourceNotOwned, TypeOK, CleanupRecord
  <2>3. TypeOK'
    BY <1>0, <2>1, <2>2 DEF TypeOK, Moved, CallRecord, CleanupRecord
  <2>4. Consistent'
    BY <1>3, <2>1 DEF IInv, SourceNotOwned, Moved, TypeOK
  <2> QED
    BY <2>1, <2>3, <2>4 DEF IInv, Moved
<1>4. ASSUME SourceFailed(c)
     PROVE  IInv'
  <2>1. /\ Current.step = "source_start"
        /\ Moved("partial", Current.op, Current.result)
    BY <1>4, CurrentIs, Goes DEF IInv, SourceFailed, At, CallerSteps
  <2>2. source' \in SourceStates
    BY <1>0, <1>4 DEF SourceFailed, TypeOK, SourceStates
  <2>3. handoff' \in HandoffRecord
    BY <1>4, <1>1 DEF SourceFailed, HandoffRecord
  <2>4. cleanup' \in CleanupRecord
    <3>1. 0 \in 0 .. 2 /\ cleanup \in CleanupRecord /\ opts_in \in BOOLEAN
      BY <1>0 DEF TypeOK, CleanupRecord
    <3> QED
      BY <1>4, <3>1 DEF SourceFailed, CleanupRecord
  <2>5. UNCHANGED <<platform, opts_in, config, lifecycle, operation,
                    stop_requested, worker_active, handle, diagnostics,
                    diagnostics_mutex, worker>>
    BY <1>4 DEF SourceFailed
  <2>6. TypeOK'
    BY <1>0, <2>1, <2>2, <2>3, <2>4, <2>5
       DEF TypeOK, Moved, CallRecord, CleanupRecord, SourceStates,
           HandoffRecord
  <2>7. Consistent'
    BY <1>4, <2>1 DEF IInv, SourceFailed, Moved, TypeOK, NoHandoff
  <2> QED
    BY <2>1, <2>6, <2>7 DEF IInv, Moved
<1>5. ASSUME StartRefused(c)
     PROVE  IInv'
  <2>1. Current.step = "refused" /\ Moved("end", Current.op, Current.result)
    BY <1>5, CurrentIs, Goes DEF IInv, StartRefused, At, CallerSteps
  <2>2. /\ diagnostics' \in DiagnosticsRecord
        /\ diagnostics'.lifecycle = "Stopped"
        /\ diagnostics'.transport = "Stopped"
        /\ diagnostics_mutex = "free" /\ diagnostics_mutex' = "free"
    BY <1>5, DiagnosticsSet
       DEF IInv, StartRefused, LifecycleStates, TransportHealth
  <2>3. /\ diagnostics' \in DiagnosticsRecord
        /\ diagnostics_mutex' \in {"free", "reader", "worker"}
        /\ UNCHANGED <<platform, opts_in, config, lifecycle, operation,
                       stop_requested, worker_active, handle, cleanup,
                       source, handoff, worker>>
    BY <1>0, <1>5, <2>2 DEF StartRefused, TypeOK, DiagnosticsRecord
  <2>4. TypeOK'
    BY <1>0, <2>1, <2>3 DEF TypeOK, Moved, CallRecord, DiagnosticsRecord
  <2>5. Consistent'
    BY <1>5, <2>1, <2>2 DEF IInv, StartRefused, Moved, TypeOK
  <2> QED
    BY <2>1, <2>4, <2>5 DEF IInv, Moved
<1>6. ASSUME StartArm(c)
     PROVE  IInv'
  <2>1. Current.step = "arm" /\ Moved("publish", Current.op, Current.result)
    BY <1>6, CurrentIs, Goes DEF IInv, StartArm, At, CallerSteps
  <2>2. /\ stop_requested' \in BOOLEAN /\ worker_active' \in BOOLEAN
        /\ cleanup' \in CleanupRecord
        /\ UNCHANGED <<platform, opts_in, config, lifecycle, operation,
                       handle, source, handoff, diagnostics,
                       diagnostics_mutex, worker>>
    BY <1>0, <1>6 DEF StartArm, TypeOK, CleanupRecord, StopResults
  <2>3. TypeOK'
    BY <1>0, <2>1, <2>2 DEF TypeOK, Moved, CallRecord, CleanupRecord
  <2>4. Consistent'
    BY <1>6, <2>1 DEF IInv, StartArm, Moved, TypeOK, StopResults
  <2> QED
    BY <2>1, <2>3, <2>4 DEF IInv, Moved
<1>7. ASSUME StartPublish(c)
     PROVE  IInv'
  <2>1. /\ Current.step = "publish"
        /\ Moved("running", Current.op, Current.result)
    BY <1>7, CurrentIs, Goes DEF IInv, StartPublish, At, CallerSteps
  <2>2. /\ diagnostics' \in DiagnosticsRecord
        /\ diagnostics_mutex' \in {"free", "reader", "worker"}
        /\ UNCHANGED <<platform, opts_in, config, lifecycle, operation,
                       stop_requested, worker_active, handle, cleanup,
                       source, handoff, worker>>
    BY <1>0, <1>7
       DEF StartPublish, TypeOK, DiagnosticsRecord, Diagnose, LifecycleStates,
           TransportHealth
  <2>3. TypeOK'
    BY <1>0, <2>1, <2>2 DEF TypeOK, Moved, CallRecord, DiagnosticsRecord
  <2>4. Consistent'
    BY <1>7, <2>1
       DEF IInv, StartPublish, Moved, TypeOK, Diagnose, LifecycleStates,
           TransportHealth
  <2> QED
    BY <2>1, <2>3, <2>4 DEF IInv, Moved
<1>8. ASSUME StartRunning(c)
     PROVE  IInv'
  <2>1. Current.step = "running" /\ Moved("create", Current.op, Current.result)
    BY <1>8, CurrentIs, Goes DEF IInv, StartRunning, At, CallerSteps
  <2>2. /\ lifecycle' \in LifecycleStates
        /\ UNCHANGED <<platform, opts_in, config, operation, stop_requested,
                       worker_active, handle, cleanup, source, handoff,
                       diagnostics, diagnostics_mutex, worker>>
    BY <1>0, <1>8 DEF StartRunning, TypeOK, LifecycleStates
  <2>3. TypeOK'
    BY <1>0, <2>1, <2>2 DEF TypeOK, Moved, CallRecord
  <2>4. Consistent'
    BY <1>8, <2>1 DEF IInv, StartRunning, Moved, TypeOK, LifecycleStates
  <2> QED
    BY <2>1, <2>3, <2>4 DEF IInv, Moved
<1>9. ASSUME StartCreate(c)
     PROVE  IInv'
  <2>1. /\ Current.step = "create"
        /\ Moved(IF HandleBeforeRun THEN "end" ELSE "assign",
                 Current.op, Current.result)
    BY <1>9, CurrentIs, Goes DEF IInv, StartCreate, At, CallerSteps
  <2>2. /\ Current.step = "create"
        /\ HandleBeforeRun => Moved("end", Current.op, Current.result)
        /\ ~HandleBeforeRun => Moved("assign", Current.op, Current.result)
    BY <2>1
  <2>3. /\ handle' \in BOOLEAN /\ worker' \in WorkerRecord
        /\ UNCHANGED <<platform, opts_in, config, lifecycle, operation,
                       stop_requested, worker_active, cleanup, source,
                       handoff, diagnostics, diagnostics_mutex>>
    BY <1>0, <1>9
       DEF StartCreate, TypeOK, WorkerRecord, WorkerSteps, HandleBeforeRun,
           NoWorker
  <2>4. TypeOK'
    BY <1>0, <2>1, <2>3 DEF TypeOK, Moved, CallRecord, WorkerRecord
  <2>5. /\ worker.step = "none" /\ ~handle /\ worker_active
        /\ worker'.step = "loop" /\ worker'.status = "none"
        /\ handoff.stops = 0
    BY <1>9, <2>2 DEF IInv, StartCreate, NoWorker, TypeOK
  <2>6. lifecycle = "Running"
    BY <2>2 DEF IInv
  <2>7. UNCHANGED <<settings, lifecycle, operation, stop_requested,
                    worker_active, sourcing, observed>>
    BY <1>9 DEF StartCreate
  <2>8. Consistent'
    <3>1. CASE HandleBeforeRun
      <4>1. Moved("end", Current.op, Current.result)
        BY <2>2, <3>1
      <4>2. handle' /\ platform = "esp"
        BY <1>9, <3>1 DEF StartCreate, HandleBeforeRun
      <4> QED
        BY <2>2, <2>5, <2>6, <2>7, <4>1, <4>2 DEF IInv, Moved
    <3>2. CASE ~HandleBeforeRun
      <4>1. Moved("assign", Current.op, Current.result)
        BY <2>2, <3>2
      <4>2. handle' = handle /\ platform # "esp"
        BY <1>9, <3>2 DEF StartCreate, HandleBeforeRun
      <4> QED
        BY <2>2, <2>5, <2>6, <2>7, <4>1, <4>2 DEF IInv, Moved
    <3> QED
      BY <3>1, <3>2
  <2> QED
    BY <2>1, <2>4, <2>8 DEF IInv, Moved
<1>10. ASSUME StartAssign(c)
     PROVE  IInv'
  <2>1. Current.step = "assign" /\ Moved("end", Current.op, Current.result)
    BY <1>10, CurrentIs, Goes DEF IInv, StartAssign, At, CallerSteps
  <2>2. /\ handle' \in BOOLEAN
        /\ UNCHANGED <<platform, opts_in, config, lifecycle, operation,
                       stop_requested, worker_active, cleanup, source,
                       handoff, diagnostics, diagnostics_mutex, worker>>
    BY <1>0, <1>10 DEF StartAssign, TypeOK
  <2>3. TypeOK'
    BY <1>0, <2>1, <2>2 DEF TypeOK, Moved, CallRecord
  <2>4. Consistent'
    BY <1>10, <2>1 DEF IInv, StartAssign, Moved, TypeOK
  <2> QED
    BY <2>1, <2>3, <2>4 DEF IInv, Moved
<1>11. ASSUME StartCreateFails(c)
     PROVE  IInv'
  <2>1. Current.step = "create" /\ Moved("undo", Current.op, Current.result)
    BY <1>11, CurrentIs, Goes DEF IInv, StartCreateFails, At, CallerSteps
  <2>2. /\ stop_requested' \in BOOLEAN /\ worker_active' \in BOOLEAN
        /\ UNCHANGED <<platform, opts_in, config, lifecycle, operation,
                       handle, cleanup, source, handoff, diagnostics,
                       diagnostics_mutex, worker>>
    BY <1>0, <1>11 DEF StartCreateFails, TypeOK
  <2>3. TypeOK'
    BY <1>0, <2>1, <2>2 DEF TypeOK, Moved, CallRecord
  <2>4. Consistent'
    BY <1>11, <2>1 DEF IInv, StartCreateFails, Moved, TypeOK
  <2> QED
    BY <2>1, <2>3, <2>4 DEF IInv, Moved
<1>12. ASSUME StartUndo(c)
     PROVE  IInv'
  <2>1. Current.step = "undo"
    BY <1>12, CurrentIs DEF IInv, StartUndo, At
  <2>2. PICK result \in StopResults :
          /\ Moved("settle",
                   Current.op, result)
          /\ SourceAttempted(result)
    BY <1>12, SourceStopAttempted DEF StartUndo, At, CallerSteps
  <2>3. /\ cleanup' \in CleanupRecord /\ source' \in SourceStates
        /\ handoff' \in HandoffRecord
    BY <2>1, <2>2, SourceAttemptedTypes DEF IInv
  <2>4. /\ cleanup' \in CleanupRecord /\ source' \in SourceStates
        /\ handoff' \in HandoffRecord
        /\ UNCHANGED <<platform, opts_in, config, lifecycle, operation,
                       stop_requested, worker_active, handle, diagnostics,
                       diagnostics_mutex, worker>>
    BY <1>0, <1>12, <2>3
       DEF StartUndo, TypeOK, CleanupRecord, SourceStates, HandoffRecord
  <2>5. TypeOK'
    BY <1>0, <2>2, <2>4
       DEF TypeOK, Moved, CallRecord, CleanupRecord, SourceStates,
           HandoffRecord
  <2>6. Consistent'
    <3>1. CASE NothingStopped(result)
      BY <1>12, <2>1, <2>2, <3>1
         DEF IInv, StartUndo, Moved, TypeOK, NothingStopped, StopsNothing
    <3>2. CASE SourceForgotten
      BY <1>12, <2>1, <2>2, <3>2
         DEF IInv, StartUndo, Moved, TypeOK, SourceForgotten, StopsNothing,
             StopCalled, CallsStop, CallsRetryStop, Released
    <3>3. CASE SourceKept(result)
      <4>1. CallInv' /\ WorkerInv' /\ DiagnosticsInv'
        BY <1>12, <2>1, <2>2, <3>3
           DEF IInv, StartUndo, Moved, TypeOK, SourceKept, StopsNothing,
               StopCalled, CallsStop, CallsRetryStop
      <4>2. CleanupInv'
        BY <1>12, <2>1, <2>2, <3>3
           DEF IInv, StartUndo, Moved, TypeOK, SourceKept, StopsNothing,
               StopCalled, CallsStop, CallsRetryStop
      <4>3. HandoffInv'
        BY <1>12, <2>1, <2>2, <3>3
           DEF IInv, StartUndo, Moved, TypeOK, SourceKept, StopsNothing,
               StopCalled, CallsStop, CallsRetryStop
      <4>4. SourceInv' /\ RequestInv'
        BY <1>12, <2>1, <2>2, <3>3
           DEF IInv, StartUndo, Moved, TypeOK, SourceKept, StopsNothing,
               StopCalled, CallsStop, CallsRetryStop
      <4> QED
        BY <4>1, <4>2, <4>3, <4>4
    <3> QED
      BY <2>2, <3>1, <3>2, <3>3 DEF SourceAttempted
  <2> QED
    BY <2>2, <2>5, <2>6 DEF IInv, Moved
<1> QED
  BY <1>2, <1>3, <1>4, <1>5, <1>6, <1>7, <1>8, <1>9, <1>10, <1>11, <1>12
     DEF Start

\* So does every step of stop() up to the join,
LEMMA StopPreserves ==
  ASSUME IInv, NEW c \in Callers, Stop(c)
  PROVE  IInv'
<1> USE DEF Consistent, CallInv, CleanupInv, WorkerInv, HandoffInv,
            SourceInv, RequestInv, DiagnosticsInv, StopIsOneShot, Absent,
            InStep, StartSteps, StopSteps, DestroySteps, settings, members,
            run, sourcing, observed
<1>0. TypeOK /\ OneCall
  BY DEF IInv
<1>1. ASSUME StopDiagnostics(c)
     PROVE  IInv'
  <2>1. /\ Current.step = "stopping"
        /\ Moved(IF cleanup.ownership = "PartialStart"
                 THEN "partial" ELSE "request", Current.op, Current.result)
    BY <1>1, CurrentIs, Goes DEF IInv, StopDiagnostics, At, CallerSteps
  <2>2. /\ diagnostics' \in DiagnosticsRecord
        /\ diagnostics'.lifecycle = "Stopping"
        /\ diagnostics'.transport = "Stopped"
        /\ diagnostics_mutex = "free" /\ diagnostics_mutex' = "free"
    BY <1>1, DiagnosticsSet
       DEF IInv, StopDiagnostics, LifecycleStates, TransportHealth
  <2>3. /\ diagnostics' \in DiagnosticsRecord
        /\ diagnostics_mutex' \in {"free", "reader", "worker"}
        /\ UNCHANGED <<platform, opts_in, config, lifecycle, operation,
                       stop_requested, worker_active, handle, cleanup,
                       source, handoff, worker>>
    BY <1>0, <1>1, <2>2 DEF StopDiagnostics, TypeOK, DiagnosticsRecord
  <2>4. TypeOK'
    BY <1>0, <2>1, <2>3 DEF TypeOK, Moved, CallRecord, DiagnosticsRecord
  <2>5. Consistent'
    BY <1>1, <2>1, <2>2 DEF IInv, StopDiagnostics, Moved, TypeOK
  <2> QED
    BY <2>1, <2>4, <2>5 DEF IInv, Moved
<1>2. ASSUME StopRequest(c)
     PROVE  IInv'
  <2>1. /\ Current.step = "request"
        /\ Moved("source_stop", Current.op, Current.result)
    BY <1>2, CurrentIs, Goes DEF IInv, StopRequest, At, CallerSteps
  <2>2. /\ stop_requested' \in BOOLEAN
        /\ UNCHANGED <<platform, opts_in, config, lifecycle, operation,
                       worker_active, handle, cleanup, source, handoff,
                       diagnostics, diagnostics_mutex, worker>>
    BY <1>0, <1>2 DEF StopRequest, TypeOK
  <2>3. TypeOK'
    BY <1>0, <2>1, <2>2 DEF TypeOK, Moved, CallRecord
  <2>4. Consistent'
    BY <1>2, <2>1 DEF IInv, StopRequest, Moved, TypeOK
  <2> QED
    BY <2>1, <2>3, <2>4 DEF IInv, Moved
<1>3. ASSUME StopSource(c)
     PROVE  IInv'
  <2>1. Current.step = "source_stop"
    BY <1>3, CurrentIs DEF IInv, StopSource, At
  <2>2. PICK result \in StopResults :
          /\ Moved(IF result = "Timeout" THEN "end" ELSE "join",
                   Current.op, result)
          /\ SourceAttempted(result)
    BY <1>3, SourceStopAttempted DEF StopSource, At, CallerSteps
  <2>3. /\ cleanup' \in CleanupRecord /\ source' \in SourceStates
        /\ handoff' \in HandoffRecord
    BY <2>1, <2>2, SourceAttemptedTypes DEF IInv
  <2>4. /\ cleanup' \in CleanupRecord /\ source' \in SourceStates
        /\ handoff' \in HandoffRecord
        /\ UNCHANGED <<platform, opts_in, config, lifecycle, operation,
                       stop_requested, worker_active, handle, diagnostics,
                       diagnostics_mutex, worker>>
    BY <1>0, <1>3, <2>3
       DEF StopSource, TypeOK, CleanupRecord, SourceStates, HandoffRecord
  <2>5. TypeOK'
    BY <1>0, <2>2, <2>4
       DEF TypeOK, Moved, CallRecord, CleanupRecord, SourceStates,
           HandoffRecord
  <2>6. Consistent'
    <3>1. CASE NothingStopped(result)
      BY <1>3, <2>1, <2>2, <3>1
         DEF IInv, StopSource, Moved, TypeOK, NothingStopped, StopsNothing
    <3>2. CASE SourceForgotten
      BY <1>3, <2>1, <2>2, <3>2
         DEF IInv, StopSource, Moved, TypeOK, SourceForgotten, StopsNothing,
             StopCalled, CallsStop, CallsRetryStop, Released
    <3>3. CASE SourceKept(result)
      <4>1. IF result = "Timeout" THEN Moved("end", Current.op, result)
                                 ELSE Moved("join", Current.op, result)
        BY <2>2
      <4>2. CallInv' /\ WorkerInv' /\ DiagnosticsInv'
        BY <1>3, <2>1, <4>1, <3>3
           DEF IInv, StopSource, Moved, TypeOK, SourceKept, StopsNothing,
               StopCalled, CallsStop, CallsRetryStop
      <4>3. CleanupInv'
        BY <1>3, <2>1, <4>1, <3>3
           DEF IInv, StopSource, Moved, TypeOK, SourceKept, StopsNothing,
               StopCalled, CallsStop, CallsRetryStop
      <4>4. HandoffInv'
        BY <1>3, <2>1, <4>1, <3>3
           DEF IInv, StopSource, Moved, TypeOK, SourceKept, StopsNothing,
               StopCalled, CallsStop, CallsRetryStop
      <4>5. SourceInv' /\ RequestInv'
        BY <1>3, <2>1, <4>1, <3>3
           DEF IInv, StopSource, Moved, TypeOK, SourceKept, StopsNothing,
               StopCalled, CallsStop, CallsRetryStop
      <4> QED
        BY <4>2, <4>3, <4>4, <4>5
    <3> QED
      BY <2>2, <3>1, <3>2, <3>3 DEF SourceAttempted
  <2> QED
    BY <2>2, <2>5, <2>6 DEF IInv, Moved
<1>4. ASSUME StopJoin(c)
     PROVE  IInv'
  <2>1. Current.step = "join" /\ Moved("settle", Current.op, Current.result)
    BY <1>4, CurrentIs, Goes DEF IInv, StopJoin, At, CallerSteps
  <2>2. worker.step = "none" /\ ~worker_active /\ ~handle'
    <3>1. platform \in {"esp", "host"}
      BY PlatformAssumption DEF IInv, TypeOK
    <3>2. CASE platform = "host"
      BY <1>4, <2>1, <3>2 DEF IInv, StopJoin, WorkerGone, Joins
    <3>3. CASE platform = "esp"
      BY <1>4, <2>1, <3>3 DEF IInv, StopJoin, WorkerGone, Joins
    <3> QED
      BY <3>1, <3>2, <3>3
  <2>3. /\ handle' \in BOOLEAN
        /\ UNCHANGED <<platform, opts_in, config, lifecycle, operation,
                       stop_requested, worker_active, cleanup, source,
                       handoff, diagnostics, diagnostics_mutex, worker>>
    BY <1>0, <1>4 DEF StopJoin, TypeOK, Joins
  <2>4. TypeOK'
    BY <1>0, <2>1, <2>3 DEF TypeOK, Moved, CallRecord
  <2>5. Consistent'
    BY <1>4, <2>1, <2>2 DEF IInv, StopJoin, Moved, TypeOK
  <2> QED
    BY <2>1, <2>4, <2>5 DEF IInv, Moved
<1>5. ASSUME StopJoinTimeout(c)
     PROVE  IInv'
  <2>1. Current.step = "join" /\ Moved("end", Current.op, "Timeout")
    BY <1>5, CurrentIs, GoesWith
       DEF IInv, StopJoinTimeout, At, CallerSteps, AfterJoinTimeout,
           StopResults
  <2>2. /\ UNCHANGED <<platform, opts_in, config, lifecycle, operation,
                       stop_requested, worker_active, handle, cleanup,
                       source, handoff, diagnostics, diagnostics_mutex,
                       worker>>
    BY <1>0, <1>5 DEF StopJoinTimeout
  <2>3. TypeOK'
    BY <1>0, <2>1, <2>2 DEF TypeOK, Moved, CallRecord
  <2>4. Consistent'
    BY <1>5, <2>1 DEF IInv, StopJoinTimeout, Moved, TypeOK
  <2> QED
    BY <2>1, <2>3, <2>4 DEF IInv, Moved
<1> QED
  BY <1>1, <1>2, <1>3, <1>4, <1>5 DEF Stop

\* of the cleanup and the end that it shares with start(),
LEMMA FinishPreserves ==
  ASSUME IInv, NEW c \in Callers, Finish(c)
  PROVE  IInv'
<1> USE DEF Consistent, CallInv, CleanupInv, WorkerInv, HandoffInv,
            SourceInv, RequestInv, DiagnosticsInv, StopIsOneShot, Absent,
            InStep, StartSteps, StopSteps, DestroySteps, settings, members,
            run, sourcing, observed
<1>0. TypeOK /\ OneCall
  BY DEF IInv
<1>1. ASSUME PartialCleanup(c)
     PROVE  IInv'
  <2>1. Current.step = "partial"
    BY <1>1, CurrentIs DEF IInv, PartialCleanup, At
  <2>2. PICK result \in StopResults :
          /\ Moved("settle",
                   Current.op, result)
          /\ PartialAttempted(result)
    BY <1>1, PartialCleanupAttempted DEF PartialCleanup, At, CallerSteps
  <2>3. /\ cleanup' \in CleanupRecord /\ source' \in SourceStates
        /\ handoff' \in HandoffRecord
    BY <2>1, <2>2, PartialAttemptedTypes DEF IInv
  <2>4. /\ cleanup' \in CleanupRecord /\ source' \in SourceStates
        /\ handoff' \in HandoffRecord
        /\ UNCHANGED <<platform, opts_in, config, lifecycle, operation,
                       stop_requested, worker_active, handle, diagnostics,
                       diagnostics_mutex, worker>>
    BY <1>0, <1>1, <2>3
       DEF PartialCleanup, TypeOK, CleanupRecord, SourceStates, HandoffRecord
  <2>5. TypeOK'
    BY <1>0, <2>2, <2>4
       DEF TypeOK, Moved, CallRecord, CleanupRecord, SourceStates,
           HandoffRecord
  <2>6. Consistent'
    <3>1. CASE AttemptsUsedUp(result)
      BY <1>1, <2>1, <2>2, <3>1
         DEF IInv, PartialCleanup, Moved, TypeOK, AttemptsUsedUp, Exhausted
    <3>2. CASE PartialReleased(result)
      BY <1>1, <2>1, <2>2, <3>2
         DEF IInv, PartialCleanup, Moved, TypeOK, PartialReleased, Exhausted,
             CleanupCalled, CallsStop, CallsRetryStop, Released
    <3>3. CASE PartialKept(result)
      BY <1>1, <2>1, <2>2, <3>3
         DEF IInv, PartialCleanup, Moved, TypeOK, PartialKept, Exhausted,
             CleanupCalled, CallsStop, CallsRetryStop
    <3> QED
      BY <2>2, <3>1, <3>2, <3>3 DEF PartialAttempted
  <2> QED
    BY <2>2, <2>5, <2>6 DEF IInv, Moved
<1>2. ASSUME Settle(c)
     PROVE  IInv'
  <2>1. /\ Current.step = "settle"
        /\ Moved("settle_diagnostics", Current.op, Current.result)
    BY <1>2, CurrentIs, Goes DEF IInv, Settle, At, CallerSteps
  <2>2. Outcome(c) = IF Current.result = "Ok" THEN "Stopped" ELSE "Faulted"
    BY <1>2, CurrentIs DEF IInv, Settle, Outcome, At
  <2>3. /\ lifecycle' \in LifecycleStates
        /\ UNCHANGED <<platform, opts_in, config, operation, stop_requested,
                       worker_active, handle, cleanup, source, handoff,
                       diagnostics, diagnostics_mutex, worker>>
    BY <1>0, <1>2, <2>2 DEF Settle, TypeOK, LifecycleStates
  <2>4. TypeOK'
    BY <1>0, <2>1, <2>3 DEF TypeOK, Moved, CallRecord
  <2>5. Consistent'
    BY <1>2, <2>1, <2>2 DEF IInv, Settle, Moved, TypeOK, LifecycleStates
  <2> QED
    BY <2>1, <2>4, <2>5 DEF IInv, Moved
<1>3. ASSUME SettleDiagnostics(c)
     PROVE  IInv'
  <2>1. /\ Current.step = "settle_diagnostics"
        /\ Moved("end", Current.op, Current.result)
    BY <1>3, CurrentIs, Goes DEF IInv, SettleDiagnostics, At, CallerSteps
  <2>2. Outcome(c) = IF Current.result = "Ok" THEN "Stopped" ELSE "Faulted"
    BY <1>3, CurrentIs DEF IInv, SettleDiagnostics, Outcome, At
  <2>3. /\ diagnostics' \in DiagnosticsRecord
        /\ diagnostics'.lifecycle = Outcome(c)
        /\ diagnostics'.transport = Outcome(c)
        /\ diagnostics_mutex = "free" /\ diagnostics_mutex' = "free"
    BY <1>3, DiagnosticsSet
       DEF IInv, SettleDiagnostics, LifecycleStates, TransportHealth, Outcome
  <2>4. /\ diagnostics' \in DiagnosticsRecord
        /\ diagnostics_mutex' \in {"free", "reader", "worker"}
        /\ UNCHANGED <<platform, opts_in, config, lifecycle, operation,
                       stop_requested, worker_active, handle, cleanup,
                       source, handoff, worker>>
    BY <1>0, <1>3, <2>2, <2>3 DEF SettleDiagnostics, TypeOK, DiagnosticsRecord
  <2>5. TypeOK'
    BY <1>0, <2>1, <2>4 DEF TypeOK, Moved, CallRecord, DiagnosticsRecord
  <2>6. Consistent'
    BY <1>3, <2>1, <2>2, <2>3 DEF IInv, SettleDiagnostics, Moved, TypeOK
  <2> QED
    BY <2>1, <2>5, <2>6 DEF IInv, Moved
<1>4. ASSUME End(c)
     PROVE  IInv'
  <2>1. Current.step = "end" /\ Moved("idle", "none", "none")
    BY <1>4, CurrentIs, Returns DEF IInv, End, At, CallerSteps
  <2>2. /\ operation' \in BOOLEAN
        /\ UNCHANGED <<platform, opts_in, config, lifecycle, stop_requested,
                       worker_active, handle, cleanup, source, handoff,
                       diagnostics, diagnostics_mutex, worker>>
    BY <1>0, <1>4 DEF End, TypeOK
  <2>3. TypeOK'
    BY <1>0, <2>1, <2>2 DEF TypeOK, Moved, CallRecord
  <2>4. Consistent'
    BY <1>4, <2>1 DEF IInv, End, Moved, TypeOK
  <2> QED
    BY <2>1, <2>3, <2>4 DEF IInv, Moved
<1> QED
  BY <1>1, <1>2, <1>3, <1>4 DEF Finish

\* of the destructor,
LEMMA DestroyPreserves ==
  ASSUME IInv, NEW c \in Callers, Destroy(c)
  PROVE  IInv'
<1> USE DEF Consistent, CallInv, CleanupInv, WorkerInv, HandoffInv,
            SourceInv, RequestInv, DiagnosticsInv, StopIsOneShot, Absent,
            InStep, StartSteps, StopSteps, DestroySteps, settings, members,
            run, sourcing, observed
<1>0. TypeOK /\ OneCall
  BY DEF IInv
<1>1. ASSUME DestroyRequest(c)
     PROVE  IInv'
  <2>1. /\ Current.step = "destroy"
        /\ Moved("destroy_stop", Current.op, Current.result)
    BY <1>1, CurrentIs, Goes DEF IInv, DestroyRequest, At, CallerSteps
  <2>2. /\ stop_requested' \in BOOLEAN
        /\ UNCHANGED <<platform, opts_in, config, lifecycle, operation,
                       worker_active, handle, cleanup, source, handoff,
                       diagnostics, diagnostics_mutex, worker>>
    BY <1>0, <1>1 DEF DestroyRequest, TypeOK
  <2>3. TypeOK'
    BY <1>0, <2>1, <2>2 DEF TypeOK, Moved, CallRecord
  <2>4. Consistent'
    BY <1>1, <2>1 DEF IInv, DestroyRequest, Moved, TypeOK
  <2> QED
    BY <2>1, <2>3, <2>4 DEF IInv, Moved
<1>2. ASSUME DestroyStop(c)
     PROVE  IInv'
  <2>1. Current.step = "destroy_stop" /\ ~At(c, "idle")
    BY <1>2, CurrentIs DEF IInv, DestroyStop, At
  <2>2. CASE cleanup.ownership = "None"
    <3>1. UNCHANGED <<sourcing>>
          /\ Moved("destroy_join", Current.op, Current.result)
      BY <1>0, <1>2, <2>1, <2>2, Goes
         DEF DestroyStop, DestroyAttempt, CallerSteps
    <3>2. TypeOK'
      BY <1>0, <1>2, <3>1 DEF DestroyStop, TypeOK, Moved, CallRecord
    <3>3. Consistent'
      BY <1>2, <2>1, <2>2, <3>1 DEF IInv, DestroyStop, Moved, TypeOK
    <3> QED
      BY <3>1, <3>2, <3>3 DEF IInv, Moved
  <2>3. CASE cleanup.ownership = "SuccessfulStart"
    <3>0. AttemptSourceStop(c, "destroy_join", "destroy_join")
      BY <1>2, <2>3 DEF DestroyStop, DestroyAttempt
    <3>1. PICK result \in StopResults :
            /\ Moved("destroy_join", Current.op, result)
            /\ SourceAttempted(result)
      BY <2>1, <3>0, SourceStopAttempted DEF CallerSteps
    <3>2. /\ cleanup' \in CleanupRecord /\ source' \in SourceStates
          /\ handoff' \in HandoffRecord
      BY <2>3, <3>1, SourceAttemptedTypes
    <3>3. /\ cleanup' \in CleanupRecord /\ source' \in SourceStates
          /\ handoff' \in HandoffRecord
          /\ UNCHANGED <<platform, opts_in, config, lifecycle, operation,
                         stop_requested, worker_active, handle, diagnostics,
                         diagnostics_mutex, worker>>
      BY <1>0, <1>2, <3>2
         DEF DestroyStop, TypeOK, CleanupRecord, SourceStates, HandoffRecord
    <3>4. TypeOK'
      BY <1>0, <3>1, <3>3
         DEF TypeOK, Moved, CallRecord, CleanupRecord, SourceStates,
             HandoffRecord
    <3>5. UNCHANGED <<settings, members, observed, worker>>
      BY <1>2 DEF DestroyStop
    <3>6. Consistent'
      <4>1. CASE NothingStopped(result)
        BY <2>1, <2>3, <3>1, <3>5, <4>1
           DEF IInv, Moved, TypeOK, NothingStopped, StopsNothing
      <4>2. CASE SourceForgotten
        BY <2>1, <2>3, <3>1, <3>5, <4>2
           DEF IInv, Moved, TypeOK, SourceForgotten, StopsNothing, StopCalled,
               CallsStop, CallsRetryStop, Released
      <4>3. CASE SourceKept(result)
        <5>1. CallInv' /\ WorkerInv' /\ DiagnosticsInv'
          BY <2>1, <2>3, <3>1, <3>5, <4>3
             DEF IInv, Moved, TypeOK, SourceKept, StopsNothing, StopCalled,
                 CallsStop, CallsRetryStop
        <5>2. CleanupInv'
          BY <2>1, <2>3, <3>1, <3>5, <4>3
             DEF IInv, Moved, TypeOK, SourceKept, StopsNothing, StopCalled,
                 CallsStop, CallsRetryStop
        <5>3. HandoffInv'
          BY <2>1, <2>3, <3>1, <3>5, <4>3
             DEF IInv, Moved, TypeOK, SourceKept, StopsNothing, StopCalled,
                 CallsStop, CallsRetryStop
        <5>4. SourceInv' /\ RequestInv'
          BY <2>1, <2>3, <3>1, <3>5, <4>3
             DEF IInv, Moved, TypeOK, SourceKept, StopsNothing, StopCalled,
                 CallsStop, CallsRetryStop
        <5> QED
          BY <5>1, <5>2, <5>3, <5>4
      <4> QED
        BY <3>1, <4>1, <4>2, <4>3 DEF SourceAttempted
    <3> QED
      BY <3>1, <3>4, <3>6 DEF IInv, Moved
  <2>4. CASE cleanup.ownership = "PartialStart"
    <3>0. AttemptPartialCleanup(c, "destroy_join")
      BY <1>2, <2>4 DEF DestroyStop, DestroyAttempt
    <3>1. PICK result \in StopResults :
            /\ Moved("destroy_join", Current.op, result)
            /\ PartialAttempted(result)
      BY <2>1, <3>0, PartialCleanupAttempted DEF CallerSteps
    <3>2. /\ cleanup' \in CleanupRecord /\ source' \in SourceStates
          /\ handoff' \in HandoffRecord
      BY <2>4, <3>1, PartialAttemptedTypes
    <3>3. /\ cleanup' \in CleanupRecord /\ source' \in SourceStates
          /\ handoff' \in HandoffRecord
          /\ UNCHANGED <<platform, opts_in, config, lifecycle, operation,
                         stop_requested, worker_active, handle, diagnostics,
                         diagnostics_mutex, worker>>
      BY <1>0, <1>2, <3>2
         DEF DestroyStop, TypeOK, CleanupRecord, SourceStates, HandoffRecord
    <3>4. TypeOK'
      BY <1>0, <3>1, <3>3
         DEF TypeOK, Moved, CallRecord, CleanupRecord, SourceStates,
             HandoffRecord
    <3>5. UNCHANGED <<settings, members, observed, worker>>
      BY <1>2 DEF DestroyStop
    <3>6. Consistent'
      <4>1. CASE AttemptsUsedUp(result)
        BY <2>1, <2>4, <3>1, <3>5, <4>1
           DEF IInv, Moved, TypeOK, AttemptsUsedUp, Exhausted
      <4>2. CASE PartialReleased(result)
        BY <2>1, <2>4, <3>1, <3>5, <4>2
           DEF IInv, Moved, TypeOK, PartialReleased, Exhausted, CleanupCalled,
               CallsStop, CallsRetryStop, Released
      <4>3. CASE PartialKept(result)
        BY <2>1, <2>4, <3>1, <3>5, <4>3
           DEF IInv, Moved, TypeOK, PartialKept, Exhausted, CleanupCalled,
               CallsStop, CallsRetryStop
      <4> QED
        BY <3>1, <4>1, <4>2, <4>3 DEF PartialAttempted
    <3> QED
      BY <3>1, <3>4, <3>6 DEF IInv, Moved
  <2> QED
    BY <1>0, <2>2, <2>3, <2>4 DEF TypeOK
<1>3. ASSUME DestroyJoin(c)
     PROVE  IInv'
  <2>1. /\ Current.step = "destroy_join"
        /\ Moved(IF cleanup.retry_supported /\ cleanup.started
                 THEN "destroy_retry" ELSE "destroyed",
                 Current.op, Current.result)
    BY <1>3, CurrentIs, Goes DEF IInv, DestroyJoin, At, CallerSteps
  <2>2. worker.step = "none" /\ ~worker_active /\ ~handle'
    <3>1. platform \in {"esp", "host"}
      BY PlatformAssumption DEF IInv, TypeOK
    <3>2. CASE platform = "host"
      BY <1>3, <2>1, <3>2
         DEF IInv, DestroyJoin, DestructorWaits, WorkerGone, Joins
    <3>3. CASE platform = "esp"
      BY <1>3, <2>1, <3>3
         DEF IInv, DestroyJoin, DestructorWaits, WorkerGone, Joins
    <3> QED
      BY <3>1, <3>2, <3>3
  <2>3. /\ handle' \in BOOLEAN
        /\ UNCHANGED <<platform, opts_in, config, lifecycle, operation,
                       stop_requested, worker_active, cleanup, source,
                       handoff, diagnostics, diagnostics_mutex, worker>>
    BY <1>0, <1>3 DEF DestroyJoin, TypeOK, Joins
  <2>4. TypeOK'
    BY <1>0, <2>1, <2>3 DEF TypeOK, Moved, CallRecord
  <2>5. UNCHANGED <<settings, lifecycle, operation, stop_requested,
                    worker_active, sourcing, observed, worker>>
    BY <1>3 DEF DestroyJoin
  <2>6. Consistent'
    <3>1. CASE cleanup.retry_supported /\ cleanup.started
      <4>1. Moved("destroy_retry", Current.op, Current.result)
        BY <2>1, <3>1
      <4> QED
        BY <2>1, <2>2, <2>5, <4>1 DEF IInv, Moved, TypeOK
    <3>2. CASE ~(cleanup.retry_supported /\ cleanup.started)
      <4>1. Moved("destroyed", Current.op, Current.result)
        BY <2>1, <3>2
      <4> QED
        BY <2>1, <2>2, <2>5, <4>1 DEF IInv, Moved, TypeOK
    <3> QED
      BY <3>1, <3>2
  <2> QED
    BY <2>1, <2>4, <2>6 DEF IInv, Moved
<1>4. ASSUME DestroyRetry(c)
     PROVE  IInv'
  <2>1. Current.step = "destroy_retry" /\ ~At(c, "idle")
    BY <1>4, CurrentIs DEF IInv, DestroyRetry, At
  <2>2. CASE cleanup.ownership = "None"
    <3>1. UNCHANGED <<sourcing>>
          /\ Moved("destroyed", Current.op, Current.result)
      BY <1>0, <1>4, <2>1, <2>2, Goes
         DEF DestroyRetry, DestroyAttempt, CallerSteps
    <3>2. TypeOK'
      BY <1>0, <1>4, <3>1 DEF DestroyRetry, TypeOK, Moved, CallRecord
    <3>3. Consistent'
      BY <1>4, <2>1, <2>2, <3>1 DEF IInv, DestroyRetry, Moved, TypeOK
    <3> QED
      BY <3>1, <3>2, <3>3 DEF IInv, Moved
  <2>3. CASE cleanup.ownership = "SuccessfulStart"
    <3>0. AttemptSourceStop(c, "destroyed", "destroyed")
      BY <1>4, <2>3 DEF DestroyRetry, DestroyAttempt
    <3>1. PICK result \in StopResults :
            Moved("destroyed", Current.op, result) /\ SourceAttempted(result)
      BY <2>1, <3>0, SourceStopAttempted DEF CallerSteps
    <3>2. /\ cleanup' \in CleanupRecord /\ source' \in SourceStates
          /\ handoff' \in HandoffRecord
      BY <2>3, <3>1, SourceAttemptedTypes
    <3>3. /\ cleanup' \in CleanupRecord /\ source' \in SourceStates
          /\ handoff' \in HandoffRecord
          /\ UNCHANGED <<platform, opts_in, config, lifecycle, operation,
                         stop_requested, worker_active, handle, diagnostics,
                         diagnostics_mutex, worker>>
      BY <1>0, <1>4, <3>2
         DEF DestroyRetry, TypeOK, CleanupRecord, SourceStates, HandoffRecord
    <3>4. TypeOK'
      BY <1>0, <3>1, <3>3
         DEF TypeOK, Moved, CallRecord, CleanupRecord, SourceStates,
             HandoffRecord
    <3>5. UNCHANGED <<settings, members, observed, worker>>
      BY <1>4 DEF DestroyRetry
    <3>6. Consistent'
      <4>1. CASE NothingStopped(result)
        BY <2>1, <2>3, <3>1, <3>5, <4>1
           DEF IInv, Moved, TypeOK, NothingStopped, StopsNothing
      <4>2. CASE SourceForgotten
        BY <2>1, <2>3, <3>1, <3>5, <4>2
           DEF IInv, Moved, TypeOK, SourceForgotten, StopsNothing, StopCalled,
               CallsStop, CallsRetryStop, Released
      <4>3. CASE SourceKept(result)
        <5>1. CallInv' /\ WorkerInv' /\ DiagnosticsInv'
          BY <2>1, <2>3, <3>1, <3>5, <4>3
             DEF IInv, Moved, TypeOK, SourceKept, StopsNothing, StopCalled,
                 CallsStop, CallsRetryStop
        <5>2. CleanupInv'
          BY <2>1, <2>3, <3>1, <3>5, <4>3
             DEF IInv, Moved, TypeOK, SourceKept, StopsNothing, StopCalled,
                 CallsStop, CallsRetryStop
        <5>3. HandoffInv'
          BY <2>1, <2>3, <3>1, <3>5, <4>3
             DEF IInv, Moved, TypeOK, SourceKept, StopsNothing, StopCalled,
                 CallsStop, CallsRetryStop
        <5>4. SourceInv' /\ RequestInv'
          BY <2>1, <2>3, <3>1, <3>5, <4>3
             DEF IInv, Moved, TypeOK, SourceKept, StopsNothing, StopCalled,
                 CallsStop, CallsRetryStop
        <5> QED
          BY <5>1, <5>2, <5>3, <5>4
      <4> QED
        BY <3>1, <4>1, <4>2, <4>3 DEF SourceAttempted
    <3> QED
      BY <3>1, <3>4, <3>6 DEF IInv, Moved
  <2>4. CASE cleanup.ownership = "PartialStart"
    <3>0. AttemptPartialCleanup(c, "destroyed")
      BY <1>4, <2>4 DEF DestroyRetry, DestroyAttempt
    <3>1. PICK result \in StopResults :
            Moved("destroyed", Current.op, result) /\ PartialAttempted(result)
      BY <2>1, <3>0, PartialCleanupAttempted DEF CallerSteps
    <3>2. /\ cleanup' \in CleanupRecord /\ source' \in SourceStates
          /\ handoff' \in HandoffRecord
      BY <2>4, <3>1, PartialAttemptedTypes
    <3>3. /\ cleanup' \in CleanupRecord /\ source' \in SourceStates
          /\ handoff' \in HandoffRecord
          /\ UNCHANGED <<platform, opts_in, config, lifecycle, operation,
                         stop_requested, worker_active, handle, diagnostics,
                         diagnostics_mutex, worker>>
      BY <1>0, <1>4, <3>2
         DEF DestroyRetry, TypeOK, CleanupRecord, SourceStates, HandoffRecord
    <3>4. TypeOK'
      BY <1>0, <3>1, <3>3
         DEF TypeOK, Moved, CallRecord, CleanupRecord, SourceStates,
             HandoffRecord
    <3>5. UNCHANGED <<settings, members, observed, worker>>
      BY <1>4 DEF DestroyRetry
    <3>6. Consistent'
      <4>1. CASE AttemptsUsedUp(result)
        BY <2>1, <2>4, <3>1, <3>5, <4>1
           DEF IInv, Moved, TypeOK, AttemptsUsedUp, Exhausted
      <4>2. CASE PartialReleased(result)
        BY <2>1, <2>4, <3>1, <3>5, <4>2
           DEF IInv, Moved, TypeOK, PartialReleased, Exhausted, CleanupCalled,
               CallsStop, CallsRetryStop, Released
      <4>3. CASE PartialKept(result)
        BY <2>1, <2>4, <3>1, <3>5, <4>3
           DEF IInv, Moved, TypeOK, PartialKept, Exhausted, CleanupCalled,
               CallsStop, CallsRetryStop
      <4> QED
        BY <3>1, <4>1, <4>2, <4>3 DEF PartialAttempted
    <3> QED
      BY <3>1, <3>4, <3>6 DEF IInv, Moved
  <2> QED
    BY <1>0, <2>2, <2>3, <2>4 DEF TypeOK
<1> QED
  BY <1>1, <1>2, <1>3, <1>4 DEF Destroy

\* and the construction of the next runtime.
LEMMA ConstructPreserves ==
  ASSUME IInv, NEW c \in Callers, Construct(c)
  PROVE  IInv'
<1> USE DEF Consistent, CallInv, CleanupInv, WorkerInv, HandoffInv,
            SourceInv, RequestInv, DiagnosticsInv, StopIsOneShot, Absent,
            InStep, StartSteps, StopSteps, DestroySteps, settings, members,
            run, sourcing, observed
<1>1. Current.step = "destroyed" /\ Moved("idle", "none", "none")
  BY CurrentIs, Returns DEF IInv, Construct, At
<1>2. diagnostics_mutex' = "free"
  <2>1. Current.op = "destroy"
    BY <1>1, CurrentType DEF IInv, CallRecord
  <2> QED
    BY <1>1, <2>1 DEF IInv, Construct, TypeOK
<1>3. /\ cleanup' = Released /\ Released \in CleanupRecord
      /\ diagnostics' = NoDiagnostics /\ NoDiagnostics \in DiagnosticsRecord
      /\ handoff' = NoHandoff /\ NoHandoff \in HandoffRecord
      /\ worker' = NoWorker /\ NoWorker \in WorkerRecord
  BY DEF Construct, Released, CleanupRecord, StopResults, NoDiagnostics,
         DiagnosticsRecord, LifecycleStates, TransportHealth, NoHandoff,
         HandoffRecord, NoWorker, WorkerRecord, WorkerSteps
<1>4. /\ source' \in {"idle", "foreign"} /\ config' \in Configurations
      /\ lifecycle' = "Stopped" /\ ~stop_requested' /\ ~operation'
      /\ ~worker_active' /\ ~handle'
      /\ stop_requested' \in BOOLEAN /\ operation' \in BOOLEAN
      /\ worker_active' \in BOOLEAN /\ handle' \in BOOLEAN
      /\ UNCHANGED <<platform, opts_in>>
  BY DEF Construct
<1>5. TypeOK'
  BY <1>1, <1>2, <1>3, <1>4
     DEF IInv, TypeOK, Moved, CallRecord, CleanupRecord, DiagnosticsRecord,
         HandoffRecord, WorkerRecord, LifecycleStates
<1>6. Consistent'
  BY <1>1, <1>2, <1>3, <1>4
     DEF Moved, Released, NoDiagnostics, NoHandoff, NoWorker
<1> QED
  BY <1>1, <1>5, <1>6 DEF IInv, Moved

\* A step that changes nothing changes no call.
LEMMA SameCall ==
  ASSUME OneCall, UNCHANGED caller
  PROVE  OneCall' /\ Current' = Current
BY DEF OneCall, At, Current

\* A step that changes nothing keeps the invariant.
LEMMA StutterPreserves ==
  ASSUME IInv, UNCHANGED vars
  PROVE  IInv'
<1>1. OneCall' /\ Current' = Current
  BY SameCall DEF IInv, vars
<1>2. TypeOK'
  BY DEF IInv, TypeOK, vars, settings, members, run, sourcing, observed
<1>3. Consistent'
  BY <1>1
     DEF IInv, Consistent, CallInv, CleanupInv, WorkerInv, HandoffInv,
         SourceInv, RequestInv, DiagnosticsInv, StopIsOneShot, Absent, InStep,
         vars, settings, members, run, sourcing, observed
<1> QED
  BY <1>1, <1>2, <1>3 DEF IInv

\* A call that begins finds no other in progress, or changes nothing.
LEMMA CallsPreserve ==
  ASSUME IInv, NEW c \in Callers,
         StartBegin(c) \/ StopBegin(c) \/ DestroyCall(c)
  PROVE  IInv'
<1> USE DEF Consistent, CallInv, CleanupInv, WorkerInv, HandoffInv,
            SourceInv, RequestInv, DiagnosticsInv, StopIsOneShot, Absent,
            InStep, StartSteps, StopSteps, DestroySteps, settings, members,
            run, sourcing, observed
<1>0. TypeOK /\ OneCall
  BY DEF IInv
<1>1. CASE StartBegin(c) /\ ~(operation \/ lifecycle # "Stopped")
  <2>1. Quiet /\ Current = Idle
    BY <1>1, UsableIsQuiet, NoneCurrent DEF IInv, StartBegin
  <2>2. Moved("source_start", "start", "none")
    BY <1>0, <1>1, <2>1, Calls DEF StartBegin, CallerSteps
  <2>3. /\ ~operation /\ operation' = TRUE /\ lifecycle = "Stopped"
        /\ UNCHANGED <<settings, lifecycle, stop_requested, worker_active,
                       handle, sourcing, observed, worker>>
    BY <1>1 DEF StartBegin
  <2>4. TypeOK'
    BY <1>0, <2>2, <2>3 DEF TypeOK, Moved, CallRecord
  <2>5. Consistent'
    BY <2>1, <2>2, <2>3 DEF IInv, Moved, Idle
  <2> QED
    BY <2>2, <2>4, <2>5 DEF IInv, Moved
<1>2. CASE /\ StopBegin(c)
            /\ ~(operation \/ (lifecycle = "Stopped" /\ ~cleanup.started))
  <2>1. /\ Usable /\ ~operation
        /\ lifecycle # "Stopped" \/ cleanup.started
        /\ operation' = TRUE /\ lifecycle' = "Stopping"
        /\ Call(c, "stop", "stopping")
        /\ UNCHANGED <<settings, stop_requested, worker_active, handle,
                       sourcing, observed, worker>>
    BY <1>2, Zenon DEF StopBegin
  <2>2. Quiet /\ Current = Idle
    BY <2>1, UsableIsQuiet, NoneCurrent DEF IInv
  <2>3. Moved("stopping", "stop", "none")
    BY <1>0, <2>2, <2>1, Calls DEF CallerSteps
  <2>4. TypeOK'
    <3>1. operation' \in BOOLEAN /\ lifecycle' \in LifecycleStates
      BY <2>1 DEF LifecycleStates
    <3> QED
      BY <1>0, <2>3, <2>1, <3>1 DEF TypeOK, Moved, CallRecord
  <2>5. Consistent'
    BY <2>2, <2>3, <2>1 DEF IInv, Moved, Idle
  <2> QED
    BY <2>3, <2>4, <2>5 DEF IInv, Moved
<1>3. CASE DestroyCall(c)
  <2>1. Quiet /\ Current = Idle
    BY <1>3, NoneCurrent DEF DestroyCall
  <2>2. Moved("destroy", "destroy", "none")
    BY <1>0, <1>3, <2>1, Calls DEF DestroyCall, CallerSteps
  <2>3. /\ diagnostics_mutex # "reader"
        /\ UNCHANGED <<settings, members, sourcing, observed, worker>>
    BY <1>3 DEF DestroyCall
  <2>4. TypeOK'
    BY <1>0, <2>2, <2>3 DEF TypeOK, Moved, CallRecord
  <2>5. Consistent'
    BY <2>1, <2>2, <2>3 DEF IInv, Moved, Idle
  <2> QED
    BY <2>2, <2>4, <2>5 DEF IInv, Moved
<1>4. CASE UNCHANGED vars
  BY <1>4, StutterPreserves
<1> QED
  BY <1>1, <1>2, <1>3, <1>4 DEF StartBegin, StopBegin, vars

\* The worker keeps the invariant at every step of run_loop() and
\* task_entry(), whatever call is in progress.
LEMMA WorkerPreserves ==
  ASSUME IInv, Worker
  PROVE  IInv'
<1> USE DEF Consistent, CallInv, CleanupInv, WorkerInv, HandoffInv,
            SourceInv, RequestInv, DiagnosticsInv, StopIsOneShot, Absent,
            InStep, StartSteps, StopSteps, DestroySteps, settings, members,
            run, sourcing, observed
<1>0. TypeOK /\ OneCall
  BY DEF IInv
<1>1. ASSUME WorkerLoop
     PROVE  IInv'
  <2>1. OneCall' /\ Current' = Current
    BY <1>0, <1>1, SameCall DEF WorkerLoop
  <2>2. /\ worker' \in WorkerRecord
        /\ UNCHANGED <<platform, opts_in, config, lifecycle, operation,
                       stop_requested, worker_active, handle, cleanup,
                       source, handoff, diagnostics, diagnostics_mutex,
                       caller>>
    BY <1>0, <1>1 DEF WorkerLoop, TypeOK, WorkerRecord, WorkerSteps, NoWorker
  <2>3. TypeOK'
    BY <1>0, <2>2 DEF TypeOK, WorkerRecord
  <2>4. Consistent'
    BY <1>1, <2>1 DEF IInv, WorkerLoop, TypeOK, NoWorker
  <2> QED
    BY <2>1, <2>3, <2>4 DEF IInv
<1>2. ASSUME WorkerReceive
     PROVE  IInv'
  <2>1. OneCall' /\ Current' = Current
    BY <1>0, <1>2, SameCall DEF WorkerReceive
  <2>2. SourceStopping => stop_requested
    <3>1. \A c \in Callers : At(c, "source_stop") \/ At(c, "destroy_stop")
            => Current.step \in {"source_stop", "destroy_stop"}
      BY <1>0, CurrentIs DEF At
    <3> QED
      BY <1>2, <3>1 DEF IInv, SourceStopping, WorkerReceive
  <2>3. PICK status \in ReceiveStatus :
          /\ status = "Cancelled" => SourceStopping
          /\ worker' = [step |-> "recheck", status |-> status]
    BY <1>2 DEF WorkerReceive
  <2>4. /\ worker.step = "receive"
        /\ worker'.step = "recheck" /\ worker'.status = status
        /\ status # "none" /\ worker' \in WorkerRecord
        /\ UNCHANGED <<settings, members, sourcing, observed, caller>>
    BY <1>2, <2>3 DEF WorkerReceive, WorkerRecord, WorkerSteps, ReceiveStatus
  <2>5. TypeOK'
    BY <1>0, <2>4 DEF TypeOK, WorkerRecord
  <2>6. Consistent'
    BY <2>1, <2>2, <2>3, <2>4 DEF IInv, TypeOK
  <2> QED
    BY <2>1, <2>5, <2>6 DEF IInv
<1>3. ASSUME WorkerRecheck
     PROVE  IInv'
  <2>1. OneCall' /\ Current' = Current
    BY <1>0, <1>3, SameCall DEF WorkerRecheck
  <2>2. /\ worker' \in WorkerRecord
        /\ UNCHANGED <<platform, opts_in, config, lifecycle, operation,
                       stop_requested, worker_active, handle, cleanup,
                       source, handoff, diagnostics, diagnostics_mutex,
                       caller>>
    BY <1>0, <1>3
       DEF WorkerRecheck, TypeOK, WorkerRecord, WorkerSteps, WorkerGoes
  <2>3. TypeOK'
    BY <1>0, <2>2 DEF TypeOK, WorkerRecord
  <2>4. Consistent'
    BY <1>3, <2>1 DEF IInv, WorkerRecheck, TypeOK, WorkerGoes
  <2> QED
    BY <2>1, <2>3, <2>4 DEF IInv
<1>4. ASSUME WorkerSnapshot
     PROVE  IInv'
  <2>1. OneCall' /\ Current' = Current
    BY <1>0, <1>4, SameCall DEF WorkerSnapshot
  <2>2. /\ worker.step = "snapshot" /\ diagnostics_mutex = "free"
        /\ lifecycle # "Stopped"
        /\ UNCHANGED <<settings, members, sourcing, caller>>
    BY <1>4 DEF IInv, WorkerSnapshot
  <2>3. CASE worker.status = "Timeout" /\ LooksAtSilence
    <3>1. /\ worker'.step = "silence" /\ worker'.status = worker.status
          /\ worker' \in WorkerRecord
          /\ diagnostics_mutex' = "worker" /\ diagnostics' = diagnostics
      BY <1>0, <1>4, <2>3
         DEF WorkerSnapshot, WorkerGoes, TypeOK, WorkerRecord, WorkerSteps
    <3>2. TypeOK'
      BY <1>0, <2>2, <3>1 DEF TypeOK, WorkerRecord
    <3>3. Consistent'
      BY <2>1, <2>2, <3>1 DEF IInv, TypeOK
    <3> QED
      BY <2>1, <3>2, <3>3 DEF IInv
  <2>4. CASE ~(worker.status = "Timeout" /\ LooksAtSilence)
    <3>1. /\ worker'.step = "callback" /\ worker'.status = worker.status
          /\ worker' \in WorkerRecord
      BY <1>0, <1>4, <2>4
         DEF WorkerSnapshot, WorkerGoes, TypeOK, WorkerRecord, WorkerSteps
    <3>2. /\ diagnostics' \in DiagnosticsRecord
          /\ diagnostics_mutex' = "free"
      <4>1. worker.status \in {"Frame", "FrameFault", "Timeout"} \cup Faults
        BY <1>0, <2>2 DEF TypeOK, ReceiveStatus, Faults, IInv
      <4>2. CASE worker.status = "Frame"
        BY <1>0, <1>4, <4>2
           DEF WorkerSnapshot, Diagnose, TypeOK, DiagnosticsRecord, Faults,
               TransportHealth
      <4>3. CASE worker.status = "FrameFault"
        <5>1. Diagnose([lifecycle |-> "Faulted", transport |-> "Faulted",
                        has_last_frame |-> TRUE])
          BY <1>4, <4>3 DEF WorkerSnapshot, Diagnose, Faults
        <5> QED
          BY <5>1 DEF Diagnose, DiagnosticsRecord, TransportHealth,
                      LifecycleStates
      <4>4. CASE worker.status \in Faults
        <5>1. SetDiagnostic("Faulted", "Faulted")
          BY <1>4, <4>4 DEF WorkerSnapshot, Faults
        <5> QED
          BY <1>0, <5>1, DiagnosticsSet DEF LifecycleStates, TransportHealth
      <4>5. CASE worker.status = "Timeout"
        <5>1. Diagnose(IF diagnostics.has_last_frame THEN diagnostics
                       ELSE [diagnostics EXCEPT
                               !.transport = "AwaitingTraffic"])
          BY <1>4, <2>4, <4>5 DEF WorkerSnapshot, Faults
        <5> QED
          BY <1>0, <5>1
             DEF Diagnose, TypeOK, DiagnosticsRecord, TransportHealth
      <4> QED
        BY <4>1, <4>2, <4>3, <4>4, <4>5
    <3>3. TypeOK'
      BY <1>0, <2>2, <3>1, <3>2 DEF TypeOK, WorkerRecord, DiagnosticsRecord
    <3>4. Consistent'
      BY <2>1, <2>2, <3>1, <3>2 DEF IInv, TypeOK
    <3> QED
      BY <2>1, <3>3, <3>4 DEF IInv
  <2> QED
    BY <2>3, <2>4
<1>5. ASSUME WorkerSilence
     PROVE  IInv'
  <2>1. OneCall' /\ Current' = Current
    BY <1>0, <1>5, SameCall DEF WorkerSilence
  <2>2. /\ worker' \in WorkerRecord /\ diagnostics' \in DiagnosticsRecord
        /\ diagnostics_mutex' \in {"free", "reader", "worker"}
        /\ UNCHANGED <<platform, opts_in, config, lifecycle, operation,
                       stop_requested, worker_active, handle, cleanup,
                       source, handoff, caller>>
    BY <1>0, <1>5
       DEF WorkerSilence, TypeOK, WorkerRecord, DiagnosticsRecord, WorkerSteps,
           TransportHealth, WorkerGoes, JudgeSilence
  <2>3. TypeOK'
    BY <1>0, <2>2 DEF TypeOK, WorkerRecord, DiagnosticsRecord
  <2>4. Consistent'
    BY <1>5, <2>1 DEF IInv, WorkerSilence, TypeOK, WorkerGoes, JudgeSilence
  <2> QED
    BY <2>1, <2>3, <2>4 DEF IInv
<1>6. ASSUME WorkerCallback
     PROVE  IInv'
  <2>1. OneCall' /\ Current' = Current
    BY <1>0, <1>6, SameCall DEF WorkerCallback
  <2>2. /\ worker' \in WorkerRecord
        /\ UNCHANGED <<platform, opts_in, config, lifecycle, operation,
                       stop_requested, worker_active, handle, cleanup,
                       source, handoff, diagnostics, diagnostics_mutex,
                       caller>>
    BY <1>0, <1>6
       DEF WorkerCallback, TypeOK, WorkerRecord, WorkerSteps, WorkerGoes
  <2>3. TypeOK'
    BY <1>0, <2>2 DEF TypeOK, WorkerRecord
  <2>4. Consistent'
    BY <1>6, <2>1 DEF IInv, WorkerCallback, TypeOK, WorkerGoes, Faults
  <2> QED
    BY <2>1, <2>3, <2>4 DEF IInv
<1>7. ASSUME WorkerLatch
     PROVE  IInv'
  <2>1. OneCall' /\ Current' = Current
    BY <1>0, <1>7, SameCall DEF WorkerLatch
  <2>2. /\ worker' \in WorkerRecord /\ lifecycle' \in LifecycleStates
        /\ UNCHANGED <<platform, opts_in, config, operation, stop_requested,
                       worker_active, handle, cleanup, source, handoff,
                       diagnostics, diagnostics_mutex, caller>>
    BY <1>0, <1>7
       DEF WorkerLatch, TypeOK, WorkerRecord, WorkerSteps, LifecycleStates,
           WorkerGoes
  <2>3. TypeOK'
    BY <1>0, <2>2 DEF TypeOK, WorkerRecord
  <2>4. Consistent'
    BY <1>7, <2>1 DEF IInv, WorkerLatch, TypeOK, WorkerGoes
  <2> QED
    BY <2>1, <2>3, <2>4 DEF IInv
<1>8. ASSUME WorkerLatchRequest
     PROVE  IInv'
  <2>1. OneCall' /\ Current' = Current
    BY <1>0, <1>8, SameCall DEF WorkerLatchRequest
  <2>2. /\ worker' \in WorkerRecord /\ stop_requested' \in BOOLEAN
        /\ UNCHANGED <<platform, opts_in, config, lifecycle, operation,
                       worker_active, handle, cleanup, source, handoff,
                       diagnostics, diagnostics_mutex, caller>>
    BY <1>0, <1>8
       DEF WorkerLatchRequest, TypeOK, WorkerRecord, WorkerSteps, WorkerGoes
  <2>3. TypeOK'
    BY <1>0, <2>2 DEF TypeOK, WorkerRecord
  <2>4. Consistent'
    BY <1>8, <2>1 DEF IInv, WorkerLatchRequest, TypeOK, WorkerGoes
  <2> QED
    BY <2>1, <2>3, <2>4 DEF IInv
<1>9. ASSUME WorkerLeave
     PROVE  IInv'
  <2>1. OneCall' /\ Current' = Current
    BY <1>0, <1>9, SameCall DEF WorkerLeave
  <2>2. /\ worker.step = "leave"
        /\ UNCHANGED <<settings, lifecycle, operation, stop_requested,
                       sourcing, observed, caller>>
    BY <1>9 DEF WorkerLeave
  <2>3. CASE platform = "esp"
    <3>1. /\ worker'.step = "inactive" /\ worker'.status = worker.status
          /\ worker' \in WorkerRecord
          /\ ~handle' /\ handle' \in BOOLEAN
          /\ worker_active' = worker_active
      BY <1>0, <1>9, <2>3
         DEF WorkerLeave, WorkerGoes, TypeOK, WorkerRecord, WorkerSteps
    <3>2. TypeOK'
      BY <1>0, <2>2, <3>1 DEF TypeOK, WorkerRecord
    <3>3. Consistent'
      BY <2>1, <2>2, <2>3, <3>1 DEF IInv
    <3> QED
      BY <2>1, <3>2, <3>3 DEF IInv
  <2>4. CASE platform # "esp"
    <3>1. /\ worker'.step = "none" /\ worker'.status = "none"
          /\ worker' \in WorkerRecord
          /\ ~worker_active' /\ worker_active' \in BOOLEAN
          /\ handle' = handle
      <4>1. /\ worker' = NoWorker /\ worker_active' = FALSE
            /\ handle' = handle
        BY <1>9, <2>4 DEF WorkerLeave
      <4> QED
        BY <4>1 DEF NoWorker, WorkerRecord, WorkerSteps
    <3>2. TypeOK'
      BY <1>0, <2>2, <3>1 DEF TypeOK, WorkerRecord
    <3>3. Consistent'
      BY <2>1, <2>2, <2>4, <3>1 DEF IInv
    <3> QED
      BY <2>1, <3>2, <3>3 DEF IInv
  <2> QED
    BY <2>3, <2>4
<1>10. ASSUME WorkerInactive
     PROVE  IInv'
  <2>1. OneCall' /\ Current' = Current
    BY <1>0, <1>10, SameCall DEF WorkerInactive
  <2>2. /\ worker' \in WorkerRecord /\ worker_active' \in BOOLEAN
        /\ UNCHANGED <<platform, opts_in, config, lifecycle, operation,
                       stop_requested, handle, cleanup, source, handoff,
                       diagnostics, diagnostics_mutex, caller>>
    BY <1>0, <1>10
       DEF WorkerInactive, TypeOK, WorkerRecord, WorkerSteps, NoWorker
  <2>3. TypeOK'
    BY <1>0, <2>2 DEF TypeOK, WorkerRecord
  <2>4. Consistent'
    BY <1>10, <2>1 DEF IInv, WorkerInactive, TypeOK, NoWorker
  <2> QED
    BY <2>1, <2>3, <2>4 DEF IInv
<1> QED
  BY <1>1, <1>2, <1>3, <1>4, <1>5, <1>6, <1>7, <1>8, <1>9, <1>10 DEF Worker

\* So do configure() and diagnostics().
LEMMA ReadersPreserve ==
  ASSUME IInv, Configure \/ ReadDiagnostics \/ ReaderSilence
  PROVE  IInv'
<1> USE DEF Consistent, CallInv, CleanupInv, WorkerInv, HandoffInv,
            SourceInv, RequestInv, DiagnosticsInv, StopIsOneShot, Absent,
            InStep, StartSteps, StopSteps, DestroySteps, settings, members,
            run, sourcing, observed
<1>0. TypeOK /\ OneCall
  BY DEF IInv
<1>1. ASSUME Configure
     PROVE  IInv'
  <2>1. OneCall' /\ Current' = Current
    BY <1>0, <1>1, SameCall DEF Configure
  <2>2. /\ config' \in Configurations
        /\ UNCHANGED <<platform, opts_in, lifecycle, operation,
                       stop_requested, worker_active, handle, cleanup,
                       source, handoff, diagnostics, diagnostics_mutex,
                       worker, caller>>
    BY <1>0, <1>1 DEF Configure, TypeOK
  <2>3. TypeOK'
    BY <1>0, <2>2 DEF TypeOK
  <2>4. Consistent'
    BY <1>1, <2>1 DEF IInv, Configure, TypeOK
  <2> QED
    BY <2>1, <2>3, <2>4 DEF IInv
<1>2. ASSUME ReadDiagnostics
     PROVE  IInv'
  <2>1. OneCall' /\ Current' = Current
    BY <1>0, <1>2, SameCall DEF ReadDiagnostics
  <2>2. Current.op # "destroy"
    <3>1. CASE Quiet
      BY <3>1, NoneCurrent DEF Idle
    <3>2. CASE ~Quiet
      BY <1>0, <1>2, <3>2, CurrentIs DEF ReadDiagnostics, Usable, Quiet
    <3> QED
      BY <3>1, <3>2
  <2>3. /\ diagnostics_mutex' \in {"free", "reader", "worker"}
        /\ UNCHANGED <<platform, opts_in, config, lifecycle, operation,
                       stop_requested, worker_active, handle, cleanup,
                       source, handoff, diagnostics, worker, caller>>
    BY <1>0, <1>2, <2>2 DEF ReadDiagnostics, TypeOK
  <2>4. TypeOK'
    BY <1>0, <2>3 DEF TypeOK
  <2>5. Consistent'
    BY <1>2, <2>1, <2>2 DEF IInv, ReadDiagnostics, TypeOK, LooksAtSilence
  <2> QED
    BY <2>1, <2>4, <2>5 DEF IInv
<1>3. ASSUME ReaderSilence
     PROVE  IInv'
  <2>1. OneCall' /\ Current' = Current
    BY <1>0, <1>3, SameCall DEF ReaderSilence
  <2>2. /\ diagnostics' \in DiagnosticsRecord
        /\ diagnostics_mutex' \in {"free", "reader", "worker"}
        /\ UNCHANGED <<platform, opts_in, config, lifecycle, operation,
                       stop_requested, worker_active, handle, cleanup,
                       source, handoff, worker, caller>>
    BY <1>0, <1>3
       DEF ReaderSilence, TypeOK, DiagnosticsRecord, TransportHealth,
           JudgeSilence
  <2>3. TypeOK'
    BY <1>0, <2>2 DEF TypeOK, DiagnosticsRecord
  <2>4. Consistent'
    BY <1>3, <2>1 DEF IInv, ReaderSilence, TypeOK, JudgeSilence
  <2> QED
    BY <2>1, <2>3, <2>4 DEF IInv
<1> QED
  BY <1>1, <1>2, <1>3

\* Only configure() and the construction of a runtime write config_.
LEMMA OnlyTheseConfigure ==
  ASSUME [Next]_vars, config' # config
  PROVE  Configure \/ \E c \in Callers : Construct(c)
<1> USE DEF settings
<1>1. ASSUME NEW c \in Callers, Start(c)
      PROVE  config' = config
  BY <1>1
     DEF Start, SourceStarted, SourceNotOwned, SourceFailed, StartRefused,
         StartArm, StartPublish, StartRunning, StartCreate, StartAssign,
         StartCreateFails, StartUndo
<1>2. ASSUME NEW c \in Callers, Stop(c)
      PROVE  config' = config
  BY <1>2
     DEF Stop, StopDiagnostics, StopRequest, StopSource, StopJoin,
         StopJoinTimeout
<1>3. ASSUME NEW c \in Callers, Finish(c) \/ Destroy(c)
      PROVE  config' = config
  BY <1>3
     DEF Finish, PartialCleanup, Settle, SettleDiagnostics, End, Destroy,
         DestroyRequest, DestroyStop, DestroyJoin, DestroyRetry
<1>4. ASSUME NEW c \in Callers,
             StartBegin(c) \/ StopBegin(c) \/ DestroyCall(c)
      PROVE  config' = config
  BY <1>4 DEF StartBegin, StopBegin, DestroyCall
<1>5. ASSUME Worker
      PROVE  config' = config
  BY <1>5
     DEF Worker, WorkerLoop, WorkerReceive, WorkerRecheck, WorkerSnapshot,
         WorkerSilence, WorkerCallback, WorkerLatch, WorkerLatchRequest,
         WorkerLeave, WorkerInactive
<1>6. ASSUME ReadDiagnostics \/ ReaderSilence \/ UNCHANGED vars
      PROVE  config' = config
  BY <1>6 DEF ReadDiagnostics, ReaderSilence, vars
<1> QED
  BY <1>1, <1>2, <1>3, <1>4, <1>5, <1>6 DEF Next, CallerStep

-----------------------------------------------------------------------------
\* Before the first call nothing is held and nobody works.
LEMMA InitEstablishes == Init => IInv
<1> SUFFICES ASSUME Init
             PROVE  IInv
  OBVIOUS
<1>1. caller = [c \in Callers |-> Idle]
  BY DEF Init, Idle
<1>2. OneCall /\ Quiet
  BY <1>1 DEF OneCall, Quiet, At, Idle
<1>3. Current = Idle
  BY <1>2, NoneCurrent
<1>4. caller \in [Callers -> CallRecord]
  BY <1>1 DEF CallRecord, Idle, CallerSteps
<1>5. /\ Released \in CleanupRecord /\ NoDiagnostics \in DiagnosticsRecord
      /\ NoHandoff \in HandoffRecord /\ NoWorker \in WorkerRecord
  BY DEF Released, CleanupRecord, StopResults, NoDiagnostics,
         DiagnosticsRecord, LifecycleStates, TransportHealth, NoHandoff,
         HandoffRecord, NoWorker, WorkerRecord, WorkerSteps
<1>6. operation \in BOOLEAN /\ stop_requested \in BOOLEAN
      /\ worker_active \in BOOLEAN /\ handle \in BOOLEAN
  BY DEF Init
<1>7. TypeOK
  BY <1>4, <1>5, <1>6
     DEF Init, TypeOK, CallRecord, CleanupRecord, DiagnosticsRecord,
         HandoffRecord, WorkerRecord, LifecycleStates
<1>8. /\ lifecycle = "Stopped" /\ ~operation /\ ~worker_active /\ ~handle
      /\ diagnostics_mutex = "free" /\ source = "idle"
      /\ cleanup = Released /\ diagnostics = NoDiagnostics
      /\ handoff = NoHandoff /\ worker = NoWorker
  BY DEF Init
<1>9. Consistent
  BY <1>3, <1>8
     DEF Consistent, CallInv, CleanupInv, WorkerInv, HandoffInv, SourceInv,
         RequestInv, DiagnosticsInv, StopIsOneShot, Absent, InStep, Idle,
         Released, NoDiagnostics, NoHandoff, NoWorker
<1> QED
  BY <1>2, <1>7, <1>9 DEF IInv

\* Every step keeps the invariant.
LEMMA StepPreserves == IInv /\ [Next]_vars => IInv'
<1> SUFFICES ASSUME IInv, [Next]_vars
             PROVE  IInv'
  OBVIOUS
<1>1. ASSUME NEW c \in Callers,
             StartBegin(c) \/ StopBegin(c) \/ DestroyCall(c)
      PROVE  IInv'
  BY <1>1, CallsPreserve
<1>2. ASSUME NEW c \in Callers, CallerStep(c)
      PROVE  IInv'
  BY <1>2, StartPreserves, StopPreserves, FinishPreserves, DestroyPreserves
     DEF CallerStep
<1>3. ASSUME NEW c \in Callers, Construct(c)
      PROVE  IInv'
  BY <1>3, ConstructPreserves
<1>4. CASE Worker
  BY <1>4, WorkerPreserves
<1>5. CASE Configure \/ ReadDiagnostics \/ ReaderSilence
  BY <1>5, ReadersPreserve
<1>6. CASE UNCHANGED vars
  BY <1>6, StutterPreserves
<1> QED
  BY <1>1, <1>2, <1>3, <1>4, <1>5, <1>6 DEF Next

\* The inductive invariant holds throughout.
THEOREM Invariance == Spec => []IInv
  BY InitEstablishes, StepPreserves, PTL DEF Spec

-----------------------------------------------------------------------------
\* The variables keep their types: no step of any call, of the worker or of
\* diagnostics() leaves a member outside its range.
THEOREM TypeCorrect == Spec => []TypeOK
<1>1. IInv => TypeOK
  BY DEF IInv
<1> QED
  BY <1>1, Invariance, PTL

\* start() creates a worker only where none is left, and assigns worker_ only
\* when it is not joinable.
THEOREM WorkersDoNotOverlap == Spec => []OneWorker
<1>1. IInv => OneWorker
  <2> SUFFICES ASSUME IInv, NEW c \in Callers,
                      At(c, "create") \/ At(c, "assign")
               PROVE  /\ At(c, "create") => worker.step = "none" /\ ~handle
                      /\ At(c, "assign") => ~handle
    BY DEF OneWorker
  <2>1. Current = caller[c]
    BY CurrentIs DEF IInv, At
  <2> QED
    BY <2>1 DEF IInv, Consistent, WorkerInv, InStep, At
<1> QED
  BY <1>1, Invariance, PTL

\* Neither a destroyed runtime, nor a stop() that returns Ok, nor a Stopped
\* runtime between calls leaves a worker behind.
THEOREM WorkersEnd == Spec => []NoWorkerLeftBehind
<1>1. IInv => NoWorkerLeftBehind
  <2> SUFFICES ASSUME IInv
               PROVE  NoWorkerLeftBehind
    OBVIOUS
  <2> USE DEF IInv, Consistent, WorkerInv, InStep, Absent
  <2>1. Destroyed => worker.step = "none"
    <3> SUFFICES ASSUME NEW c \in Callers, At(c, "destroyed")
                 PROVE  worker.step = "none"
      BY DEF Destroyed
    <3> QED
      BY CurrentIs DEF At
  <2>2. ASSUME NEW c \in Callers, caller[c].op = "stop",
               caller[c].result = "Ok",
               caller[c].step \in {"settle_diagnostics", "end"}
        PROVE  worker.step = "none"
    <3>1. Current = caller[c]
      BY <2>2, CurrentIs DEF At
    <3> QED
      BY <2>2, <3>1
  <2>3. Quiet /\ lifecycle = "Stopped" => worker.step = "none"
    OBVIOUS
  <2> QED
    BY <2>1, <2>2, <2>3 DEF NoWorkerLeftBehind
<1> QED
  BY <1>1, Invariance, PTL

\* Between calls the diagnostics of a Stopped runtime say so.
THEOREM StoppedShows == Spec => []StoppedIsVisible
<1>1. IInv => StoppedIsVisible
  BY NoneCurrent
     DEF IInv, Consistent, DiagnosticsInv, StoppedIsVisible, InStep, Idle
<1> QED
  BY <1>1, Invariance, PTL

\* A source sees stop() once for a start, twice at most for a partial start,
\* and retry_stop() only if it opted in.
THEOREM HandoffIsOneShot == Spec => []StopIsOneShot
<1>1. IInv => StopIsOneShot
  BY DEF IInv, Consistent, HandoffInv
<1> QED
  BY <1>1, Invariance, PTL

\* A source that opted into retries is owned until it is released.
THEOREM SourceIsRetained == Spec => []RetainedUntilReleased
<1>1. IInv => RetainedUntilReleased
  BY NoneCurrent
     DEF IInv, Consistent, SourceInv, CleanupInv, RetainedUntilReleased,
         InStep, Idle
<1> QED
  BY <1>1, Invariance, PTL

\* On the ESP a callback runs only while the handle of its task is set.
THEOREM CallbacksAreKnownOnEsp == Spec => []CallbackStopRefusedOnEsp
<1>1. IInv => CallbackStopRefusedOnEsp
  BY DEF IInv, Consistent, WorkerInv, CallbackStopRefusedOnEsp
<1> QED
  BY <1>1, Invariance, PTL

\* What receive() reports because its source is being stopped is neither
\* latched nor shown.
THEOREM CancellationIsNoFault == Spec => []StopIsNoFault
<1>1. IInv => StopIsNoFault
  BY DEF IInv, Consistent, RequestInv, StopIsNoFault
<1> QED
  BY <1>1, Invariance, PTL

\* Whatever step replaces the configuration, no worker exists and nobody
\* reads it under diagnostics_mutex_.
THEOREM ConfigurationSettles == Spec => ConfigurationIsSettled
<1> DEFINE Settled == worker.step = "none" /\ diagnostics_mutex = "free"
<1>1. IInv /\ [Next]_vars => [config' # config => Settled]_vars
  <2> SUFFICES ASSUME IInv, [Next]_vars, config' # config
               PROVE  Settled
    BY DEF vars
  <2> USE DEF IInv, Consistent, WorkerInv, DiagnosticsInv, InStep, Absent
  <2>1. CASE Configure
    <3>1. Quiet
      BY <2>1, UsableIsQuiet DEF Configure, MayConfigure
    <3> QED
      BY <2>1, <3>1, NoneCurrent
         DEF Configure, MayConfigure, TypeOK, Idle
  <2>2. ASSUME NEW c \in Callers, Construct(c)
        PROVE  Settled
    <3>1. Current.step = "destroyed"
      BY <2>2, CurrentIs DEF Construct, At
    <3>2. Current.op = "destroy"
      BY <3>1, CurrentType DEF CallRecord, CallInv, StartSteps, StopSteps
    <3> QED
      BY <3>1, <3>2 DEF TypeOK
  <2>3. Configure \/ \E c \in Callers : Construct(c)
    BY OnlyTheseConfigure
  <2> QED
    BY <2>1, <2>2, <2>3
<1> QED
  BY <1>1, Invariance, PTL DEF Spec, ConfigurationIsSettled
=============================================================================

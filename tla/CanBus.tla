------------------------------- MODULE CanBus -------------------------------
(***************************************************************************)
(* The acquisition boundary can_bus (can_bus.cpp over lifecycle.hpp):      *)
(* start() and stop() run by callers, the receive task each start creates, *)
(* and the one consumer that calls receive(), over the driver of the IDF.  *)
(*                                                                         *)
(* A step is one access to state that another process reads or writes.     *)
(* driver_installed and driver_started are accessed by start() and stop()  *)
(* only, so a driver call and the mark_*() that records its outcome are    *)
(* one step.  The ring is its depth: FrameRing shows that push() and pop() *)
(* behave like operations of a bounded queue, and that a refused push()    *)
(* saw it full.                                                            *)
(***************************************************************************)
EXTENDS Integers

CONSTANTS
  Callers,     \* tasks that call start() and stop()
  Tasks,       \* identities for receive tasks, reused once a task is deleted
  Capacity,    \* kQueueCapacity
  CounterModulus,  \* 2^32: the driver counts modulo it
  MaxEvents,   \* bound on the events of one installed driver
  Serialised,  \* callers never overlap their calls
  PromptExit   \* a receive task that acknowledged gives g_task_stopped before
               \* a later start() drains it: the task outranks the callers, but
               \* nothing in the code orders the two

ASSUME CapacityAssumption == Capacity \in Nat \ {0}
ASSUME CounterAssumption ==
  CounterModulus \in Nat \ {0, 1} /\ MaxEvents \in Nat
ASSUME ModeAssumption == Serialised \in BOOLEAN /\ PromptExit \in BOOLEAN

VARIABLES
  \* LifecycleController
  state, driver_installed, driver_started, task_owned,
  \* the globals of can_bus.cpp
  receive_requested,  \* g_receive_requested
  available,          \* count of the semaphore g_available
  task_stopped,       \* the binary semaphore g_task_stopped holds a token
  depth,              \* frames in g_frames
  bus_errors,         \* the counter of that name in g_frames
  last_bus_errors,    \* g_last_driver_bus_errors
  driver,             \* the installed TWAI driver
  occurred,           \* history: the bus errors of the installed driver
  polled,             \* history: how many of them a status poll has seen
  task,               \* where each receive task is in receive_task()
  caller,             \* the call each caller runs, or its last result
  consumer            \* the receive() in progress, or its last result

flags == <<driver_installed, driver_started, task_owned>>
lifecycle == <<state, flags>>
semaphores == <<available, task_stopped>>
counting == <<bus_errors, last_bus_errors, occurred, polled>>
ring == <<depth, counting>>
queue == <<semaphores, ring>>
others == <<task, consumer>>   \* the processes a caller's step leaves alone
vars == <<lifecycle, receive_requested, queue, driver, others, caller>>

LifecycleStates == {"Stopped", "Running", "Stopping", "Faulted"}
Results == {"kOk", "kInvalidConfiguration", "kAlreadyStarted", "kNotStarted",
            "kStopping", "kFaulted", "kTimeout", "kDriverFailure",
            "kTaskFailure"}
StartSteps == {"begin_start", "refused", "drain", "install", "abort",
               "start_driver", "undo_install", "clear", "request",
               "mark_task", "create", "give_up", "give_up_driver",
               "give_up_install"}
StopSteps == {"begin_stop", "withdraw", "stop_driver", "check_task",
              "wait_task", "acknowledge", "take_token", "uninstall",
              "finish"}
CallerSteps == {"idle", "reconcile", "store"} \cup StartSteps \cup StopSteps
TaskSteps == {"none", "loop", "receive", "push", "give", "status", "alerts",
              "latch", "latch_state", "wake", "acknowledge", "exit"}
ConsumerSteps == {"idle", "check", "wait", "timed_out", "recheck", "pop"}

TypeOK ==
  /\ state \in LifecycleStates
  /\ driver_installed \in BOOLEAN
  /\ driver_started \in BOOLEAN
  /\ task_owned \in BOOLEAN
  /\ receive_requested \in BOOLEAN
  /\ available \in 0 .. Capacity
  /\ task_stopped \in BOOLEAN
  /\ depth \in 0 .. Capacity
  /\ bus_errors \in Nat
  /\ last_bus_errors \in 0 .. CounterModulus - 1
  /\ occurred \in 0 .. MaxEvents
  /\ polled \in 0 .. occurred
  /\ driver \in {"absent", "stopped", "running"}
  /\ task \in [Tasks -> TaskSteps]
  /\ caller \in [Callers -> [step : CallerSteps,
                             op : {"none", "start", "stop"},
                             driver_stopped : BOOLEAN,
                             task_stopped : BOOLEAN,
                             driver_uninstalled : BOOLEAN,
                             verdict : LifecycleStates,
                             result : Results \cup {"none"}]]
  /\ consumer \in [step : ConsumerSteps, result : Results \cup {"none"}]

NoCall == [step |-> "idle", op |-> "none", driver_stopped |-> FALSE,
           task_stopped |-> FALSE, driver_uninstalled |-> FALSE,
           verdict |-> "Stopped", result |-> "none"]

Init ==
  /\ state = "Stopped"
  /\ driver_installed = FALSE
  /\ driver_started = FALSE
  /\ task_owned = FALSE
  /\ receive_requested = FALSE
  /\ available = 0
  /\ task_stopped = FALSE
  /\ depth = 0
  /\ bus_errors = 0
  /\ last_bus_errors = 0
  /\ occurred = 0
  /\ polled = 0
  /\ driver = "absent"
  /\ task = [t \in Tasks |-> "none"]
  /\ caller = [c \in Callers |-> NoCall]
  /\ consumer = [step |-> "idle", result |-> "none"]

-----------------------------------------------------------------------------
At(c, step) == caller[c].step = step
Go(c, step) == caller' = [caller EXCEPT ![c].step = step]
Call(c, op, step) ==
  caller' = [caller EXCEPT ![c] = [NoCall EXCEPT !.op = op, !.step = step]]
Return(c, result) ==
  caller' = [caller EXCEPT ![c] = [NoCall EXCEPT !.op = caller[c].op,
                                                 !.result = result]]

\* The call will return this result once it has cleaned up.
FailLater(c, step, result) ==
  caller' = [caller EXCEPT ![c].step = step, ![c].result = result]

MayCall(c) == /\ At(c, "idle")
              /\ Serialised => \A other \in Callers : At(other, "idle")

\* Between the acknowledgement and the deletion of its task a run is over.
Live(t) == task[t] \notin {"none", "exit"}
Starting == \E c \in Callers : caller[c].op = "start" /\ ~At(c, "idle")

\* The result that names a lifecycle state other than Running.
StateResult(s) == CASE s = "Stopped" -> "kNotStarted"
                    [] s = "Stopping" -> "kStopping"
                    [] s = "Faulted" -> "kFaulted"
                    [] s = "Running" -> "kAlreadyStarted"

\* Bug: the semaphore is created with no maximum count.
GiveAvailableUnbounded == available' = available + 1

\* xSemaphoreGive on g_available, which counts to kQueueCapacity.
GiveAvailable ==
  available' = IF available < Capacity THEN available + 1 ELSE available

-----------------------------------------------------------------------------
(***************************************************************************)
(* start().  The consumer has been stopped (can_bus.h:77-79).              *)
(***************************************************************************)
StartCall(c) ==
  /\ MayCall(c)
  /\ consumer.step = "idle"
  /\ Call(c, "start", "begin_start")
  /\ UNCHANGED <<lifecycle, receive_requested, queue, driver, others>>

\* A configuration that is not valid is refused before anything is touched.
StartInvalid(c) ==
  /\ MayCall(c)
  /\ consumer.step = "idle"
  /\ caller' = [caller EXCEPT ![c] =
       [NoCall EXCEPT !.op = "start", !.result = "kInvalidConfiguration"]]
  /\ UNCHANGED <<lifecycle, receive_requested, queue, driver, others>>

\* Bug: a faulted run may be started over without a stop().
StartableOver == state \in {"Stopped", "Faulted"}

Startable == state = "Stopped"

BeginStart(c) ==
  /\ At(c, "begin_start")
  /\ IF Startable
     THEN state' = "Running" /\ Go(c, "drain")
     ELSE UNCHANGED state /\ Go(c, "refused")
  /\ UNCHANGED <<flags, receive_requested, queue, driver, others>>

StartRefused(c) ==
  /\ At(c, "refused")
  /\ Return(c, StateResult(state))
  /\ UNCHANGED <<lifecycle, receive_requested, queue, driver, others>>

\* Both semaphores are drained.
StartDrain(c) ==
  /\ At(c, "drain")
  /\ PromptExit => \A t \in Tasks : task[t] # "exit"
  /\ available' = 0
  /\ task_stopped' = FALSE
  /\ Go(c, "install")
  /\ UNCHANGED <<lifecycle, receive_requested, ring, driver, others>>

StartInstall(c) ==
  /\ At(c, "install")
  /\ \/ /\ driver = "absent"
        /\ driver' = "stopped"
        /\ driver_installed' = TRUE
        /\ occurred' = 0 /\ polled' = 0
        /\ Go(c, "start_driver")
     \/ /\ Go(c, "abort")
        /\ UNCHANGED <<driver, driver_installed, occurred, polled>>
  /\ UNCHANGED <<state, driver_started, task_owned, receive_requested,
                 semaphores, depth, bus_errors, last_bus_errors, others>>

\* abort_start()
StartAbort(c) ==
  /\ At(c, "abort")
  /\ state' = IF driver_installed \/ task_owned THEN state ELSE "Stopped"
  /\ Return(c, "kDriverFailure")
  /\ UNCHANGED <<flags, receive_requested, queue, driver, others>>

StartDriver(c) ==
  /\ At(c, "start_driver")
  /\ \/ /\ driver = "stopped"
        /\ driver' = "running"
        /\ driver_started' = TRUE
        /\ Go(c, "clear")
     \/ /\ Go(c, "undo_install")
        /\ UNCHANGED <<driver, driver_started>>
  /\ UNCHANGED <<state, driver_installed, task_owned, receive_requested, queue,
                 others>>

\* Bug: the uninstalled driver is not marked so.
UninstallsUnmarked == /\ driver = "stopped"
                      /\ driver' = "absent"
                      /\ UNCHANGED driver_installed

\* twai_driver_uninstall() succeeds only on a driver that does not run.
Uninstalls == /\ driver = "stopped"
              /\ driver' = "absent"
              /\ driver_installed' = FALSE

StartUndoInstall(c) ==
  /\ At(c, "undo_install")
  /\ Uninstalls \/ UNCHANGED <<driver, driver_installed>>
  /\ FailLater(c, "reconcile", "kDriverFailure")
  /\ UNCHANGED <<state, driver_started, task_owned, receive_requested, queue,
                 others>>

\* Bug: the counters of the previous driver are still compared with.
StartClearFramesOnly(c) ==
  /\ At(c, "clear")
  /\ depth' = 0 /\ bus_errors' = 0
  /\ Go(c, "request")
  /\ UNCHANGED <<lifecycle, receive_requested, semaphores, last_bus_errors,
                 occurred, polled, driver, others>>

StartClear(c) ==
  /\ At(c, "clear")
  /\ depth' = 0 /\ bus_errors' = 0
  /\ last_bus_errors' = 0
  /\ Go(c, "request")
  /\ UNCHANGED <<lifecycle, receive_requested, semaphores, occurred, polled,
                 driver, others>>

StartRequest(c) ==
  /\ At(c, "request")
  /\ receive_requested' = TRUE
  /\ Go(c, "mark_task")
  /\ UNCHANGED <<lifecycle, queue, driver, others>>

StartMarkTask(c) ==
  /\ At(c, "mark_task")
  /\ task_owned' = TRUE
  /\ Go(c, "create")
  /\ UNCHANGED <<state, driver_installed, driver_started, receive_requested,
                 queue, driver, others>>

StartCreate(c) ==
  /\ At(c, "create")
  /\ \/ /\ \E t \in Tasks : /\ task[t] = "none"
                            /\ task' = [task EXCEPT ![t] = "loop"]
        /\ Return(c, "kOk")
     \/ /\ Go(c, "give_up")
        /\ UNCHANGED task
  /\ UNCHANGED <<lifecycle, receive_requested, queue, driver, consumer>>

\* The request is withdrawn, the task acknowledged and begin_stop() called
\* with its result ignored; no task exists to see an intermediate state.
StartGiveUp(c) ==
  /\ At(c, "give_up")
  /\ receive_requested' = FALSE
  /\ task_owned' = FALSE
  /\ state' = IF state = "Stopped" THEN state ELSE "Stopping"
  /\ FailLater(c, "give_up_driver", "kTaskFailure")
  /\ UNCHANGED <<driver_installed, driver_started, queue, driver, others>>

\* twai_stop() succeeds only on a running driver.
StopsDriver == /\ driver = "running"
               /\ driver' = "stopped"
               /\ driver_started' = FALSE

StartGiveUpDriver(c) ==
  /\ At(c, "give_up_driver")
  /\ \/ StopsDriver /\ Go(c, "give_up_install")
     \/ Go(c, "reconcile") /\ UNCHANGED <<driver, driver_started>>
  /\ UNCHANGED <<state, driver_installed, task_owned, receive_requested, queue,
                 others>>

StartGiveUpInstall(c) ==
  /\ At(c, "give_up_install")
  /\ Uninstalls \/ UNCHANGED <<driver, driver_installed>>
  /\ Go(c, "reconcile")
  /\ UNCHANGED <<state, driver_started, task_owned, receive_requested, queue,
                 others>>

-----------------------------------------------------------------------------
(***************************************************************************)
(* reconcile(): the flags are read, then the state is stored.              *)
(***************************************************************************)
\* Bug: only the task counts as an owner.
VerdictIgnoresDriver == IF task_owned THEN "Stopping" ELSE "Stopped"

Verdict == IF task_owned THEN "Stopping"
           ELSE IF driver_installed THEN "Faulted" ELSE "Stopped"

Reconcile(c) ==
  /\ At(c, "reconcile")
  /\ caller' = [caller EXCEPT ![c].step = "store", ![c].verdict = Verdict]
  /\ UNCHANGED <<lifecycle, receive_requested, queue, driver, others>>

ReconcileStore(c) ==
  /\ At(c, "store")
  /\ state' = caller[c].verdict
  /\ IF caller[c].op = "start" THEN Return(c, caller[c].result)
                               ELSE Go(c, "finish")
  /\ UNCHANGED <<flags, receive_requested, queue, driver, others>>

-----------------------------------------------------------------------------
(***************************************************************************)
(* stop()                                                                  *)
(***************************************************************************)
StopCall(c) ==
  /\ MayCall(c)
  /\ Call(c, "stop", "begin_stop")
  /\ UNCHANGED <<lifecycle, receive_requested, queue, driver, others>>

\* Bug: a stop() that is still in progress cannot be retried.
NothingToStopTwice == state \in {"Stopped", "Stopping"}

NothingToStop == state = "Stopped"

BeginStop(c) ==
  /\ At(c, "begin_stop")
  /\ IF NothingToStop
     THEN UNCHANGED state /\ Return(c, "kNotStarted")
     ELSE state' = "Stopping" /\ Go(c, "withdraw")
  /\ UNCHANGED <<flags, receive_requested, queue, driver, others>>

StopWithdraw(c) ==
  /\ At(c, "withdraw")
  /\ receive_requested' = FALSE
  /\ Go(c, "stop_driver")
  /\ UNCHANGED <<lifecycle, queue, driver, others>>

StopDriverDone(c) ==
  /\ At(c, "stop_driver")
  /\ \/ ~driver_started /\ UNCHANGED <<driver, driver_started>>
     \/ driver_started /\ StopsDriver
  /\ caller' = [caller EXCEPT ![c].step = "check_task",
                              ![c].driver_stopped = TRUE]
  /\ UNCHANGED <<state, driver_installed, task_owned, receive_requested, queue,
                 others>>

StopDriverFails(c) ==
  /\ At(c, "stop_driver")
  /\ driver_started
  /\ Go(c, "check_task")
  /\ UNCHANGED <<lifecycle, receive_requested, queue, driver, others>>

StopCheckTask(c) ==
  /\ At(c, "check_task")
  /\ Go(c, IF task_owned THEN "wait_task" ELSE "take_token")
  /\ UNCHANGED <<lifecycle, receive_requested, queue, driver, others>>

\* Up to 100 ms on g_task_stopped.
StopWaitTask(c) ==
  /\ At(c, "wait_task")
  /\ \/ /\ task_stopped
        /\ task_stopped' = FALSE
        /\ Go(c, "acknowledge")
     \/ /\ ~task_stopped
        /\ Go(c, "uninstall")
        /\ UNCHANGED task_stopped
  /\ UNCHANGED <<lifecycle, receive_requested, available, ring, driver,
                 others>>

StopAcknowledge(c) ==
  /\ At(c, "acknowledge")
  /\ task_owned' = FALSE
  /\ caller' = [caller EXCEPT ![c].step = "uninstall",
                              ![c].task_stopped = TRUE]
  /\ UNCHANGED <<state, driver_installed, driver_started, receive_requested,
                 queue, driver, others>>

StopTakeToken(c) ==
  /\ At(c, "take_token")
  /\ task_stopped' = FALSE
  /\ caller' = [caller EXCEPT ![c].step = "uninstall",
                              ![c].task_stopped = TRUE]
  /\ UNCHANGED <<lifecycle, receive_requested, available, ring, driver,
                 others>>

\* Bug: the driver goes although the wait for the task timed out.
MayUninstallEarly(c) == caller[c].driver_stopped

MayUninstall(c) == caller[c].driver_stopped /\ caller[c].task_stopped

StopUninstallDone(c) ==
  /\ At(c, "uninstall")
  /\ \/ ~driver_installed /\ UNCHANGED <<driver, driver_installed>>
     \/ driver_installed /\ MayUninstall(c) /\ Uninstalls
  /\ caller' = [caller EXCEPT ![c].step = "reconcile",
                              ![c].driver_uninstalled = TRUE]
  /\ UNCHANGED <<state, driver_started, task_owned, receive_requested, queue,
                 others>>

StopUninstallFails(c) ==
  /\ At(c, "uninstall")
  /\ driver_installed
  /\ Go(c, "reconcile")
  /\ UNCHANGED <<lifecycle, receive_requested, queue, driver, others>>

StopFinish(c) ==
  /\ At(c, "finish")
  /\ LET call == caller[c] IN
       IF /\ call.driver_stopped
          /\ call.task_stopped
          /\ call.driver_uninstalled
       THEN available' = 0 /\ Return(c, "kOk")
       ELSE /\ UNCHANGED available
            /\ Return(c, IF call.task_stopped THEN "kDriverFailure"
                         ELSE "kTaskFailure")
  /\ UNCHANGED <<lifecycle, receive_requested, task_stopped, ring, driver,
                 others>>

-----------------------------------------------------------------------------
(***************************************************************************)
(* receive_task().  A driver call fails if the driver is absent, and may   *)
(* fail otherwise.                                                         *)
(***************************************************************************)
TaskAt(t, step) == task[t] = step
TaskGoes(t, step) == task' = [task EXCEPT ![t] = step]

TaskLoop(t) ==
  /\ TaskAt(t, "loop")
  /\ TaskGoes(t, IF receive_requested THEN "receive" ELSE "acknowledge")
  /\ UNCHANGED <<lifecycle, receive_requested, queue, driver, caller,
                 consumer>>

\* A valid frame is pushed, an invalid one and an empty queue go on to the
\* status poll, any other result is terminal.
TaskReceive(t) ==
  /\ TaskAt(t, "receive")
  /\ \/ driver # "absent" /\ (TaskGoes(t, "push") \/ TaskGoes(t, "status"))
     \/ TaskGoes(t, "latch")
  /\ UNCHANGED <<lifecycle, receive_requested, queue, driver, caller,
                 consumer>>

TaskPush(t) ==
  /\ TaskAt(t, "push")
  /\ IF depth < Capacity
     THEN depth' = depth + 1 /\ TaskGoes(t, "give")
     ELSE UNCHANGED depth /\ TaskGoes(t, "status")
  /\ UNCHANGED <<lifecycle, receive_requested, semaphores, counting, driver,
                 caller, consumer>>

TaskGive(t) ==
  /\ TaskAt(t, "give")
  /\ GiveAvailable
  /\ TaskGoes(t, "status")
  /\ UNCHANGED <<lifecycle, receive_requested, task_stopped, ring, driver,
                 caller, consumer>>

\* The driver counts its errors from 0 when it is installed.  More than 2^32
\* of them in one poll interval are left out.
DriverEvent ==
  /\ driver = "running"
  /\ occurred < MaxEvents
  /\ occurred - polled < CounterModulus - 1
  /\ occurred' = occurred + 1
  /\ UNCHANGED <<lifecycle, receive_requested, semaphores, depth, bus_errors,
                 last_bus_errors, polled, driver, others, caller>>

DriverCounter == occurred % CounterModulus

\* The unsigned difference of two 32-bit counters.
CounterDelta(current, previous) == (current - previous) % CounterModulus

\* collect_driver_status(), of whose three counters one is kept.
TaskStatus(t) ==
  /\ TaskAt(t, "status")
  /\ \/ /\ driver # "absent"
        /\ bus_errors' = bus_errors
                           + CounterDelta(DriverCounter, last_bus_errors)
        /\ last_bus_errors' = DriverCounter
        /\ polled' = occurred
        /\ TaskGoes(t, "alerts")
     \/ /\ TaskGoes(t, "latch")
        /\ UNCHANGED <<bus_errors, last_bus_errors, polled>>
  /\ UNCHANGED <<lifecycle, receive_requested, semaphores, depth, occurred,
                 driver, caller, consumer>>

\* collect_alerts(): a failure and bus-off are terminal.
TaskAlerts(t) ==
  /\ TaskAt(t, "alerts")
  /\ \/ driver # "absent" /\ TaskGoes(t, "loop")
     \/ TaskGoes(t, "latch")
  /\ UNCHANGED <<lifecycle, receive_requested, queue, driver, caller,
                 consumer>>

\* Bug: the consumer is woken before the fault is latched.
TaskLatchWakesFirst(t) ==
  /\ TaskAt(t, "latch")
  /\ receive_requested' = FALSE
  /\ GiveAvailable
  /\ TaskGoes(t, "latch_state")
  /\ UNCHANGED <<lifecycle, task_stopped, ring, driver, caller, consumer>>

\* latch_terminal_fault(): withdraw the request, latch, wake the consumer.
TaskLatch(t) ==
  /\ TaskAt(t, "latch")
  /\ receive_requested' = FALSE
  /\ TaskGoes(t, "latch_state")
  /\ UNCHANGED <<lifecycle, queue, driver, caller, consumer>>

\* Bug: the fault is latched silently.
TaskLatchSilently(t) ==
  /\ TaskAt(t, "latch_state")
  /\ state' = IF state = "Stopped" THEN state ELSE "Faulted"
  /\ TaskGoes(t, "acknowledge")
  /\ UNCHANGED <<flags, receive_requested, queue, driver, caller, consumer>>

\* latch_fault(): a run being stopped becomes Faulted too.
TaskLatchState(t) ==
  /\ TaskAt(t, "latch_state")
  /\ IF state \in {"Faulted", "Stopped"}
     THEN UNCHANGED state /\ TaskGoes(t, "acknowledge")
     ELSE state' = "Faulted" /\ TaskGoes(t, "wake")
  /\ UNCHANGED <<flags, receive_requested, queue, driver, caller, consumer>>

TaskWake(t) ==
  /\ TaskAt(t, "wake")
  /\ GiveAvailable
  /\ TaskGoes(t, "acknowledge")
  /\ UNCHANGED <<lifecycle, receive_requested, task_stopped, ring, driver,
                 caller, consumer>>

TaskAcknowledge(t) ==
  /\ TaskAt(t, "acknowledge")
  /\ task_owned' = FALSE
  /\ TaskGoes(t, "exit")
  /\ UNCHANGED <<state, driver_installed, driver_started, receive_requested,
                 queue, driver, caller, consumer>>

\* xSemaphoreGive(g_task_stopped), then the task deletes itself.
TaskExit(t) ==
  /\ TaskAt(t, "exit")
  /\ task_stopped' = TRUE
  /\ TaskGoes(t, "none")
  /\ UNCHANGED <<lifecycle, receive_requested, available, ring, driver,
                 caller, consumer>>

-----------------------------------------------------------------------------
(***************************************************************************)
(* receive(), by the one consumer, which never overlaps a start().         *)
(***************************************************************************)
ConsumerAt(step) == consumer.step = step
ConsumerGoes(step) == consumer' = [step |-> step, result |-> "none"]
Receives(result) == consumer' = [step |-> "idle", result |-> result]

ReceiveCall ==
  /\ ConsumerAt("idle")
  /\ ~Starting
  /\ ConsumerGoes("check")
  /\ UNCHANGED <<lifecycle, receive_requested, queue, driver, task, caller>>

ReceiveCheck ==
  /\ ConsumerAt("check")
  /\ IF state = "Running" THEN ConsumerGoes("wait")
                          ELSE Receives(StateResult(state))
  /\ UNCHANGED <<lifecycle, receive_requested, queue, driver, task, caller>>

ReceiveToken ==
  /\ ConsumerAt("wait")
  /\ available > 0
  /\ available' = available - 1
  /\ ConsumerGoes("recheck")
  /\ UNCHANGED <<lifecycle, receive_requested, task_stopped, ring, driver,
                 task, caller>>

ReceiveTimeout ==
  /\ ConsumerAt("wait")
  /\ available = 0
  /\ ConsumerGoes("timed_out")
  /\ UNCHANGED <<lifecycle, receive_requested, queue, driver, task, caller>>

\* "A terminal fault may race the end of the bounded wait."
ReceiveTimedOut ==
  /\ ConsumerAt("timed_out")
  /\ Receives(IF state = "Running" THEN "kTimeout" ELSE StateResult(state))
  /\ UNCHANGED <<lifecycle, receive_requested, queue, driver, task, caller>>

ReceiveRecheck ==
  /\ ConsumerAt("recheck")
  /\ IF state = "Running" THEN ConsumerGoes("pop")
                          ELSE Receives(StateResult(state))
  /\ UNCHANGED <<lifecycle, receive_requested, queue, driver, task, caller>>

ReceivePop ==
  /\ ConsumerAt("pop")
  /\ IF depth > 0 THEN depth' = depth - 1 /\ Receives("kOk")
                  ELSE UNCHANGED depth /\ Receives("kDriverFailure")
  /\ UNCHANGED <<lifecycle, receive_requested, semaphores, counting, driver,
                 task, caller>>

-----------------------------------------------------------------------------
Start(c) == \/ BeginStart(c) \/ StartRefused(c) \/ StartDrain(c)
            \/ StartInstall(c) \/ StartAbort(c) \/ StartDriver(c)
            \/ StartUndoInstall(c) \/ StartClear(c) \/ StartRequest(c)
            \/ StartMarkTask(c) \/ StartCreate(c) \/ StartGiveUp(c)
            \/ StartGiveUpDriver(c) \/ StartGiveUpInstall(c)
Stop(c) == \/ BeginStop(c) \/ StopWithdraw(c) \/ StopDriverDone(c)
           \/ StopDriverFails(c) \/ StopCheckTask(c) \/ StopWaitTask(c)
           \/ StopAcknowledge(c) \/ StopTakeToken(c)
           \/ StopUninstallDone(c) \/ StopUninstallFails(c)
           \/ StopFinish(c)
Reconciles(c) == Reconcile(c) \/ ReconcileStore(c)
CallerStep(c) == Start(c) \/ Stop(c) \/ Reconciles(c)
ReceiveTask(t) == \/ TaskLoop(t) \/ TaskReceive(t) \/ TaskPush(t)
                  \/ TaskGive(t) \/ TaskStatus(t) \/ TaskAlerts(t)
                  \/ TaskLatch(t) \/ TaskLatchState(t) \/ TaskWake(t)
                  \/ TaskAcknowledge(t) \/ TaskExit(t)
Receive == \/ ReceiveCheck \/ ReceiveToken \/ ReceiveTimeout
           \/ ReceiveTimedOut \/ ReceiveRecheck \/ ReceivePop

Next == \/ \E c \in Callers : \/ StartCall(c) \/ StartInvalid(c)
                              \/ StopCall(c) \/ CallerStep(c)
        \/ \E t \in Tasks : ReceiveTask(t)
        \/ ReceiveCall
        \/ Receive
        \/ DriverEvent

Spec == Init /\ [][Next]_vars

(***************************************************************************)
(* Every process the scheduler runs makes progress; a caller whose stop()  *)
(* has not succeeded calls it again, as can_bus.h:17 invites it to; and    *)
(* the driver's stop and uninstall do not fail forever, an assumption on   *)
(* the IDF.                                                                *)
(***************************************************************************)
Fairness ==
  /\ \A c \in Callers : /\ WF_vars(CallerStep(c))
                        /\ SF_vars(StopCall(c))
                        /\ SF_vars(StopDriverDone(c))
                        /\ SF_vars(StopUninstallDone(c))
  /\ \A t \in Tasks : WF_vars(ReceiveTask(t))
  /\ WF_vars(Receive)

FairSpec == Spec /\ Fairness

-----------------------------------------------------------------------------
(***************************************************************************)
(* Properties.                                                             *)
(***************************************************************************)
Quiet == \A c \in Callers : At(c, "idle")

\* "start() must not create a second owner" (can_bus.h:17): when start() is
\* about to install the driver none is installed, and it is never about to
\* create a task, nor does one, while the task of another run still lives.
NoSecondOwner ==
  /\ \A c \in Callers :
       /\ At(c, "install") => driver = "absent"
       /\ caller[c].op = "start" /\ caller[c].step \in StartSteps
                                     \ {"begin_start", "refused"}
            => \A t \in Tasks : ~Live(t)
  /\ \A t, u \in Tasks : Live(t) /\ Live(u) => t = u

\* The receive task uses the driver until it acknowledges: a stop() that gave
\* up waiting, or took an old token, must not uninstall it underneath.
DriverOutlivesTask == (\E t \in Tasks : Live(t)) => driver # "absent"

\* "The controller becomes restartable only after both owners are gone"
\* (lifecycle.hpp:105-106): between calls a Stopped controller has no driver,
\* no task, and no token that the consumer of a later run could take.
RestartableOnlyWhenReleased ==
  Quiet /\ state = "Stopped" =>
    /\ driver = "absent" /\ \A t \in Tasks : ~Live(t)
    /\ available = 0

\* Between calls the ownership flags tell the truth: a late mark never
\* overwrites the acknowledgement of a task that faulted at once
\* (can_bus.cpp:217-219), and no failure path forgets a driver, nor leaves
\* a boundary that holds none in a state other than Stopped.
FlagsTellTheTruth ==
  Quiet => /\ task_owned <=> \E t \in Tasks : Live(t)
           /\ driver_installed <=> driver # "absent"
           /\ driver_started <=> driver = "running"
           /\ driver = "absent" => state = "Stopped"

\* A token is always backed by a frame or by a fault: receive() never finds
\* the ring empty after taking one, so kDriverFailure never comes from it and
\* no stale token of an earlier run survives into the next.
NoPhantomFrame == ConsumerAt("pop") => depth > 0

\* A consumer that waits when the receive task faults has a token to wake it
\* as soon as the task has signalled, until somebody stops the run: the fault
\* cannot be mistaken for an idle bus.
FaultWakesConsumer ==
  /\ state = "Faulted"
  /\ ConsumerAt("wait")
  /\ \A c \in Callers : caller[c].op = "start"
  /\ \A t \in Tasks : task[t] # "wake"
  => available > 0

\* Whatever the wraps of the driver's counter and the number of drivers that
\* counted before, the statistics hold every error that a status poll of this
\* run has seen, and no other (configuration.hpp:10-11, can_bus.cpp:213-215).
DriverEventsCounted ==
  \A t \in Tasks : Live(t) => bus_errors = polled

\* A retried stop() gets the boundary back to Stopped, from a timed-out stop,
\* from a terminal fault and from a driver that refused to stop or to be
\* uninstalled.
StopEventuallySucceeds ==
  state \in {"Stopping", "Faulted"} ~> state = "Stopped"

\* receive.hpp:27-29 asks that a stop "must request cancellation of
\* receive() before returning, including when it reports Timeout or
\* Stopping": a consumer still waiting when stop() has returned has a token.
StopCancelsReceive ==
  \A c \in Callers :
    /\ At(c, "idle") /\ caller[c].op = "stop"
    /\ caller[c].result \in {"kOk", "kTaskFailure", "kDriverFailure"}
    /\ ConsumerAt("wait")
    => available > 0
=============================================================================

---------------------------- MODULE CanBusProofs ----------------------------
(***************************************************************************)
(* Theorems about CanBus and CanBusSource, for any callers, task           *)
(* identities, capacity, width of the driver's counters and number of its  *)
(* events.  All but the first assume what the runs assume: callers that do *)
(* not overlap their calls, and an acknowledged task that is gone before   *)
(* the next start().  Two runs show why they are needed.                   *)
(***************************************************************************)
EXTENDS CanBusSource, TLAPS

Scheduled == Serialised /\ PromptExit

(***************************************************************************)
(* Serialised callers have one call in progress, and no start() creates a  *)
(* task before the last one is gone: what the invariant says of steps, it  *)
(* says of these two.                                                      *)
(***************************************************************************)
CurrentIn(calls) ==
  IF \A c \in Callers : calls[c].step = "idle" THEN NoCall
  ELSE calls[CHOOSE c \in Callers : calls[c].step # "idle"]

Current == CurrentIn(caller)

TaskStepIn(tasks) ==
  IF \A t \in Tasks : tasks[t] = "none" THEN "none"
  ELSE tasks[CHOOSE t \in Tasks : tasks[t] # "none"]

TaskStep == TaskStepIn(task)

InStep(steps) == Current.step \in steps
Alive == TaskStep \notin {"none", "exit"}

OneCall ==
  \A c, d \in Callers : ~At(c, "idle") /\ ~At(d, "idle") => c = d
OneTask ==
  \A t, u \in Tasks : task[t] # "none" /\ task[u] # "none" => t = u

\* Since the last call of each caller nobody has asked to stop.
Unstopped == \A c \in Callers : caller[c].op = "start"

CallRecord == [step : CallerSteps, op : {"none", "start", "stop"},
               driver_stopped : BOOLEAN, task_stopped : BOOLEAN,
               driver_uninstalled : BOOLEAN, verdict : LifecycleStates,
               result : Results \cup {"none"}]
ConsumerRecord == [step : ConsumerSteps, result : Results \cup {"none"}]

\* A start() that has drained the semaphores.
Installing == {"install", "abort"}
Installed == {"start_driver", "undo_install", "give_up_install"}
Started == {"clear", "request", "mark_task", "create", "give_up",
            "give_up_driver"}
Prepared == {"start_driver", "undo_install", "clear", "request", "mark_task",
             "create", "give_up"}
Fresh == \/ InStep(Installing \cup Installed \cup Started)
         \/ Current.op = "start" /\ InStep({"reconcile", "store"})
\* A stop() before and after it has asked the driver to stop.
Asking == {"begin_stop", "withdraw", "stop_driver"}
Waiting == {"check_task", "wait_task", "acknowledge", "take_token"}
Releasing == Waiting \cup {"uninstall"}
Settling == {"reconcile", "store", "finish"}
StopCalled == Current.op = "stop"

(***************************************************************************)
(* The inductive invariant, by subject.                                    *)
(***************************************************************************)
\* A call is at a step of its operation.
CallInv ==
  /\ Current.op = "none" => InStep({"idle"})
  /\ Current.op = "start" => InStep(StartSteps \cup {"reconcile", "store"})
  /\ Current.op = "stop" => InStep(StopSteps \cup {"reconcile", "store"})

\* The flags tell of the driver always, of the task except while start()
\* creates it.
FlagsInv ==
  /\ driver_installed => driver # "absent"
  /\ driver # "absent" => driver_installed
  /\ driver_started => driver = "running"
  /\ driver = "running" => driver_started
  /\ Alive => task_owned /\ driver # "absent"
  /\ task_owned => Alive \/ InStep({"create", "give_up"})
  /\ InStep({"create", "give_up"}) => task_owned
  /\ task_stopped => TaskStep = "none"
  /\ TaskStep = "wake" => state \notin {"Running", "Stopped"}

\* What start() has made of the boundary before it creates its task.
StartInv ==
  /\ InStep({"drain"}) => TaskStep \in {"none", "exit"}
                          /\ ~driver_installed /\ ~task_owned
  /\ Fresh => TaskStep = "none" /\ available = 0 /\ ~task_stopped
  /\ InStep({"drain", "install", "abort"} \cup Prepared) => state = "Running"
  /\ InStep(Installing) => driver = "absent"
  /\ InStep(Installed) => driver = "stopped"
  /\ InStep(Started) => driver = "running"
  /\ InStep({"refused"}) => state # "Stopped"
  /\ (\/ InStep({"give_up_driver", "give_up_install"})
      \/ Current.op = "start" /\ InStep({"reconcile", "store"})) =>
       Current.result \in {"kDriverFailure", "kTaskFailure"}
  /\ Current.op = "start" /\ InStep({"store"}) =>
       Current.verdict = IF driver_installed THEN "Faulted" ELSE "Stopped"
  /\ Current.op = "start" => consumer.step = "idle"

\* The counters agree wherever a task may poll.
CountInv ==
  /\ occurred - polled < CounterModulus
  /\ InStep({"start_driver", "clear"}) => polled = 0
  /\ InStep({"request", "mark_task", "create"}) \/ Alive =>
       /\ bus_errors = polled
       /\ last_bus_errors = polled % CounterModulus

\* What stop() notes fits what it has done.
StopInv ==
  /\ InStep(Asking) => ~Current.driver_stopped
  /\ InStep(Asking \cup Releasing) => ~Current.driver_uninstalled
  /\ InStep(Asking \cup Waiting) => ~Current.task_stopped
  /\ InStep({"withdraw", "stop_driver"} \cup Releasing) =>
       state \notin {"Running", "Stopped"}
  /\ StopCalled /\ InStep({"reconcile", "store"}) =>
       state \notin {"Running", "Stopped"}
  /\ StopCalled /\ InStep(Releasing \cup Settling) =>
       /\ Current.driver_stopped => ~driver_started
       /\ ~Current.driver_stopped => driver_started
  /\ InStep({"wait_task", "acknowledge"}) => driver_installed
  /\ InStep({"acknowledge"}) => TaskStep = "none"
  /\ InStep({"take_token"}) => ~task_owned
  /\ StopCalled /\ InStep(Settling \cup {"uninstall"}) =>
       /\ Current.task_stopped => ~task_owned
       /\ ~Current.task_stopped => driver_installed
  /\ StopCalled /\ InStep(Settling) =>
       /\ Current.driver_uninstalled => ~driver_installed
       /\ ~Current.driver_uninstalled => driver_installed
  /\ StopCalled /\ InStep({"store"}) =>
       /\ Current.verdict \in {"Stopping", "Faulted", "Stopped"}
       /\ Current.verdict = "Stopped" => ~driver_installed /\ ~task_owned
       /\ ~driver_installed => Current.verdict = "Stopped"

\* A Stopped boundary holds nothing, and one that holds nothing is Stopped.
StoppedInv ==
  /\ state = "Stopped" => /\ ~driver_installed /\ ~task_owned
                          /\ TaskStep \in {"none", "exit"}
                          /\ available = 0 \/ InStep({"finish"})
  /\ InStep({"idle", "begin_start", "begin_stop", "finish", "refused"}) =>
       driver_installed \/ state = "Stopped"

\* Every token of a run that goes on has its frame.
BackedInv ==
  /\ state = "Running" /\ ~InStep({"drain"}) =>
       available + (IF TaskStep = "give" THEN 1 ELSE 0)
                 + (IF consumer.step \in {"recheck", "pop"} THEN 1 ELSE 0)
         <= depth
  /\ ConsumerAt("pop") => depth > 0

\* A consumer that waits, which nobody has stopped, waits for a run that goes
\* on, or has its token.
FaultInv ==
  ConsumerAt("wait") /\ Unstopped =>
    \/ state = "Running"
    \/ state = "Faulted" /\ (TaskStep = "wake" \/ available > 0)

Consistent == /\ CallInv
              /\ FlagsInv
              /\ StartInv
              /\ CountInv
              /\ StopInv
              /\ StoppedInv
              /\ BackedInv
              /\ FaultInv

IInv == Scheduled /\ TypeOK /\ OneCall /\ OneTask /\ Consistent

-----------------------------------------------------------------------------
\* What the steps of the callers and of the tasks make of the call and of the
\* task in progress.

\* The only caller that is not idle makes the current call.
LEMMA OnlyCall ==
  ASSUME NEW calls, NEW c \in Callers, calls[c].step # "idle",
         \A d \in Callers : d # c => calls[d].step = "idle"
  PROVE  CurrentIn(calls) = calls[c]
<1> DEFINE d == CHOOSE e \in Callers : calls[e].step # "idle"
<1>1. d \in Callers /\ calls[d].step # "idle"
  OBVIOUS
<1>2. d = c
  BY <1>1
<1> QED
  BY <1>2 DEF CurrentIn

\* A call in progress is the current one.
LEMMA CurrentIs ==
  ASSUME OneCall, NEW c \in Callers, ~At(c, "idle")
  PROVE  Current = caller[c] /\ \A d \in Callers : d # c => At(d, "idle")
<1>1. \A d \in Callers : d # c => At(d, "idle")
  BY DEF OneCall
<1> QED
  BY <1>1, OnlyCall DEF Current, At

\* With every caller idle there is none.
LEMMA NoneCurrent ==
  ASSUME Quiet
  PROVE  Current = NoCall
BY DEF Current, CurrentIn, Quiet, At

\* No call has a type,
LEMMA NoCallType == NoCall \in CallRecord
<1>1. /\ "idle" \in CallerSteps /\ "Stopped" \in LifecycleStates
      /\ "none" \in Results \cup {"none"} /\ FALSE \in BOOLEAN
      /\ "none" \in {"none", "start", "stop"}
  BY DEF CallerSteps, LifecycleStates
<1> QED
  BY <1>1 DEF NoCall, CallRecord

\* and so has the current one.
LEMMA CurrentType ==
  ASSUME TypeOK, OneCall
  PROVE  Current \in CallRecord
<1>1. CASE Quiet
  BY <1>1, NoneCurrent, NoCallType
<1>2. CASE ~Quiet
  <2>1. PICK c \in Callers : ~At(c, "idle")
    BY <1>2 DEF Quiet
  <2>2. Current = caller[c]
    BY <2>1, CurrentIs
  <2> QED
    BY <2>2 DEF TypeOK, CallRecord
<1> QED
  BY <1>1, <1>2

\* The only task that exists is at the current step,
LEMMA OnlyTask ==
  ASSUME NEW tasks, NEW t \in Tasks, tasks[t] # "none",
         \A u \in Tasks : u # t => tasks[u] = "none"
  PROVE  TaskStepIn(tasks) = tasks[t]
<1> DEFINE u == CHOOSE v \in Tasks : tasks[v] # "none"
<1>1. u \in Tasks /\ tasks[u] # "none"
  OBVIOUS
<1>2. u = t
  BY <1>1
<1> QED
  BY <1>2 DEF TaskStepIn

\* and if none exists there is none.
LEMMA TaskIs ==
  ASSUME OneTask
  PROVE  /\ \A t \in Tasks : task[t] # "none" => task[t] = TaskStep
         /\ (\A t \in Tasks : task[t] = "none") => TaskStep = "none"
         /\ TaskStep # "none" => \E t \in Tasks : task[t] = TaskStep
<1>1. ASSUME NEW t \in Tasks, task[t] # "none"
      PROVE  task[t] = TaskStep
  BY <1>1, OnlyTask DEF OneTask, TaskStep
<1>2. (\A t \in Tasks : task[t] = "none") => TaskStep = "none"
  BY DEF TaskStep, TaskStepIn
<1> QED
  BY <1>1, <1>2

\* A task lives exactly when the current one does.
LEMMA LiveIsAlive ==
  ASSUME OneTask
  PROVE  Alive <=> \E t \in Tasks : Live(t)
BY TaskIs DEF Alive, Live

\* One caller moves, the others being idle: its new record is the current
\* call, if it is one still.
LEMMA Moves ==
  ASSUME OneCall, TypeOK, NEW c \in Callers,
         \A d \in Callers : d # c => At(d, "idle"),
         NEW k, caller' = [caller EXCEPT ![c] = k]
  PROVE  /\ OneCall'
         /\ k.step # "idle" => Current' = k
         /\ k.step = "idle" => Current' = NoCall
         /\ Unstopped' => k.op = "start"
<1>1. caller'[c] = k /\ \A d \in Callers : d # c => caller'[d] = caller[d]
  BY DEF TypeOK
<1>2. OneCall'
  BY <1>1 DEF OneCall, At
<1>3. CASE k.step = "idle"
  <2>1. Current' = NoCall
    BY <1>1, <1>3 DEF Current, CurrentIn, At
  <2> QED
    BY <1>1, <1>2, <1>3, <2>1 DEF Unstopped
<1>4. CASE k.step # "idle"
  <2>1. Current' = k
    BY <1>1, <1>4, OnlyCall DEF Current, At
  <2> QED
    BY <1>1, <1>2, <1>4, <2>1 DEF Unstopped
<1> QED
  BY <1>3, <1>4

\* The record of a call that goes on to a step with notes of what it did.
Note(call, step, driver_is, task_is, uninstalled_is, verdict_is) ==
  [step |-> step, op |-> call.op, driver_stopped |-> driver_is,
   task_stopped |-> task_is, driver_uninstalled |-> uninstalled_is,
   verdict |-> verdict_is, result |-> call.result]

\* The steps that take a note write such a record.
LEMMA NoteRecords ==
  ASSUME TypeOK, NEW c \in Callers, NEW step
  PROVE  /\ caller' = [caller EXCEPT ![c].step = step,
                                     ![c].driver_stopped = TRUE] =>
              caller' = [caller EXCEPT ![c] =
                 Note(caller[c], step, TRUE, caller[c].task_stopped,
                      caller[c].driver_uninstalled, caller[c].verdict)]
         /\ caller' = [caller EXCEPT ![c].step = step,
                                     ![c].task_stopped = TRUE] =>
              caller' = [caller EXCEPT ![c] =
                 Note(caller[c], step, caller[c].driver_stopped, TRUE,
                      caller[c].driver_uninstalled, caller[c].verdict)]
         /\ caller' = [caller EXCEPT ![c].step = step,
                                     ![c].driver_uninstalled = TRUE] =>
              caller' = [caller EXCEPT ![c] =
                 Note(caller[c], step, caller[c].driver_stopped,
                      caller[c].task_stopped, TRUE, caller[c].verdict)]
         /\ caller' = [caller EXCEPT ![c].step = step,
                                     ![c].verdict = Verdict] =>
              caller' = [caller EXCEPT ![c] =
                 Note(caller[c], step, caller[c].driver_stopped,
                      caller[c].task_stopped, caller[c].driver_uninstalled,
                      Verdict)]
<1> DEFINE r == [caller[c] EXCEPT !.step = step]
<1>1. caller \in [Callers -> CallRecord]
  BY DEF TypeOK, CallRecord
<1>2. r = Note(caller[c], step, caller[c].driver_stopped,
               caller[c].task_stopped, caller[c].driver_uninstalled,
               caller[c].verdict)
  BY <1>1 DEF CallRecord, Note
<1>3. [caller EXCEPT ![c].step = step, ![c].driver_stopped = TRUE] =
       [caller EXCEPT ![c] = [r EXCEPT !.driver_stopped = TRUE]]
  BY <1>1
<1>4. [caller EXCEPT ![c].step = step, ![c].task_stopped = TRUE] =
       [caller EXCEPT ![c] = [r EXCEPT !.task_stopped = TRUE]]
  BY <1>1
<1>5. [caller EXCEPT ![c].step = step, ![c].driver_uninstalled = TRUE] =
       [caller EXCEPT ![c] = [r EXCEPT !.driver_uninstalled = TRUE]]
  BY <1>1
<1>6. [caller EXCEPT ![c].step = step, ![c].verdict = Verdict] =
       [caller EXCEPT ![c] = [r EXCEPT !.verdict = Verdict]]
  BY <1>1
<1> HIDE DEF r
<1>7. ASSUME NEW value
      PROVE  [r EXCEPT !.driver_stopped = value] =
               Note(caller[c], step, value, caller[c].task_stopped,
                    caller[c].driver_uninstalled, caller[c].verdict)
  BY <1>2 DEF Note
<1>8. ASSUME NEW value
      PROVE  [r EXCEPT !.task_stopped = value] =
               Note(caller[c], step, caller[c].driver_stopped, value,
                    caller[c].driver_uninstalled, caller[c].verdict)
  BY <1>2 DEF Note
<1>9. ASSUME NEW value
      PROVE  [r EXCEPT !.driver_uninstalled = value] =
               Note(caller[c], step, caller[c].driver_stopped,
                    caller[c].task_stopped, value, caller[c].verdict)
  BY <1>2 DEF Note
<1>10. ASSUME NEW value
      PROVE  [r EXCEPT !.verdict = value] =
               Note(caller[c], step, caller[c].driver_stopped,
                    caller[c].task_stopped, caller[c].driver_uninstalled,
                    value)
  BY <1>2 DEF Note
<1> QED
  BY <1>3, <1>4, <1>5, <1>6, <1>7, <1>8, <1>9, <1>10

\* Such are the moves of a call in progress.
Moved(step, result) ==
  /\ OneCall' /\ (Unstopped' => Current.op = "start")
  /\ Current'.step = step
  /\ Current'.op = Current.op
  /\ Current'.result = result

Kept == /\ Current'.driver_stopped = Current.driver_stopped
        /\ Current'.task_stopped = Current.task_stopped
        /\ Current'.driver_uninstalled = Current.driver_uninstalled
        /\ Current'.verdict = Current.verdict

\* Go() moves the call in progress to its next step,
LEMMA Goes ==
  ASSUME OneCall, TypeOK, NEW c \in Callers, ~At(c, "idle"),
         NEW step \in CallerSteps \ {"idle"}, Go(c, step)
  PROVE  Moved(step, Current.result) /\ Kept
<1>1. Current = caller[c] /\ \A d \in Callers : d # c => At(d, "idle")
  BY CurrentIs
<1>2. Current \in CallRecord
  BY CurrentType
<1> DEFINE k == [Current EXCEPT !.step = step]
<1>3. caller' = [caller EXCEPT ![c] = k]
  BY <1>1 DEF Go
<1>4. /\ k.step = step /\ k.op = Current.op /\ k.result = Current.result
      /\ k.driver_stopped = Current.driver_stopped
      /\ k.task_stopped = Current.task_stopped
      /\ k.driver_uninstalled = Current.driver_uninstalled
      /\ k.verdict = Current.verdict
  BY <1>2 DEF CallRecord
<1> HIDE DEF k
<1>5. OneCall' /\ Current' = k /\ (Unstopped' => k.op = "start")
  BY <1>1, <1>3, <1>4, Moves
<1> QED
  BY <1>4, <1>5 DEF Moved, Kept

\* FailLater() notes a result with it,
LEMMA FailsLater ==
  ASSUME OneCall, TypeOK, NEW c \in Callers, ~At(c, "idle"),
         NEW step \in CallerSteps \ {"idle"}, NEW result,
         FailLater(c, step, result)
  PROVE  Moved(step, result) /\ Kept
<1>1. Current = caller[c] /\ \A d \in Callers : d # c => At(d, "idle")
  BY CurrentIs
<1>2. Current \in CallRecord
  BY CurrentType
<1> DEFINE r == [Current EXCEPT !.step = step]
<1> DEFINE k == [r EXCEPT !.result = result]
<1>3. caller' = [caller EXCEPT ![c] = k]
  BY <1>1 DEF FailLater, TypeOK
<1>4. r \in CallRecord /\ r.step = step /\ r = [Current EXCEPT !.step = step]
  BY <1>2 DEF CallRecord
<1>5. /\ r.op = Current.op
      /\ r.driver_stopped = Current.driver_stopped
      /\ r.task_stopped = Current.task_stopped
      /\ r.driver_uninstalled = Current.driver_uninstalled
      /\ r.verdict = Current.verdict
  BY <1>2 DEF CallRecord
<1> HIDE DEF r
<1>6. /\ k.step = r.step /\ k.op = r.op /\ k.result = result
      /\ k.driver_stopped = r.driver_stopped
      /\ k.task_stopped = r.task_stopped
      /\ k.driver_uninstalled = r.driver_uninstalled
      /\ k.verdict = r.verdict
  BY <1>4 DEF CallRecord
<1> HIDE DEF k
<1>7. OneCall' /\ Current' = k /\ (Unstopped' => k.op = "start")
  BY <1>1, <1>3, <1>4, <1>6, Moves
<1> QED
  BY <1>4, <1>5, <1>6, <1>7 DEF Moved, Kept

\* a step notes that the driver was stopped,
LEMMA NotesDriver ==
  ASSUME OneCall, TypeOK, NEW c \in Callers, ~At(c, "idle"),
         NEW step \in CallerSteps \ {"idle"},
         caller' = [caller EXCEPT ![c].step = step, ![c].driver_stopped = TRUE]
  PROVE  /\ Moved(step, Current.result)
         /\ Current'.driver_stopped
         /\ Current'.task_stopped = Current.task_stopped
         /\ Current'.driver_uninstalled = Current.driver_uninstalled
         /\ Current'.verdict = Current.verdict
<1> DEFINE k == Note(caller[c], step, TRUE, caller[c].task_stopped,
                     caller[c].driver_uninstalled, caller[c].verdict)
<1>1. Current = caller[c] /\ \A d \in Callers : d # c => At(d, "idle")
  BY CurrentIs
<1>2. /\ k.step = step /\ k.op = Current.op /\ k.result = Current.result
      /\ k.driver_stopped
      /\ k.task_stopped = Current.task_stopped
      /\ k.driver_uninstalled = Current.driver_uninstalled
      /\ k.verdict = Current.verdict
  BY <1>1 DEF Note
<1>3. caller' = [caller EXCEPT ![c] = k]
  BY NoteRecords
<1> HIDE DEF k
<1>4. OneCall' /\ Current' = k /\ (Unstopped' => k.op = "start")
  BY <1>1, <1>2, <1>3, Moves
<1> QED
  BY <1>2, <1>4 DEF Moved

\* that the task was,
LEMMA NotesTask ==
  ASSUME OneCall, TypeOK, NEW c \in Callers, ~At(c, "idle"),
         NEW step \in CallerSteps \ {"idle"},
         caller' = [caller EXCEPT ![c].step = step, ![c].task_stopped = TRUE]
  PROVE  /\ Moved(step, Current.result)
         /\ Current'.driver_stopped = Current.driver_stopped
         /\ Current'.task_stopped
         /\ Current'.driver_uninstalled = Current.driver_uninstalled
         /\ Current'.verdict = Current.verdict
<1> DEFINE k == Note(caller[c], step, caller[c].driver_stopped, TRUE,
                     caller[c].driver_uninstalled, caller[c].verdict)
<1>1. Current = caller[c] /\ \A d \in Callers : d # c => At(d, "idle")
  BY CurrentIs
<1>2. /\ k.step = step /\ k.op = Current.op /\ k.result = Current.result
      /\ k.driver_stopped = Current.driver_stopped
      /\ k.task_stopped
      /\ k.driver_uninstalled = Current.driver_uninstalled
      /\ k.verdict = Current.verdict
  BY <1>1 DEF Note
<1>3. caller' = [caller EXCEPT ![c] = k]
  BY NoteRecords
<1> HIDE DEF k
<1>4. OneCall' /\ Current' = k /\ (Unstopped' => k.op = "start")
  BY <1>1, <1>2, <1>3, Moves
<1> QED
  BY <1>2, <1>4 DEF Moved

\* that the driver was uninstalled,
LEMMA NotesUninstalled ==
  ASSUME OneCall, TypeOK, NEW c \in Callers, ~At(c, "idle"),
         NEW step \in CallerSteps \ {"idle"},
         caller' = [caller EXCEPT ![c].step = step,
                                  ![c].driver_uninstalled = TRUE]
  PROVE  /\ Moved(step, Current.result)
         /\ Current'.driver_stopped = Current.driver_stopped
         /\ Current'.task_stopped = Current.task_stopped
         /\ Current'.driver_uninstalled
         /\ Current'.verdict = Current.verdict
<1> DEFINE k == Note(caller[c], step, caller[c].driver_stopped,
                     caller[c].task_stopped, TRUE, caller[c].verdict)
<1>1. Current = caller[c] /\ \A d \in Callers : d # c => At(d, "idle")
  BY CurrentIs
<1>2. /\ k.step = step /\ k.op = Current.op /\ k.result = Current.result
      /\ k.driver_stopped = Current.driver_stopped
      /\ k.task_stopped = Current.task_stopped
      /\ k.driver_uninstalled
      /\ k.verdict = Current.verdict
  BY <1>1 DEF Note
<1>3. caller' = [caller EXCEPT ![c] = k]
  BY NoteRecords
<1> HIDE DEF k
<1>4. OneCall' /\ Current' = k /\ (Unstopped' => k.op = "start")
  BY <1>1, <1>2, <1>3, Moves
<1> QED
  BY <1>2, <1>4 DEF Moved

\* or what reconcile() decided with it,
LEMMA NotesVerdict ==
  ASSUME OneCall, TypeOK, NEW c \in Callers, ~At(c, "idle"),
         NEW step \in CallerSteps \ {"idle"},
         caller' = [caller EXCEPT ![c].step = step, ![c].verdict = Verdict]
  PROVE  /\ Moved(step, Current.result)
         /\ Current'.driver_stopped = Current.driver_stopped
         /\ Current'.task_stopped = Current.task_stopped
         /\ Current'.driver_uninstalled = Current.driver_uninstalled
         /\ Current'.verdict = Verdict
<1> DEFINE k == Note(caller[c], step, caller[c].driver_stopped,
                     caller[c].task_stopped,
                     caller[c].driver_uninstalled, Verdict)
<1>1. Current = caller[c] /\ \A d \in Callers : d # c => At(d, "idle")
  BY CurrentIs
<1>2. /\ k.step = step /\ k.op = Current.op /\ k.result = Current.result
      /\ k.driver_stopped = Current.driver_stopped
      /\ k.task_stopped = Current.task_stopped
      /\ k.driver_uninstalled = Current.driver_uninstalled
      /\ k.verdict = Verdict
  BY <1>1 DEF Note
<1>3. caller' = [caller EXCEPT ![c] = k]
  BY NoteRecords
<1> HIDE DEF k
<1>4. OneCall' /\ Current' = k /\ (Unstopped' => k.op = "start")
  BY <1>1, <1>2, <1>3, Moves
<1> QED
  BY <1>2, <1>4 DEF Moved

\* Return() ends it,
LEMMA ReturnEnds ==
  ASSUME OneCall, TypeOK, NEW c \in Callers, ~At(c, "idle"),
         NEW result, Return(c, result)
  PROVE  /\ OneCall' /\ Current' = NoCall
         /\ Unstopped' => Current.op = "start"
<1>1. Current = caller[c] /\ \A d \in Callers : d # c => At(d, "idle")
  BY CurrentIs
<1> DEFINE k == [NoCall EXCEPT !.op = caller[c].op, !.result = result]
<1>2. caller' = [caller EXCEPT ![c] = k]
  BY DEF Return
<1>3. k.step = "idle" /\ k.op = Current.op
  BY <1>1 DEF NoCall
<1> HIDE DEF k
<1> QED
  BY <1>1, <1>2, <1>3, Moves

Begun(op, step) ==
  /\ OneCall' /\ (Unstopped' => op = "start")
  /\ Current'.step = step /\ Current'.op = op
  /\ ~Current'.driver_stopped /\ ~Current'.task_stopped
  /\ ~Current'.driver_uninstalled

\* and Call() begins one where there is none.
LEMMA Calls ==
  ASSUME OneCall, TypeOK, NEW c \in Callers, Quiet,
         NEW step \in CallerSteps \ {"idle"}, NEW op, Call(c, op, step)
  PROVE  Begun(op, step)
<1> DEFINE k == [NoCall EXCEPT !.op = op, !.step = step]
<1>1. \A d \in Callers : d # c => At(d, "idle")
  BY DEF Quiet
<1>2. caller' = [caller EXCEPT ![c] = k]
  BY DEF Call
<1>3. /\ k.step = step /\ k.op = op /\ ~k.driver_stopped
      /\ ~k.task_stopped /\ ~k.driver_uninstalled
  BY DEF NoCall
<1> HIDE DEF k
<1>4. OneCall' /\ Current' = k /\ (Unstopped' => k.op = "start")
  BY <1>1, <1>2, <1>3, Moves
<1> QED
  BY <1>3, <1>4 DEF Begun

-----------------------------------------------------------------------------
(***************************************************************************)
(* Type correctness, which needs no assumption on the callers.             *)
(***************************************************************************)
\* A record of its type leaves the callers typed, whichever way it is noted.
LEMMA RecordTypes ==
  ASSUME TypeOK, NEW c \in Callers, NEW k \in CallRecord,
         caller' = [caller EXCEPT ![c] = k]
  PROVE  caller' \in [Callers -> CallRecord]
BY DEF TypeOK, CallRecord

\* Such are the record of Go(),
LEMMA GoTypes ==
  ASSUME TypeOK, NEW c \in Callers, NEW step \in CallerSteps, Go(c, step)
  PROVE  caller' \in [Callers -> CallRecord]
<1>1. [caller[c] EXCEPT !.step = step] \in CallRecord
  BY DEF TypeOK, CallRecord
<1> QED
  BY <1>1, RecordTypes DEF Go

\* that of FailLater(),
LEMMA FailLaterTypes ==
  ASSUME TypeOK, NEW c \in Callers, NEW step \in CallerSteps,
         NEW result \in Results, FailLater(c, step, result)
  PROVE  caller' \in [Callers -> CallRecord]
<1> DEFINE r == [caller[c] EXCEPT !.step = step]
<1>1. r \in CallRecord
  BY DEF TypeOK, CallRecord
<1> HIDE DEF r
<1>2. [r EXCEPT !.result = result] \in CallRecord
  BY <1>1 DEF CallRecord
<1>3. caller' = [caller EXCEPT ![c] = [r EXCEPT !.result = result]]
  BY DEF FailLater, TypeOK, r
<1> QED
  BY <1>2, <1>3, RecordTypes

\* those of the steps that take a note,
LEMMA NoteTypes ==
  ASSUME TypeOK, NEW c \in Callers, NEW step \in CallerSteps,
         NEW driver_is \in BOOLEAN, NEW task_is \in BOOLEAN,
         NEW uninstalled_is \in BOOLEAN, NEW verdict_is \in LifecycleStates,
         caller' = [caller EXCEPT ![c] =
                      Note(caller[c], step, driver_is, task_is,
                           uninstalled_is, verdict_is)]
  PROVE  caller' \in [Callers -> CallRecord]
<1>1. caller[c] \in CallRecord
  BY DEF TypeOK, CallRecord
<1>2. Note(caller[c], step, driver_is, task_is, uninstalled_is, verdict_is)
        \in CallRecord
  BY <1>1 DEF Note, CallRecord
<1> QED
  BY <1>2, RecordTypes

\* those of Call() and of Return().
LEMMA CallTypes ==
  ASSUME TypeOK, NEW c \in Callers,
         NEW op \in {"start", "stop"}, NEW step \in CallerSteps,
         Call(c, op, step)
  PROVE  caller' \in [Callers -> CallRecord]
<1>1. [NoCall EXCEPT !.op = op, !.step = step] \in CallRecord
  BY NoCallType DEF CallRecord
<1> QED
  BY <1>1, RecordTypes DEF Call

\* one that ends,
LEMMA ReturnTypes ==
  ASSUME TypeOK, NEW c \in Callers, NEW result \in Results \cup {"none"},
         Return(c, result)
  PROVE  caller' \in [Callers -> CallRecord]
<1>1. caller[c].op \in {"none", "start", "stop"}
  BY DEF TypeOK
<1>2. [NoCall EXCEPT !.op = caller[c].op, !.result = result] \in CallRecord
  BY <1>1, NoCallType DEF CallRecord
<1> QED
  BY <1>2, RecordTypes DEF Return

\* and that of a start() whose configuration is refused.
LEMMA InvalidTypes ==
  ASSUME TypeOK, NEW c \in Callers, StartInvalid(c)
  PROVE  caller' \in [Callers -> CallRecord]
<1> DEFINE k == [NoCall EXCEPT !.op = "start",
                               !.result = "kInvalidConfiguration"]
<1>1. k \in CallRecord
  BY NoCallType DEF CallRecord, Results
<1>2. caller' = [caller EXCEPT ![c] = k]
  BY DEF StartInvalid
<1> QED
  BY <1>1, <1>2, RecordTypes

\* A state names a result.
LEMMA StateResultTypes ==
  ASSUME NEW s \in LifecycleStates
  PROVE  /\ StateResult(s) \in Results
         /\ s # "Running" => StateResult(s) # "kAlreadyStarted"
BY DEF StateResult, LifecycleStates, Results

\* The steps of start() keep the types,
LEMMA StartTypes ==
  ASSUME TypeOK, NEW c \in Callers, Start(c)
  PROVE  TypeOK'
<1> USE CapacityAssumption, CounterAssumption
<1> USE DEF lifecycle, flags, semaphores, counting, ring, queue, others
<1>1. ASSUME BeginStart(c)
     PROVE  TypeOK'
  <2>1. caller' \in [Callers -> CallRecord]
    BY <1>1, GoTypes DEF BeginStart, CallerSteps, StartSteps
  <2>2. /\ state' \in LifecycleStates
        /\ UNCHANGED <<driver_installed, driver_started, task_owned,
           receive_requested, available, task_stopped, depth, bus_errors,
           last_bus_errors, driver, occurred, polled, task, consumer>>
    BY <1>1 DEF BeginStart, TypeOK, LifecycleStates
  <2> QED
    BY <2>1, <2>2 DEF TypeOK, CallRecord, ConsumerRecord
<1>2. ASSUME StartRefused(c)
     PROVE  TypeOK'
  <2>1. caller' \in [Callers -> CallRecord]
    BY <1>2, ReturnTypes, StateResultTypes DEF StartRefused, TypeOK
  <2>2. /\ UNCHANGED <<state, driver_installed, driver_started, task_owned,
           receive_requested, available, task_stopped, depth, bus_errors,
           last_bus_errors, driver, occurred, polled, task, consumer>>
    BY <1>2 DEF StartRefused, TypeOK
  <2> QED
    BY <2>1, <2>2 DEF TypeOK, CallRecord, ConsumerRecord
<1>3. ASSUME StartDrain(c)
     PROVE  TypeOK'
  <2>1. caller' \in [Callers -> CallRecord]
    BY <1>3, GoTypes DEF StartDrain, CallerSteps, StartSteps
  <2>2. /\ available' \in 0 .. Capacity
        /\ task_stopped' \in BOOLEAN
        /\ UNCHANGED <<state, driver_installed, driver_started, task_owned,
           receive_requested, depth, bus_errors, last_bus_errors, driver,
           occurred, polled, task, consumer>>
    <3>1. 0 \in 0 .. Capacity
      OBVIOUS
    <3>2. TRUE \in BOOLEAN /\ FALSE \in BOOLEAN
      OBVIOUS
    <3> QED
      BY <1>3, <3>1, <3>2 DEF StartDrain, TypeOK
  <2> QED
    BY <2>1, <2>2 DEF TypeOK, CallRecord, ConsumerRecord
<1>4. ASSUME StartInstall(c)
     PROVE  TypeOK'
  <2>1. caller' \in [Callers -> CallRecord]
    BY <1>4, GoTypes DEF StartInstall, CallerSteps, StartSteps
  <2>2. /\ driver_installed' \in BOOLEAN
        /\ driver' \in {"absent", "stopped", "running"}
        /\ occurred' \in 0 .. MaxEvents
        /\ polled' \in 0 .. occurred'
        /\ UNCHANGED <<state, driver_started, task_owned, receive_requested,
           available, task_stopped, depth, bus_errors, last_bus_errors, task,
           consumer>>
    <3>1. 0 \in 0 .. MaxEvents /\ 0 \in 0 .. 0
      OBVIOUS
    <3>2. TRUE \in BOOLEAN /\ FALSE \in BOOLEAN
      OBVIOUS
    <3> QED
      BY <1>4, <3>1, <3>2 DEF StartInstall, TypeOK
  <2> QED
    BY <2>1, <2>2 DEF TypeOK, CallRecord, ConsumerRecord
<1>5. ASSUME StartAbort(c)
     PROVE  TypeOK'
  <2>1. caller' \in [Callers -> CallRecord]
    BY <1>5, ReturnTypes DEF StartAbort, Results
  <2>2. /\ state' \in LifecycleStates
        /\ UNCHANGED <<driver_installed, driver_started, task_owned,
           receive_requested, available, task_stopped, depth, bus_errors,
           last_bus_errors, driver, occurred, polled, task, consumer>>
    BY <1>5 DEF StartAbort, TypeOK, LifecycleStates
  <2> QED
    BY <2>1, <2>2 DEF TypeOK, CallRecord, ConsumerRecord
<1>6. ASSUME StartDriver(c)
     PROVE  TypeOK'
  <2>1. caller' \in [Callers -> CallRecord]
    BY <1>6, GoTypes DEF StartDriver, CallerSteps, StartSteps
  <2>2. /\ driver_started' \in BOOLEAN
        /\ driver' \in {"absent", "stopped", "running"}
        /\ UNCHANGED <<state, driver_installed, task_owned,
           receive_requested, available, task_stopped, depth, bus_errors,
           last_bus_errors, occurred, polled, task, consumer>>
    BY <1>6 DEF StartDriver, TypeOK
  <2> QED
    BY <2>1, <2>2 DEF TypeOK, CallRecord, ConsumerRecord
<1>7. ASSUME StartUndoInstall(c)
     PROVE  TypeOK'
  <2>1. caller' \in [Callers -> CallRecord]
    BY <1>7, FailLaterTypes DEF StartUndoInstall, CallerSteps, Results
  <2>2. /\ driver_installed' \in BOOLEAN
        /\ driver' \in {"absent", "stopped", "running"}
        /\ UNCHANGED <<state, driver_started, task_owned, receive_requested,
           available, task_stopped, depth, bus_errors, last_bus_errors,
           occurred, polled, task, consumer>>
    BY <1>7 DEF StartUndoInstall, TypeOK, Uninstalls
  <2> QED
    BY <2>1, <2>2 DEF TypeOK, CallRecord, ConsumerRecord
<1>8. ASSUME StartClear(c)
     PROVE  TypeOK'
  <2>1. caller' \in [Callers -> CallRecord]
    BY <1>8, GoTypes DEF StartClear, CallerSteps, StartSteps
  <2>2. /\ depth' \in 0 .. Capacity
        /\ bus_errors' \in Nat
        /\ last_bus_errors' \in 0 .. CounterModulus - 1
        /\ UNCHANGED <<state, driver_installed, driver_started, task_owned,
           receive_requested, available, task_stopped, driver, occurred,
           polled, task, consumer>>
    BY <1>8 DEF StartClear, TypeOK
  <2> QED
    BY <2>1, <2>2 DEF TypeOK, CallRecord, ConsumerRecord
<1>9. ASSUME StartRequest(c)
     PROVE  TypeOK'
  <2>1. caller' \in [Callers -> CallRecord]
    BY <1>9, GoTypes DEF StartRequest, CallerSteps, StartSteps
  <2>2. /\ receive_requested' \in BOOLEAN
        /\ UNCHANGED <<state, driver_installed, driver_started, task_owned,
           available, task_stopped, depth, bus_errors, last_bus_errors,
           driver, occurred, polled, task, consumer>>
    BY <1>9 DEF StartRequest, TypeOK
  <2> QED
    BY <2>1, <2>2 DEF TypeOK, CallRecord, ConsumerRecord
<1>10. ASSUME StartMarkTask(c)
     PROVE  TypeOK'
  <2>1. caller' \in [Callers -> CallRecord]
    BY <1>10, GoTypes DEF StartMarkTask, CallerSteps, StartSteps
  <2>2. /\ task_owned' \in BOOLEAN
        /\ UNCHANGED <<state, driver_installed, driver_started,
           receive_requested, available, task_stopped, depth, bus_errors,
           last_bus_errors, driver, occurred, polled, task, consumer>>
    BY <1>10 DEF StartMarkTask, TypeOK
  <2> QED
    BY <2>1, <2>2 DEF TypeOK, CallRecord, ConsumerRecord
<1>11. ASSUME StartCreate(c)
     PROVE  TypeOK'
  <2>1. caller' \in [Callers -> CallRecord]
    BY <1>11, GoTypes, ReturnTypes
       DEF StartCreate, CallerSteps, StartSteps, Results
  <2>2. /\ task' \in [Tasks -> TaskSteps]
        /\ UNCHANGED <<state, driver_installed, driver_started, task_owned,
           receive_requested, available, task_stopped, depth, bus_errors,
           last_bus_errors, driver, occurred, polled, consumer>>
    BY <1>11 DEF StartCreate, TypeOK, TaskSteps
  <2> QED
    BY <2>1, <2>2 DEF TypeOK, CallRecord, ConsumerRecord
<1>12. ASSUME StartGiveUp(c)
     PROVE  TypeOK'
  <2>1. caller' \in [Callers -> CallRecord]
    BY <1>12, FailLaterTypes DEF StartGiveUp, CallerSteps, StartSteps, Results
  <2>2. /\ state' \in LifecycleStates
        /\ task_owned' \in BOOLEAN
        /\ receive_requested' \in BOOLEAN
        /\ UNCHANGED <<driver_installed, driver_started, available,
           task_stopped, depth, bus_errors, last_bus_errors, driver,
           occurred, polled, task, consumer>>
    BY <1>12 DEF StartGiveUp, TypeOK, LifecycleStates
  <2> QED
    BY <2>1, <2>2 DEF TypeOK, CallRecord, ConsumerRecord
<1>13. ASSUME StartGiveUpDriver(c)
     PROVE  TypeOK'
  <2>1. caller' \in [Callers -> CallRecord]
    BY <1>13, GoTypes DEF StartGiveUpDriver, CallerSteps, StartSteps
  <2>2. /\ driver_started' \in BOOLEAN
        /\ driver' \in {"absent", "stopped", "running"}
        /\ UNCHANGED <<state, driver_installed, task_owned,
           receive_requested, available, task_stopped, depth, bus_errors,
           last_bus_errors, occurred, polled, task, consumer>>
    BY <1>13 DEF StartGiveUpDriver, TypeOK, StopsDriver
  <2> QED
    BY <2>1, <2>2 DEF TypeOK, CallRecord, ConsumerRecord
<1>14. ASSUME StartGiveUpInstall(c)
     PROVE  TypeOK'
  <2>1. caller' \in [Callers -> CallRecord]
    BY <1>14, GoTypes DEF StartGiveUpInstall, CallerSteps, StartSteps
  <2>2. /\ driver_installed' \in BOOLEAN
        /\ driver' \in {"absent", "stopped", "running"}
        /\ UNCHANGED <<state, driver_started, task_owned, receive_requested,
           available, task_stopped, depth, bus_errors, last_bus_errors,
           occurred, polled, task, consumer>>
    BY <1>14 DEF StartGiveUpInstall, TypeOK, Uninstalls
  <2> QED
    BY <2>1, <2>2 DEF TypeOK, CallRecord, ConsumerRecord
<1> QED
  BY <1>1, <1>2, <1>3, <1>4, <1>5, <1>6, <1>7, <1>8, <1>9, <1>10, <1>11,
     <1>12, <1>13, <1>14
     DEF Start

\* and so do those of stop() and reconcile(),
LEMMA StopTypes ==
  ASSUME TypeOK, NEW c \in Callers, Stop(c) \/ Reconciles(c)
  PROVE  TypeOK'
<1> USE CapacityAssumption, CounterAssumption
<1> USE DEF lifecycle, flags, semaphores, counting, ring, queue, others
<1>1. ASSUME BeginStop(c)
     PROVE  TypeOK'
  <2>1. caller' \in [Callers -> CallRecord]
    BY <1>1, GoTypes, ReturnTypes
       DEF BeginStop, CallerSteps, StopSteps, Results
  <2>2. /\ state' \in LifecycleStates
        /\ UNCHANGED <<driver_installed, driver_started, task_owned,
           receive_requested, available, task_stopped, depth, bus_errors,
           last_bus_errors, driver, occurred, polled, task, consumer>>
    BY <1>1 DEF BeginStop, TypeOK, LifecycleStates
  <2> QED
    BY <2>1, <2>2 DEF TypeOK, CallRecord, ConsumerRecord
<1>2. ASSUME StopWithdraw(c)
     PROVE  TypeOK'
  <2>1. caller' \in [Callers -> CallRecord]
    BY <1>2, GoTypes DEF StopWithdraw, CallerSteps, StopSteps
  <2>2. /\ receive_requested' \in BOOLEAN
        /\ UNCHANGED <<state, driver_installed, driver_started, task_owned,
           available, task_stopped, depth, bus_errors, last_bus_errors,
           driver, occurred, polled, task, consumer>>
    BY <1>2 DEF StopWithdraw, TypeOK
  <2> QED
    BY <2>1, <2>2 DEF TypeOK, CallRecord, ConsumerRecord
<1>3. ASSUME StopDriverDone(c)
     PROVE  TypeOK'
  <2>1. caller' \in [Callers -> CallRecord]
    <3>1. caller' = [caller EXCEPT ![c] =
                       Note(caller[c], "check_task", TRUE,
                            caller[c].task_stopped,
                            caller[c].driver_uninstalled, caller[c].verdict)]
      BY <1>3, NoteRecords DEF StopDriverDone
    <3>2. /\ caller[c].driver_stopped \in BOOLEAN
          /\ caller[c].task_stopped \in BOOLEAN
          /\ caller[c].driver_uninstalled \in BOOLEAN
          /\ caller[c].verdict \in LifecycleStates
          /\ TRUE \in BOOLEAN /\ Verdict \in LifecycleStates
      BY DEF TypeOK, Verdict, LifecycleStates
    <3> QED
      BY <3>1, <3>2, NoteTypes DEF CallerSteps, StopSteps
  <2>2. /\ driver_started' \in BOOLEAN
        /\ driver' \in {"absent", "stopped", "running"}
        /\ UNCHANGED <<state, driver_installed, task_owned,
           receive_requested, available, task_stopped, depth, bus_errors,
           last_bus_errors, occurred, polled, task, consumer>>
    BY <1>3 DEF StopDriverDone, TypeOK, StopsDriver
  <2> QED
    BY <2>1, <2>2 DEF TypeOK, CallRecord, ConsumerRecord
<1>4. ASSUME StopDriverFails(c)
     PROVE  TypeOK'
  <2>1. caller' \in [Callers -> CallRecord]
    BY <1>4, GoTypes DEF StopDriverFails, CallerSteps, StopSteps
  <2>2. /\ UNCHANGED <<state, driver_installed, driver_started, task_owned,
           receive_requested, available, task_stopped, depth, bus_errors,
           last_bus_errors, driver, occurred, polled, task, consumer>>
    BY <1>4 DEF StopDriverFails, TypeOK
  <2> QED
    BY <2>1, <2>2 DEF TypeOK, CallRecord, ConsumerRecord
<1>5. ASSUME StopCheckTask(c)
     PROVE  TypeOK'
  <2>1. caller' \in [Callers -> CallRecord]
    BY <1>5, GoTypes DEF StopCheckTask, CallerSteps, StopSteps
  <2>2. /\ UNCHANGED <<state, driver_installed, driver_started, task_owned,
           receive_requested, available, task_stopped, depth, bus_errors,
           last_bus_errors, driver, occurred, polled, task, consumer>>
    BY <1>5 DEF StopCheckTask, TypeOK
  <2> QED
    BY <2>1, <2>2 DEF TypeOK, CallRecord, ConsumerRecord
<1>6. ASSUME StopWaitTask(c)
     PROVE  TypeOK'
  <2>1. caller' \in [Callers -> CallRecord]
    BY <1>6, GoTypes DEF StopWaitTask, CallerSteps, StopSteps
  <2>2. /\ task_stopped' \in BOOLEAN
        /\ UNCHANGED <<state, driver_installed, driver_started, task_owned,
           receive_requested, available, depth, bus_errors, last_bus_errors,
           driver, occurred, polled, task, consumer>>
    BY <1>6 DEF StopWaitTask, TypeOK
  <2> QED
    BY <2>1, <2>2 DEF TypeOK, CallRecord, ConsumerRecord
<1>7. ASSUME StopAcknowledge(c)
     PROVE  TypeOK'
  <2>1. caller' \in [Callers -> CallRecord]
    <3>1. caller' = [caller EXCEPT ![c] =
                       Note(caller[c], "uninstall", caller[c].driver_stopped,
                            TRUE,
                            caller[c].driver_uninstalled, caller[c].verdict)]
      BY <1>7, NoteRecords DEF StopAcknowledge
    <3>2. /\ caller[c].driver_stopped \in BOOLEAN
          /\ caller[c].task_stopped \in BOOLEAN
          /\ caller[c].driver_uninstalled \in BOOLEAN
          /\ caller[c].verdict \in LifecycleStates
          /\ TRUE \in BOOLEAN /\ Verdict \in LifecycleStates
      BY DEF TypeOK, Verdict, LifecycleStates
    <3> QED
      BY <3>1, <3>2, NoteTypes DEF CallerSteps, StopSteps
  <2>2. /\ task_owned' \in BOOLEAN
        /\ UNCHANGED <<state, driver_installed, driver_started,
           receive_requested, available, task_stopped, depth, bus_errors,
           last_bus_errors, driver, occurred, polled, task, consumer>>
    BY <1>7 DEF StopAcknowledge, TypeOK
  <2> QED
    BY <2>1, <2>2 DEF TypeOK, CallRecord, ConsumerRecord
<1>8. ASSUME StopTakeToken(c)
     PROVE  TypeOK'
  <2>1. caller' \in [Callers -> CallRecord]
    <3>1. caller' = [caller EXCEPT ![c] =
                       Note(caller[c], "uninstall", caller[c].driver_stopped,
                            TRUE,
                            caller[c].driver_uninstalled, caller[c].verdict)]
      BY <1>8, NoteRecords DEF StopTakeToken
    <3>2. /\ caller[c].driver_stopped \in BOOLEAN
          /\ caller[c].task_stopped \in BOOLEAN
          /\ caller[c].driver_uninstalled \in BOOLEAN
          /\ caller[c].verdict \in LifecycleStates
          /\ TRUE \in BOOLEAN /\ Verdict \in LifecycleStates
      BY DEF TypeOK, Verdict, LifecycleStates
    <3> QED
      BY <3>1, <3>2, NoteTypes DEF CallerSteps, StopSteps
  <2>2. /\ task_stopped' \in BOOLEAN
        /\ UNCHANGED <<state, driver_installed, driver_started, task_owned,
           receive_requested, available, depth, bus_errors, last_bus_errors,
           driver, occurred, polled, task, consumer>>
    BY <1>8 DEF StopTakeToken, TypeOK
  <2> QED
    BY <2>1, <2>2 DEF TypeOK, CallRecord, ConsumerRecord
<1>9. ASSUME StopUninstallDone(c)
     PROVE  TypeOK'
  <2>1. caller' \in [Callers -> CallRecord]
    <3>1. caller' = [caller EXCEPT ![c] =
                       Note(caller[c], "reconcile", caller[c].driver_stopped,
                            caller[c].task_stopped,
                            TRUE, caller[c].verdict)]
      BY <1>9, NoteRecords DEF StopUninstallDone
    <3>2. /\ caller[c].driver_stopped \in BOOLEAN
          /\ caller[c].task_stopped \in BOOLEAN
          /\ caller[c].driver_uninstalled \in BOOLEAN
          /\ caller[c].verdict \in LifecycleStates
          /\ TRUE \in BOOLEAN /\ Verdict \in LifecycleStates
      BY DEF TypeOK, Verdict, LifecycleStates
    <3> QED
      BY <3>1, <3>2, NoteTypes DEF CallerSteps, StopSteps
  <2>2. /\ driver_installed' \in BOOLEAN
        /\ driver' \in {"absent", "stopped", "running"}
        /\ UNCHANGED <<state, driver_started, task_owned, receive_requested,
           available, task_stopped, depth, bus_errors, last_bus_errors,
           occurred, polled, task, consumer>>
    BY <1>9 DEF StopUninstallDone, TypeOK, Uninstalls
  <2> QED
    BY <2>1, <2>2 DEF TypeOK, CallRecord, ConsumerRecord
<1>10. ASSUME StopUninstallFails(c)
     PROVE  TypeOK'
  <2>1. caller' \in [Callers -> CallRecord]
    BY <1>10, GoTypes DEF StopUninstallFails, CallerSteps, StopSteps
  <2>2. /\ UNCHANGED <<state, driver_installed, driver_started, task_owned,
           receive_requested, available, task_stopped, depth, bus_errors,
           last_bus_errors, driver, occurred, polled, task, consumer>>
    BY <1>10 DEF StopUninstallFails, TypeOK
  <2> QED
    BY <2>1, <2>2 DEF TypeOK, CallRecord, ConsumerRecord
<1>11. ASSUME StopFinish(c)
     PROVE  TypeOK'
  <2>1. caller' \in [Callers -> CallRecord]
    BY <1>11, ReturnTypes DEF StopFinish, Results
  <2>2. /\ available' \in 0 .. Capacity
        /\ UNCHANGED <<state, driver_installed, driver_started, task_owned,
           receive_requested, task_stopped, depth, bus_errors,
           last_bus_errors, driver, occurred, polled, task, consumer>>
    BY <1>11 DEF StopFinish, TypeOK
  <2> QED
    BY <2>1, <2>2 DEF TypeOK, CallRecord, ConsumerRecord
<1>12. ASSUME Reconcile(c)
     PROVE  TypeOK'
  <2>1. caller' \in [Callers -> CallRecord]
    <3>1. caller' = [caller EXCEPT ![c] =
                       Note(caller[c], "store", caller[c].driver_stopped,
                            caller[c].task_stopped,
                            caller[c].driver_uninstalled, Verdict)]
      BY <1>12, NoteRecords DEF Reconcile
    <3>2. /\ caller[c].driver_stopped \in BOOLEAN
          /\ caller[c].task_stopped \in BOOLEAN
          /\ caller[c].driver_uninstalled \in BOOLEAN
          /\ caller[c].verdict \in LifecycleStates
          /\ TRUE \in BOOLEAN /\ Verdict \in LifecycleStates
      BY DEF TypeOK, Verdict, LifecycleStates
    <3> QED
      BY <3>1, <3>2, NoteTypes DEF CallerSteps, StopSteps
  <2>2. /\ UNCHANGED <<state, driver_installed, driver_started, task_owned,
           receive_requested, available, task_stopped, depth, bus_errors,
           last_bus_errors, driver, occurred, polled, task, consumer>>
    BY <1>12 DEF Reconcile, TypeOK
  <2> QED
    BY <2>1, <2>2 DEF TypeOK, CallRecord, ConsumerRecord
<1>13. ASSUME ReconcileStore(c)
     PROVE  TypeOK'
  <2>1. caller' \in [Callers -> CallRecord]
    BY <1>13, GoTypes, ReturnTypes
       DEF ReconcileStore, TypeOK, CallerSteps, StopSteps
  <2>2. /\ state' \in LifecycleStates
        /\ UNCHANGED <<driver_installed, driver_started, task_owned,
           receive_requested, available, task_stopped, depth, bus_errors,
           last_bus_errors, driver, occurred, polled, task, consumer>>
    BY <1>13 DEF ReconcileStore, TypeOK
  <2> QED
    BY <2>1, <2>2 DEF TypeOK, CallRecord, ConsumerRecord
<1> QED
  BY <1>1, <1>2, <1>3, <1>4, <1>5, <1>6, <1>7, <1>8, <1>9, <1>10, <1>11,
     <1>12, <1>13
     DEF Stop, Reconciles

\* the calls,
LEMMA CallsTypes ==
  ASSUME TypeOK, NEW c \in Callers,
         StartCall(c) \/ StartInvalid(c) \/ StopCall(c)
  PROVE  TypeOK'
<1> USE CapacityAssumption, CounterAssumption
<1> USE DEF lifecycle, flags, semaphores, counting, ring, queue, others
<1>1. ASSUME StartCall(c)
     PROVE  TypeOK'
  <2>1. caller' \in [Callers -> CallRecord]
    BY <1>1, CallTypes DEF StartCall, CallerSteps, StartSteps
  <2>2. /\ UNCHANGED <<state, driver_installed, driver_started, task_owned,
           receive_requested, available, task_stopped, depth, bus_errors,
           last_bus_errors, driver, occurred, polled, task, consumer>>
    BY <1>1 DEF StartCall, TypeOK
  <2> QED
    BY <2>1, <2>2 DEF TypeOK, CallRecord, ConsumerRecord
<1>2. ASSUME StartInvalid(c)
     PROVE  TypeOK'
  <2>1. caller' \in [Callers -> CallRecord]
    BY <1>2, InvalidTypes DEF StartInvalid, CallerSteps, StartSteps
  <2>2. /\ UNCHANGED <<state, driver_installed, driver_started, task_owned,
           receive_requested, available, task_stopped, depth, bus_errors,
           last_bus_errors, driver, occurred, polled, task, consumer>>
    BY <1>2 DEF StartInvalid, TypeOK
  <2> QED
    BY <2>1, <2>2 DEF TypeOK, CallRecord, ConsumerRecord
<1>3. ASSUME StopCall(c)
     PROVE  TypeOK'
  <2>1. caller' \in [Callers -> CallRecord]
    BY <1>3, CallTypes DEF StopCall, CallerSteps, StopSteps
  <2>2. /\ UNCHANGED <<state, driver_installed, driver_started, task_owned,
           receive_requested, available, task_stopped, depth, bus_errors,
           last_bus_errors, driver, occurred, polled, task, consumer>>
    BY <1>3 DEF StopCall, TypeOK
  <2> QED
    BY <2>1, <2>2 DEF TypeOK, CallRecord, ConsumerRecord
<1> QED
  BY <1>1, <1>2, <1>3

\* the receive task,
LEMMA TaskTypes ==
  ASSUME TypeOK, NEW t \in Tasks, ReceiveTask(t)
  PROVE  TypeOK'
<1> USE CapacityAssumption, CounterAssumption
<1> USE DEF lifecycle, flags, semaphores, counting, ring, queue, others
<1>1. ASSUME TaskLoop(t)
     PROVE  TypeOK'
  <2>1. /\ task' \in [Tasks -> TaskSteps]
        /\ UNCHANGED <<state, driver_installed, driver_started, task_owned,
           receive_requested, available, task_stopped, depth, bus_errors,
           last_bus_errors, driver, occurred, polled, caller, consumer>>
    BY <1>1 DEF TaskLoop, TypeOK, TaskGoes, TaskSteps
  <2> QED
    BY <2>1 DEF TypeOK, CallRecord, ConsumerRecord
<1>2. ASSUME TaskReceive(t)
     PROVE  TypeOK'
  <2>1. /\ task' \in [Tasks -> TaskSteps]
        /\ UNCHANGED <<state, driver_installed, driver_started, task_owned,
           receive_requested, available, task_stopped, depth, bus_errors,
           last_bus_errors, driver, occurred, polled, caller, consumer>>
    BY <1>2 DEF TaskReceive, TypeOK, TaskGoes, TaskSteps
  <2> QED
    BY <2>1 DEF TypeOK, CallRecord, ConsumerRecord
<1>3. ASSUME TaskPush(t)
     PROVE  TypeOK'
  <2>1. /\ task' \in [Tasks -> TaskSteps]
        /\ depth' \in 0 .. Capacity
        /\ UNCHANGED <<state, driver_installed, driver_started, task_owned,
           receive_requested, available, task_stopped, bus_errors,
           last_bus_errors, driver, occurred, polled, caller, consumer>>
    BY <1>3 DEF TaskPush, TypeOK, TaskGoes, TaskSteps
  <2> QED
    BY <2>1 DEF TypeOK, CallRecord, ConsumerRecord
<1>4. ASSUME TaskGive(t)
     PROVE  TypeOK'
  <2>1. /\ task' \in [Tasks -> TaskSteps]
        /\ available' \in 0 .. Capacity
        /\ UNCHANGED <<state, driver_installed, driver_started, task_owned,
           receive_requested, task_stopped, depth, bus_errors,
           last_bus_errors, driver, occurred, polled, caller, consumer>>
    BY <1>4 DEF TaskGive, TypeOK, TaskGoes, TaskSteps, GiveAvailable
  <2> QED
    BY <2>1 DEF TypeOK, CallRecord, ConsumerRecord
<1>5. ASSUME TaskStatus(t)
     PROVE  TypeOK'
  <2>1. /\ task' \in [Tasks -> TaskSteps]
        /\ bus_errors' \in Nat
        /\ last_bus_errors' \in 0 .. CounterModulus - 1
        /\ occurred' \in 0 .. MaxEvents
        /\ polled' \in 0 .. occurred'
        /\ UNCHANGED <<state, driver_installed, driver_started, task_owned,
           receive_requested, available, task_stopped, depth, driver, caller,
           consumer>>
    BY <1>5
       DEF TaskStatus, TypeOK, TaskGoes, TaskSteps, CounterDelta,
           DriverCounter
  <2> QED
    BY <2>1 DEF TypeOK, CallRecord, ConsumerRecord
<1>6. ASSUME TaskAlerts(t)
     PROVE  TypeOK'
  <2>1. /\ task' \in [Tasks -> TaskSteps]
        /\ UNCHANGED <<state, driver_installed, driver_started, task_owned,
           receive_requested, available, task_stopped, depth, bus_errors,
           last_bus_errors, driver, occurred, polled, caller, consumer>>
    BY <1>6 DEF TaskAlerts, TypeOK, TaskGoes, TaskSteps
  <2> QED
    BY <2>1 DEF TypeOK, CallRecord, ConsumerRecord
<1>7. ASSUME TaskLatch(t)
     PROVE  TypeOK'
  <2>1. /\ task' \in [Tasks -> TaskSteps]
        /\ receive_requested' \in BOOLEAN
        /\ UNCHANGED <<state, driver_installed, driver_started, task_owned,
           available, task_stopped, depth, bus_errors, last_bus_errors,
           driver, occurred, polled, caller, consumer>>
    BY <1>7 DEF TaskLatch, TypeOK, TaskGoes, TaskSteps
  <2> QED
    BY <2>1 DEF TypeOK, CallRecord, ConsumerRecord
<1>8. ASSUME TaskLatchState(t)
     PROVE  TypeOK'
  <2>1. /\ task' \in [Tasks -> TaskSteps]
        /\ state' \in LifecycleStates
        /\ UNCHANGED <<driver_installed, driver_started, task_owned,
           receive_requested, available, task_stopped, depth, bus_errors,
           last_bus_errors, driver, occurred, polled, caller, consumer>>
    BY <1>8 DEF TaskLatchState, TypeOK, TaskGoes, TaskSteps, LifecycleStates
  <2> QED
    BY <2>1 DEF TypeOK, CallRecord, ConsumerRecord
<1>9. ASSUME TaskWake(t)
     PROVE  TypeOK'
  <2>1. /\ task' \in [Tasks -> TaskSteps]
        /\ available' \in 0 .. Capacity
        /\ UNCHANGED <<state, driver_installed, driver_started, task_owned,
           receive_requested, task_stopped, depth, bus_errors,
           last_bus_errors, driver, occurred, polled, caller, consumer>>
    BY <1>9 DEF TaskWake, TypeOK, TaskGoes, TaskSteps, GiveAvailable
  <2> QED
    BY <2>1 DEF TypeOK, CallRecord, ConsumerRecord
<1>10. ASSUME TaskAcknowledge(t)
     PROVE  TypeOK'
  <2>1. /\ task' \in [Tasks -> TaskSteps]
        /\ task_owned' \in BOOLEAN
        /\ UNCHANGED <<state, driver_installed, driver_started,
           receive_requested, available, task_stopped, depth, bus_errors,
           last_bus_errors, driver, occurred, polled, caller, consumer>>
    BY <1>10 DEF TaskAcknowledge, TypeOK, TaskGoes, TaskSteps
  <2> QED
    BY <2>1 DEF TypeOK, CallRecord, ConsumerRecord
<1>11. ASSUME TaskExit(t)
     PROVE  TypeOK'
  <2>1. /\ task' \in [Tasks -> TaskSteps]
        /\ task_stopped' \in BOOLEAN
        /\ UNCHANGED <<state, driver_installed, driver_started, task_owned,
           receive_requested, available, depth, bus_errors, last_bus_errors,
           driver, occurred, polled, caller, consumer>>
    BY <1>11 DEF TaskExit, TypeOK, TaskGoes, TaskSteps
  <2> QED
    BY <2>1 DEF TypeOK, CallRecord, ConsumerRecord
<1> QED
  BY <1>1, <1>2, <1>3, <1>4, <1>5, <1>6, <1>7, <1>8, <1>9, <1>10, <1>11
     DEF ReceiveTask

\* the consumer and the driver.
LEMMA ReceiveTypes ==
  ASSUME TypeOK, ReceiveCall \/ Receive \/ DriverEvent
  PROVE  TypeOK'
<1> USE CapacityAssumption, CounterAssumption
<1> USE DEF lifecycle, flags, semaphores, counting, ring, queue, others
<1>1. ASSUME ReceiveCall
     PROVE  TypeOK'
  <2>1. /\ consumer' \in ConsumerRecord
        /\ UNCHANGED <<state, driver_installed, driver_started, task_owned,
           receive_requested, available, task_stopped, depth, bus_errors,
           last_bus_errors, driver, occurred, polled, task, caller>>
    BY <1>1
       DEF ReceiveCall, TypeOK, ConsumerGoes, Receives, ConsumerRecord,
           ConsumerSteps
  <2> QED
    BY <2>1 DEF TypeOK, CallRecord, ConsumerRecord
<1>2. ASSUME ReceiveCheck
     PROVE  TypeOK'
  <2>1. /\ consumer' \in ConsumerRecord
        /\ UNCHANGED <<state, driver_installed, driver_started, task_owned,
           receive_requested, available, task_stopped, depth, bus_errors,
           last_bus_errors, driver, occurred, polled, task, caller>>
    BY <1>2, StateResultTypes
       DEF ReceiveCheck, TypeOK, ConsumerGoes, Receives, ConsumerRecord,
           ConsumerSteps
  <2> QED
    BY <2>1 DEF TypeOK, CallRecord, ConsumerRecord
<1>3. ASSUME ReceiveToken
     PROVE  TypeOK'
  <2>1. /\ consumer' \in ConsumerRecord
        /\ available' \in 0 .. Capacity
        /\ UNCHANGED <<state, driver_installed, driver_started, task_owned,
           receive_requested, task_stopped, depth, bus_errors,
           last_bus_errors, driver, occurred, polled, task, caller>>
    BY <1>3
       DEF ReceiveToken, TypeOK, ConsumerGoes, Receives, ConsumerRecord,
           ConsumerSteps
  <2> QED
    BY <2>1 DEF TypeOK, CallRecord, ConsumerRecord
<1>4. ASSUME ReceiveTimeout
     PROVE  TypeOK'
  <2>1. /\ consumer' \in ConsumerRecord
        /\ UNCHANGED <<state, driver_installed, driver_started, task_owned,
           receive_requested, available, task_stopped, depth, bus_errors,
           last_bus_errors, driver, occurred, polled, task, caller>>
    BY <1>4
       DEF ReceiveTimeout, TypeOK, ConsumerGoes, Receives, ConsumerRecord,
           ConsumerSteps
  <2> QED
    BY <2>1 DEF TypeOK, CallRecord, ConsumerRecord
<1>5. ASSUME ReceiveTimedOut
     PROVE  TypeOK'
  <2>1. /\ consumer' \in ConsumerRecord
        /\ UNCHANGED <<state, driver_installed, driver_started, task_owned,
           receive_requested, available, task_stopped, depth, bus_errors,
           last_bus_errors, driver, occurred, polled, task, caller>>
    BY <1>5, StateResultTypes
       DEF ReceiveTimedOut, TypeOK, ConsumerGoes, Receives, ConsumerRecord,
           ConsumerSteps, Results
  <2> QED
    BY <2>1 DEF TypeOK, CallRecord, ConsumerRecord
<1>6. ASSUME ReceiveRecheck
     PROVE  TypeOK'
  <2>1. /\ consumer' \in ConsumerRecord
        /\ UNCHANGED <<state, driver_installed, driver_started, task_owned,
           receive_requested, available, task_stopped, depth, bus_errors,
           last_bus_errors, driver, occurred, polled, task, caller>>
    BY <1>6, StateResultTypes
       DEF ReceiveRecheck, TypeOK, ConsumerGoes, Receives, ConsumerRecord,
           ConsumerSteps
  <2> QED
    BY <2>1 DEF TypeOK, CallRecord, ConsumerRecord
<1>7. ASSUME ReceivePop
     PROVE  TypeOK'
  <2>1. /\ consumer' \in ConsumerRecord
        /\ depth' \in 0 .. Capacity
        /\ UNCHANGED <<state, driver_installed, driver_started, task_owned,
           receive_requested, available, task_stopped, bus_errors,
           last_bus_errors, driver, occurred, polled, task, caller>>
    BY <1>7
       DEF ReceivePop, TypeOK, ConsumerGoes, Receives, ConsumerRecord,
           ConsumerSteps, Results
  <2> QED
    BY <2>1 DEF TypeOK, CallRecord, ConsumerRecord
<1>8. ASSUME DriverEvent
     PROVE  TypeOK'
  <2>1. /\ occurred' \in 0 .. MaxEvents
        /\ polled' \in 0 .. occurred'
        /\ UNCHANGED <<state, driver_installed, driver_started, task_owned,
           receive_requested, available, task_stopped, depth, bus_errors,
           last_bus_errors, driver, task, caller, consumer>>
    BY <1>8 DEF DriverEvent, TypeOK
  <2> QED
    BY <2>1 DEF TypeOK, CallRecord, ConsumerRecord
<1> QED
  BY <1>1, <1>2, <1>3, <1>4, <1>5, <1>6, <1>7, <1>8 DEF Receive

-----------------------------------------------------------------------------
(***************************************************************************)
(* Every step keeps the invariant.                                         *)
(***************************************************************************)
\* What the types say of the data.
LEMMA DataTypes ==
  ASSUME TypeOK
  PROVE  /\ state \in LifecycleStates
         /\ driver \in {"absent", "stopped", "running"}
         /\ available \in Nat /\ available <= Capacity /\ depth \in Nat
         /\ occurred \in Nat /\ polled \in Nat /\ polled <= occurred
         /\ bus_errors \in Nat /\ Capacity \in Nat \ {0}
         /\ CounterModulus \in Nat \ {0, 1} /\ last_bus_errors \in Nat
BY CapacityAssumption, CounterAssumption DEF TypeOK

\* A step that leaves the calls alone,
LEMMA SameCall ==
  ASSUME OneCall, UNCHANGED caller
  PROVE  OneCall' /\ Current' = Current /\ Unstopped' = Unstopped
BY DEF OneCall, At, Current, Unstopped

\* or the tasks.
LEMMA SameTask ==
  ASSUME OneTask, UNCHANGED task
  PROVE  OneTask' /\ TaskStep' = TaskStep
BY DEF OneTask, TaskStep

\* A task moves, the others not existing: its step is the current one.
LEMMA TaskMoves ==
  ASSUME OneTask, TypeOK, NEW t \in Tasks,
         \A u \in Tasks : u # t => task[u] = "none",
         NEW step, TaskGoes(t, step)
  PROVE  OneTask' /\ TaskStep' = step
<1>1. task'[t] = step /\ \A u \in Tasks : u # t => task'[u] = "none"
  BY DEF TypeOK, TaskGoes
<1>2. OneTask'
  BY <1>1 DEF OneTask
<1>3. CASE step = "none"
  <2>1. \A u \in Tasks : task'[u] = "none"
    BY <1>1, <1>3
  <2> QED
    BY <1>2, <1>3, <2>1 DEF TaskStep, TaskStepIn
<1>4. CASE step # "none"
  BY <1>1, <1>2, <1>4, OnlyTask DEF TaskStep
<1> QED
  BY <1>3, <1>4

\* So it does when a task that exists goes on,
LEMMA TaskGoesOn ==
  ASSUME OneTask, TypeOK, NEW t \in Tasks, NEW at, TaskAt(t, at),
         at # "none", NEW step, TaskGoes(t, step)
  PROVE  OneTask' /\ TaskStep = at /\ TaskStep' = step
<1>1. \A u \in Tasks : u # t => task[u] = "none"
  BY DEF OneTask, TaskAt
<1>2. TaskStep = at
  BY TaskIs DEF TaskAt
<1> QED
  BY <1>1, <1>2, TaskMoves

\* The unsigned difference of two counters is the difference of what they
\* count, as long as the second is less than one turn behind.
LEMMA DeltaIsDifference ==
  ASSUME NEW M \in Nat \ {0}, NEW a \in Nat, NEW b \in Nat, b <= a, a - b < M
  PROVE  ((a % M) - (b % M)) % M = a - b
<1> DEFINE p == a \div M
<1> DEFINE r == a % M
<1> DEFINE q == b \div M
<1> DEFINE s == b % M
<1>1. /\ p \in Int /\ r \in 0 .. M - 1 /\ a = M * p + r
      /\ q \in Int /\ s \in 0 .. M - 1 /\ b = M * q + s
  OBVIOUS
<1>2. r - s \in Int
  BY <1>1
<1> DEFINE d == (r - s) % M
<1> DEFINE e == (r - s) \div M
<1>3. d \in 0 .. M - 1 /\ e \in Int /\ r - s = M * e + d
  BY <1>2
<1> HIDE DEF p, r, q, s, d, e
<1> DEFINE f == p - q + e
<1>4. f \in Int /\ a - b - d = M * f
  <2>1. a - b = M * p - M * q + (r - s)
    BY <1>1
  <2>2. M * p - M * q + M * e = M * (p - q + e)
    BY <1>1, <1>3
  <2> QED
    BY <1>1, <1>3, <2>1, <2>2
<1>5. -M < a - b - d /\ a - b - d < M
  BY <1>3
<1> HIDE DEF f
<1>6. f = 0
  <2>1. CASE f >= 1
    <3>1. M * f >= M
      BY <1>4, <2>1
    <3> QED
      BY <1>3, <1>4, <1>5, <3>1
  <2>2. CASE f <= -1
    <3>1. M * f <= -M
      BY <1>4, <2>2
    <3> QED
      BY <1>3, <1>4, <1>5, <3>1
  <2> QED
    BY <1>4, <2>1, <2>2
<1>7. a - b = d
  BY <1>3, <1>4, <1>6
<1> QED
  BY <1>7 DEF d, r, s

\* The steps of start() do,
LEMMA StartPreserves ==
  ASSUME IInv, TypeOK', NEW c \in Callers, Start(c)
  PROVE  IInv'
<1> USE DEF ConsumerAt, CallInv, FlagsInv, StartInv, CountInv, StopInv,
            StoppedInv, BackedInv, FaultInv, InStep, Alive, Fresh, Installing,
            Installed, Started, Prepared, Asking, Waiting, Releasing, Settling,
            StopCalled, StartSteps, StopSteps, LifecycleStates, lifecycle,
            flags, semaphores, counting, ring, queue, others
<1>0. /\ TypeOK /\ OneCall /\ OneTask /\ Current \in CallRecord
      /\ available \in Nat /\ depth \in Nat /\ occurred \in Nat
      /\ polled \in Nat /\ CounterModulus \in Nat \ {0, 1}
      /\ state \in LifecycleStates
      /\ driver \in {"absent", "stopped", "running"}
      /\ Current.op \in {"none", "start", "stop"}
  BY DataTypes, CurrentType DEF IInv, CallRecord
<1>1. ASSUME BeginStart(c)
     PROVE  IInv'
  <2>1. /\ At(c, "begin_start")
        /\ UNCHANGED <<driver_installed, driver_started,
                      task_owned, receive_requested, available, task_stopped,
                      depth, bus_errors, last_bus_errors, driver, occurred,
                      polled, task, consumer>>
    BY <1>1 DEF BeginStart, Startable
  <2>2. Current.step = "begin_start"
    BY <1>0, <2>1, CurrentIs DEF At
  <2>3. OneTask' /\ TaskStep' = TaskStep
    BY <1>0, <2>1, SameTask
  <2>4. CASE /\ state = "Stopped" /\ state' = "Running"
             /\ Go(c, "drain")
    <3>1. Moved("drain", Current.result) /\ Kept
      BY <1>0, <2>1, <2>4, Goes DEF At, CallerSteps
    <3>2. Consistent'
      BY <1>0, <2>1, <2>2, <2>3, <2>4, <3>1 DEF IInv, Consistent, Moved, Kept
    <3> QED
      BY <2>3, <3>1, <3>2 DEF IInv, Moved
  <2>5. CASE /\ state # "Stopped" /\ state' = state
             /\ Go(c, "refused")
    <3>1. Moved("refused", Current.result) /\ Kept
      BY <1>0, <2>1, <2>5, Goes DEF At, CallerSteps
    <3>2. Consistent'
      BY <1>0, <2>1, <2>2, <2>3, <2>5, <3>1 DEF IInv, Consistent, Moved, Kept
    <3> QED
      BY <2>3, <3>1, <3>2 DEF IInv, Moved
  <2> QED
    BY <1>1, <2>4, <2>5 DEF BeginStart, Startable
<1>2. ASSUME StartRefused(c)
     PROVE  IInv'
  <2>1. /\ At(c, "refused")
        /\ Return(c, StateResult(state))
        /\ UNCHANGED <<state, driver_installed, driver_started,
                      task_owned, receive_requested, available, task_stopped,
                      depth, bus_errors, last_bus_errors, driver, occurred,
                      polled, task, consumer>>
    BY <1>2 DEF StartRefused
  <2>2. Current.step = "refused"
    BY <1>0, <2>1, CurrentIs DEF At
  <2>3. OneTask' /\ TaskStep' = TaskStep
    BY <1>0, <2>1, SameTask
  <2>4. /\ OneCall' /\ Current' = NoCall
        /\ Unstopped' => Current.op = "start"
    BY <1>0, <2>1, ReturnEnds DEF At
  <2>5. Consistent'
    BY <1>0, <2>1, <2>2, <2>3, <2>4 DEF IInv, Consistent, NoCall
  <2> QED
    BY <2>3, <2>4, <2>5 DEF IInv
<1>3. ASSUME StartDrain(c)
     PROVE  IInv'
  <2>1. /\ At(c, "drain")
        /\ available' = 0 /\ ~task_stopped'
        /\ \A t \in Tasks : task[t] # "exit"
        /\ Go(c, "install")
        /\ UNCHANGED <<state, driver_installed, driver_started,
                      task_owned, receive_requested, depth, bus_errors,
                      last_bus_errors, driver, occurred, polled, task,
                      consumer>>
    BY <1>3 DEF StartDrain, IInv, Scheduled
  <2>2. Current.step = "drain"
    BY <1>0, <2>1, CurrentIs DEF At
  <2>3. OneTask' /\ TaskStep' = TaskStep
    BY <1>0, <2>1, SameTask
  <2>6. TaskStep # "exit"
    BY <1>0, <2>1, TaskIs
  <2>4. Moved("install", Current.result) /\ Kept
    BY <1>0, <2>1, Goes DEF At, CallerSteps
  <2>5. Consistent'
    BY <1>0, <2>1, <2>2, <2>3, <2>4, <2>6 DEF IInv, Consistent, Moved, Kept
  <2> QED
    BY <2>3, <2>4, <2>5 DEF IInv, Moved
<1>4. ASSUME StartInstall(c)
     PROVE  IInv'
  <2>1. /\ At(c, "install")
        /\ UNCHANGED <<state, driver_started, task_owned,
                      receive_requested, available, task_stopped, depth,
                      bus_errors, last_bus_errors, task, consumer>>
    BY <1>4 DEF StartInstall
  <2>2. Current.step = "install"
    BY <1>0, <2>1, CurrentIs DEF At
  <2>3. OneTask' /\ TaskStep' = TaskStep
    BY <1>0, <2>1, SameTask
  <2>4. CASE /\ driver' = "stopped" /\ driver_installed'
             /\ occurred' = 0 /\ polled' = 0
             /\ Go(c, "start_driver")
    <3>1. Moved("start_driver", Current.result) /\ Kept
      BY <1>0, <2>1, <2>4, Goes DEF At, CallerSteps
    <3>2. Consistent'
      BY <1>0, <2>1, <2>2, <2>3, <2>4, <3>1 DEF IInv, Consistent, Moved, Kept
    <3> QED
      BY <2>3, <3>1, <3>2 DEF IInv, Moved
  <2>5. CASE /\ UNCHANGED <<driver, driver_installed, occurred, polled>>
             /\ Go(c, "abort")
    <3>1. Moved("abort", Current.result) /\ Kept
      BY <1>0, <2>1, <2>5, Goes DEF At, CallerSteps
    <3>2. Consistent'
      BY <1>0, <2>1, <2>2, <2>3, <2>5, <3>1 DEF IInv, Consistent, Moved, Kept
    <3> QED
      BY <2>3, <3>1, <3>2 DEF IInv, Moved
  <2> QED
    BY <1>4, <2>4, <2>5 DEF StartInstall
<1>5. ASSUME StartAbort(c)
     PROVE  IInv'
  <2>1. /\ At(c, "abort")
        /\ state' = IF driver_installed \/ task_owned THEN state ELSE "Stopped"
        /\ Return(c, "kDriverFailure")
        /\ UNCHANGED <<driver_installed, driver_started,
                      task_owned, receive_requested, available, task_stopped,
                      depth, bus_errors, last_bus_errors, driver, occurred,
                      polled, task, consumer>>
    BY <1>5 DEF StartAbort
  <2>2. Current.step = "abort"
    BY <1>0, <2>1, CurrentIs DEF At
  <2>3. OneTask' /\ TaskStep' = TaskStep
    BY <1>0, <2>1, SameTask
  <2>4. /\ OneCall' /\ Current' = NoCall
        /\ Unstopped' => Current.op = "start"
    BY <1>0, <2>1, ReturnEnds DEF At
  <2>5. Consistent'
    BY <1>0, <2>1, <2>2, <2>3, <2>4 DEF IInv, Consistent, NoCall
  <2> QED
    BY <2>3, <2>4, <2>5 DEF IInv
<1>6. ASSUME StartDriver(c)
     PROVE  IInv'
  <2>1. /\ At(c, "start_driver")
        /\ UNCHANGED <<state, driver_installed, task_owned,
                      receive_requested, available, task_stopped, depth,
                      bus_errors, last_bus_errors, occurred, polled, task,
                      consumer>>
    BY <1>6 DEF StartDriver
  <2>2. Current.step = "start_driver"
    BY <1>0, <2>1, CurrentIs DEF At
  <2>3. OneTask' /\ TaskStep' = TaskStep
    BY <1>0, <2>1, SameTask
  <2>4. CASE /\ driver' = "running" /\ driver_started'
             /\ Go(c, "clear")
    <3>1. Moved("clear", Current.result) /\ Kept
      BY <1>0, <2>1, <2>4, Goes DEF At, CallerSteps
    <3>2. Consistent'
      BY <1>0, <2>1, <2>2, <2>3, <2>4, <3>1 DEF IInv, Consistent, Moved, Kept
    <3> QED
      BY <2>3, <3>1, <3>2 DEF IInv, Moved
  <2>5. CASE /\ UNCHANGED <<driver, driver_started>>
             /\ Go(c, "undo_install")
    <3>1. Moved("undo_install", Current.result) /\ Kept
      BY <1>0, <2>1, <2>5, Goes DEF At, CallerSteps
    <3>2. Consistent'
      BY <1>0, <2>1, <2>2, <2>3, <2>5, <3>1 DEF IInv, Consistent, Moved, Kept
    <3> QED
      BY <2>3, <3>1, <3>2 DEF IInv, Moved
  <2> QED
    BY <1>6, <2>4, <2>5 DEF StartDriver
<1>7. ASSUME StartUndoInstall(c)
     PROVE  IInv'
  <2>1. /\ At(c, "undo_install")
        /\ UNCHANGED <<state, driver_started, task_owned,
                      receive_requested, available, task_stopped, depth,
                      bus_errors, last_bus_errors, occurred, polled, task,
                      consumer>>
    BY <1>7 DEF StartUndoInstall, Uninstalls
  <2>2. Current.step = "undo_install"
    BY <1>0, <2>1, CurrentIs DEF At
  <2>3. OneTask' /\ TaskStep' = TaskStep
    BY <1>0, <2>1, SameTask
  <2>4. CASE /\ driver = "stopped" /\ driver' = "absent"
             /\ ~driver_installed'
             /\ FailLater(c, "reconcile", "kDriverFailure")
    <3>1. Moved("reconcile", "kDriverFailure") /\ Kept
      BY <1>0, <2>1, <2>4, FailsLater DEF At, CallerSteps
    <3>2. Consistent'
      BY <1>0, <2>1, <2>2, <2>3, <2>4, <3>1 DEF IInv, Consistent, Moved, Kept
    <3> QED
      BY <2>3, <3>1, <3>2 DEF IInv, Moved
  <2>5. CASE /\ UNCHANGED <<driver, driver_installed>>
             /\ FailLater(c, "reconcile", "kDriverFailure")
    <3>1. Moved("reconcile", "kDriverFailure") /\ Kept
      BY <1>0, <2>1, <2>5, FailsLater DEF At, CallerSteps
    <3>2. Consistent'
      BY <1>0, <2>1, <2>2, <2>3, <2>5, <3>1 DEF IInv, Consistent, Moved, Kept
    <3> QED
      BY <2>3, <3>1, <3>2 DEF IInv, Moved
  <2> QED
    BY <1>7, <2>4, <2>5 DEF StartUndoInstall, Uninstalls
<1>8. ASSUME StartClear(c)
     PROVE  IInv'
  <2>1. /\ At(c, "clear")
        /\ depth' = 0 /\ bus_errors' = 0 /\ last_bus_errors' = 0
        /\ Go(c, "request")
        /\ UNCHANGED <<state, driver_installed, driver_started,
                      task_owned, receive_requested, available, task_stopped,
                      driver, occurred, polled, task, consumer>>
    BY <1>8 DEF StartClear
  <2>2. Current.step = "clear"
    BY <1>0, <2>1, CurrentIs DEF At
  <2>3. OneTask' /\ TaskStep' = TaskStep
    BY <1>0, <2>1, SameTask
  <2>6. 0 % CounterModulus = 0
    BY <1>0
  <2>4. Moved("request", Current.result) /\ Kept
    BY <1>0, <2>1, Goes DEF At, CallerSteps
  <2>5. Consistent'
    BY <1>0, <2>1, <2>2, <2>3, <2>4, <2>6 DEF IInv, Consistent, Moved, Kept
  <2> QED
    BY <2>3, <2>4, <2>5 DEF IInv, Moved
<1>9. ASSUME StartRequest(c)
     PROVE  IInv'
  <2>1. /\ At(c, "request")
        /\ Go(c, "mark_task")
        /\ UNCHANGED <<state, driver_installed, driver_started,
                      task_owned, available, task_stopped, depth, bus_errors,
                      last_bus_errors, driver, occurred, polled, task,
                      consumer>>
    BY <1>9 DEF StartRequest
  <2>2. Current.step = "request"
    BY <1>0, <2>1, CurrentIs DEF At
  <2>3. OneTask' /\ TaskStep' = TaskStep
    BY <1>0, <2>1, SameTask
  <2>4. Moved("mark_task", Current.result) /\ Kept
    BY <1>0, <2>1, Goes DEF At, CallerSteps
  <2>5. Consistent'
    BY <1>0, <2>1, <2>2, <2>3, <2>4 DEF IInv, Consistent, Moved, Kept
  <2> QED
    BY <2>3, <2>4, <2>5 DEF IInv, Moved
<1>10. ASSUME StartMarkTask(c)
     PROVE  IInv'
  <2>1. /\ At(c, "mark_task")
        /\ task_owned'
        /\ Go(c, "create")
        /\ UNCHANGED <<state, driver_installed, driver_started,
                      receive_requested, available, task_stopped, depth,
                      bus_errors, last_bus_errors, driver, occurred, polled,
                      task, consumer>>
    BY <1>10 DEF StartMarkTask
  <2>2. Current.step = "mark_task"
    BY <1>0, <2>1, CurrentIs DEF At
  <2>3. OneTask' /\ TaskStep' = TaskStep
    BY <1>0, <2>1, SameTask
  <2>4. Moved("create", Current.result) /\ Kept
    BY <1>0, <2>1, Goes DEF At, CallerSteps
  <2>5. Consistent'
    BY <1>0, <2>1, <2>2, <2>3, <2>4 DEF IInv, Consistent, Moved, Kept
  <2> QED
    BY <2>3, <2>4, <2>5 DEF IInv, Moved
<1>11. ASSUME StartCreate(c)
     PROVE  IInv'
  <2>1. /\ At(c, "create")
        /\ UNCHANGED <<state, driver_installed, driver_started, task_owned,
                       receive_requested, available, task_stopped, depth,
                       bus_errors, last_bus_errors, driver, occurred,
                       polled, consumer>>
    BY <1>11 DEF StartCreate
  <2>2. Current.step = "create" /\ TaskStep = "none"
    <3>1. Current.step = "create"
      BY <1>0, <2>1, CurrentIs DEF At
    <3> QED
      BY <3>1 DEF IInv, Consistent
  <2>3. CASE Return(c, "kOk") /\ \E t \in Tasks : TaskGoes(t, "loop")
    <3>1. PICK t \in Tasks : TaskGoes(t, "loop")
      BY <2>3
    <3>2. OneTask' /\ TaskStep' = "loop"
      BY <1>0, <2>2, <3>1, TaskIs, TaskMoves
    <3>3. /\ OneCall' /\ Current' = NoCall
          /\ Unstopped' => Current.op = "start"
      BY <1>0, <2>1, <2>3, ReturnEnds DEF At
    <3>4. Consistent'
      BY <1>0, <2>1, <2>2, <3>2, <3>3 DEF IInv, Consistent, NoCall
    <3> QED
      BY <3>2, <3>3, <3>4 DEF IInv
  <2>4. CASE Go(c, "give_up") /\ UNCHANGED task
    <3>1. OneTask' /\ TaskStep' = TaskStep
      BY <1>0, <2>4, SameTask
    <3>2. Moved("give_up", Current.result) /\ Kept
      BY <1>0, <2>1, <2>4, Goes DEF At, CallerSteps
    <3>3. Consistent'
      BY <1>0, <2>1, <2>2, <3>1, <3>2 DEF IInv, Consistent, Moved, Kept
    <3> QED
      BY <3>1, <3>2, <3>3 DEF IInv, Moved
  <2> QED
    BY <1>11, <2>3, <2>4 DEF StartCreate, TaskGoes
<1>12. ASSUME StartGiveUp(c)
     PROVE  IInv'
  <2>1. /\ At(c, "give_up")
        /\ ~task_owned'
        /\ state' = IF state = "Stopped" THEN state ELSE "Stopping"
        /\ FailLater(c, "give_up_driver", "kTaskFailure")
        /\ UNCHANGED <<driver_installed, driver_started,
                      available, task_stopped, depth, bus_errors,
                      last_bus_errors, driver, occurred, polled, task,
                      consumer>>
    BY <1>12 DEF StartGiveUp
  <2>2. Current.step = "give_up"
    BY <1>0, <2>1, CurrentIs DEF At
  <2>3. OneTask' /\ TaskStep' = TaskStep
    BY <1>0, <2>1, SameTask
  <2>4. Moved("give_up_driver", "kTaskFailure") /\ Kept
    BY <1>0, <2>1, FailsLater DEF At, CallerSteps
  <2>5. Consistent'
    BY <1>0, <2>1, <2>2, <2>3, <2>4 DEF IInv, Consistent, Moved, Kept
  <2> QED
    BY <2>3, <2>4, <2>5 DEF IInv, Moved
<1>13. ASSUME StartGiveUpDriver(c)
     PROVE  IInv'
  <2>1. /\ At(c, "give_up_driver")
        /\ UNCHANGED <<state, driver_installed, task_owned,
                      receive_requested, available, task_stopped, depth,
                      bus_errors, last_bus_errors, occurred, polled, task,
                      consumer>>
    BY <1>13 DEF StartGiveUpDriver, StopsDriver
  <2>2. Current.step = "give_up_driver"
    BY <1>0, <2>1, CurrentIs DEF At
  <2>3. OneTask' /\ TaskStep' = TaskStep
    BY <1>0, <2>1, SameTask
  <2>4. CASE /\ driver = "running" /\ driver' = "stopped"
             /\ ~driver_started'
             /\ Go(c, "give_up_install")
    <3>1. Moved("give_up_install", Current.result) /\ Kept
      BY <1>0, <2>1, <2>4, Goes DEF At, CallerSteps
    <3>2. Consistent'
      BY <1>0, <2>1, <2>2, <2>3, <2>4, <3>1 DEF IInv, Consistent, Moved, Kept
    <3> QED
      BY <2>3, <3>1, <3>2 DEF IInv, Moved
  <2>5. CASE /\ UNCHANGED <<driver, driver_started>>
             /\ Go(c, "reconcile")
    <3>1. Moved("reconcile", Current.result) /\ Kept
      BY <1>0, <2>1, <2>5, Goes DEF At, CallerSteps
    <3>2. Consistent'
      BY <1>0, <2>1, <2>2, <2>3, <2>5, <3>1 DEF IInv, Consistent, Moved, Kept
    <3> QED
      BY <2>3, <3>1, <3>2 DEF IInv, Moved
  <2> QED
    BY <1>13, <2>4, <2>5 DEF StartGiveUpDriver, StopsDriver
<1>14. ASSUME StartGiveUpInstall(c)
     PROVE  IInv'
  <2>1. /\ At(c, "give_up_install")
        /\ UNCHANGED <<state, driver_started, task_owned,
                      receive_requested, available, task_stopped, depth,
                      bus_errors, last_bus_errors, occurred, polled, task,
                      consumer>>
    BY <1>14 DEF StartGiveUpInstall, Uninstalls
  <2>2. Current.step = "give_up_install"
    BY <1>0, <2>1, CurrentIs DEF At
  <2>3. OneTask' /\ TaskStep' = TaskStep
    BY <1>0, <2>1, SameTask
  <2>4. CASE /\ driver = "stopped" /\ driver' = "absent"
             /\ ~driver_installed'
             /\ Go(c, "reconcile")
    <3>1. Moved("reconcile", Current.result) /\ Kept
      BY <1>0, <2>1, <2>4, Goes DEF At, CallerSteps
    <3>2. Consistent'
      BY <1>0, <2>1, <2>2, <2>3, <2>4, <3>1 DEF IInv, Consistent, Moved, Kept
    <3> QED
      BY <2>3, <3>1, <3>2 DEF IInv, Moved
  <2>5. CASE /\ UNCHANGED <<driver, driver_installed>>
             /\ Go(c, "reconcile")
    <3>1. Moved("reconcile", Current.result) /\ Kept
      BY <1>0, <2>1, <2>5, Goes DEF At, CallerSteps
    <3>2. Consistent'
      BY <1>0, <2>1, <2>2, <2>3, <2>5, <3>1 DEF IInv, Consistent, Moved, Kept
    <3> QED
      BY <2>3, <3>1, <3>2 DEF IInv, Moved
  <2> QED
    BY <1>14, <2>4, <2>5 DEF StartGiveUpInstall, Uninstalls
<1> QED
  BY <1>1, <1>2, <1>3, <1>4, <1>5, <1>6, <1>7, <1>8, <1>9, <1>10, <1>11,
     <1>12, <1>13, <1>14
     DEF Start

\* so do those of stop() and reconcile(),
LEMMA StopPreserves ==
  ASSUME IInv, TypeOK', NEW c \in Callers, Stop(c) \/ Reconciles(c)
  PROVE  IInv'
<1> USE DEF ConsumerAt, CallInv, FlagsInv, StartInv, CountInv, StopInv,
            StoppedInv, BackedInv, FaultInv, InStep, Alive, Fresh, Installing,
            Installed, Started, Prepared, Asking, Waiting, Releasing, Settling,
            StopCalled, StartSteps, StopSteps, LifecycleStates, lifecycle,
            flags, semaphores, counting, ring, queue, others
<1>0. /\ TypeOK /\ OneCall /\ OneTask /\ Current \in CallRecord
      /\ available \in Nat /\ depth \in Nat /\ occurred \in Nat
      /\ polled \in Nat /\ CounterModulus \in Nat \ {0, 1}
      /\ state \in LifecycleStates
      /\ driver \in {"absent", "stopped", "running"}
      /\ Current.op \in {"none", "start", "stop"}
  BY DataTypes, CurrentType DEF IInv, CallRecord
<1>1. ASSUME BeginStop(c)
     PROVE  IInv'
  <2>1. /\ At(c, "begin_stop")
        /\ UNCHANGED <<driver_installed, driver_started,
                      task_owned, receive_requested, available, task_stopped,
                      depth, bus_errors, last_bus_errors, driver, occurred,
                      polled, task, consumer>>
    BY <1>1 DEF BeginStop, NothingToStop
  <2>2. Current.step = "begin_stop"
    BY <1>0, <2>1, CurrentIs DEF At
  <2>3. OneTask' /\ TaskStep' = TaskStep
    BY <1>0, <2>1, SameTask
  <2>4. CASE /\ state = "Stopped" /\ state' = state
             /\ Return(c, "kNotStarted")
    <3>1. /\ OneCall' /\ Current' = NoCall
          /\ Unstopped' => Current.op = "start"
      BY <1>0, <2>1, <2>4, ReturnEnds DEF At
    <3>2. Consistent'
      BY <1>0, <2>1, <2>2, <2>3, <2>4, <3>1 DEF IInv, Consistent, NoCall
    <3> QED
      BY <2>3, <3>1, <3>2 DEF IInv
  <2>5. CASE /\ state # "Stopped" /\ state' = "Stopping"
             /\ Go(c, "withdraw")
    <3>1. Moved("withdraw", Current.result) /\ Kept
      BY <1>0, <2>1, <2>5, Goes DEF At, CallerSteps
    <3>2. Consistent'
      BY <1>0, <2>1, <2>2, <2>3, <2>5, <3>1 DEF IInv, Consistent, Moved, Kept
    <3> QED
      BY <2>3, <3>1, <3>2 DEF IInv, Moved
  <2> QED
    BY <1>1, <2>4, <2>5 DEF BeginStop, NothingToStop
<1>2. ASSUME StopWithdraw(c)
     PROVE  IInv'
  <2>1. /\ At(c, "withdraw")
        /\ Go(c, "stop_driver")
        /\ UNCHANGED <<state, driver_installed, driver_started,
                      task_owned, available, task_stopped, depth, bus_errors,
                      last_bus_errors, driver, occurred, polled, task,
                      consumer>>
    BY <1>2 DEF StopWithdraw
  <2>2. Current.step = "withdraw"
    BY <1>0, <2>1, CurrentIs DEF At
  <2>3. OneTask' /\ TaskStep' = TaskStep
    BY <1>0, <2>1, SameTask
  <2>4. Moved("stop_driver", Current.result) /\ Kept
    BY <1>0, <2>1, Goes DEF At, CallerSteps
  <2>5. Consistent'
    BY <1>0, <2>1, <2>2, <2>3, <2>4 DEF IInv, Consistent, Moved, Kept
  <2> QED
    BY <2>3, <2>4, <2>5 DEF IInv, Moved
<1>3. ASSUME StopDriverDone(c)
     PROVE  IInv'
  <2>1. /\ At(c, "stop_driver")
        /\ UNCHANGED <<state, driver_installed, task_owned,
                      receive_requested, available, task_stopped, depth,
                      bus_errors, last_bus_errors, occurred, polled, task,
                      consumer>>
    BY <1>3 DEF StopDriverDone, StopsDriver
  <2>2. Current.step = "stop_driver"
    BY <1>0, <2>1, CurrentIs DEF At
  <2>3. OneTask' /\ TaskStep' = TaskStep
    BY <1>0, <2>1, SameTask
  <2>4. CASE /\ ~driver_started
             /\ UNCHANGED <<driver, driver_started>>
             /\ caller' = [caller EXCEPT ![c].step = "check_task",
              ![c].driver_stopped = TRUE]
    <3>1. /\ Moved("check_task", Current.result)
          /\ Current'.driver_stopped
          /\ Current'.task_stopped = Current.task_stopped
          /\ Current'.driver_uninstalled = Current.driver_uninstalled
          /\ Current'.verdict = Current.verdict
      BY <1>0, <2>1, <2>4, NotesDriver DEF At, CallerSteps
    <3>2. Consistent'
      BY <1>0, <2>1, <2>2, <2>3, <2>4, <3>1 DEF IInv, Consistent, Moved
    <3> QED
      BY <2>3, <3>1, <3>2 DEF IInv, Moved
  <2>5. CASE /\ driver_started
             /\ driver = "running" /\ driver' = "stopped"
             /\ ~driver_started'
             /\ caller' = [caller EXCEPT ![c].step = "check_task",
              ![c].driver_stopped = TRUE]
    <3>1. /\ Moved("check_task", Current.result)
          /\ Current'.driver_stopped
          /\ Current'.task_stopped = Current.task_stopped
          /\ Current'.driver_uninstalled = Current.driver_uninstalled
          /\ Current'.verdict = Current.verdict
      BY <1>0, <2>1, <2>5, NotesDriver DEF At, CallerSteps
    <3>2. Consistent'
      BY <1>0, <2>1, <2>2, <2>3, <2>5, <3>1 DEF IInv, Consistent, Moved
    <3> QED
      BY <2>3, <3>1, <3>2 DEF IInv, Moved
  <2> QED
    BY <1>3, <2>4, <2>5 DEF StopDriverDone, StopsDriver
<1>4. ASSUME StopDriverFails(c)
     PROVE  IInv'
  <2>1. /\ At(c, "stop_driver")
        /\ driver_started
        /\ Go(c, "check_task")
        /\ UNCHANGED <<state, driver_installed, driver_started,
                      task_owned, receive_requested, available, task_stopped,
                      depth, bus_errors, last_bus_errors, driver, occurred,
                      polled, task, consumer>>
    BY <1>4 DEF StopDriverFails
  <2>2. Current.step = "stop_driver"
    BY <1>0, <2>1, CurrentIs DEF At
  <2>3. OneTask' /\ TaskStep' = TaskStep
    BY <1>0, <2>1, SameTask
  <2>4. Moved("check_task", Current.result) /\ Kept
    BY <1>0, <2>1, Goes DEF At, CallerSteps
  <2>5. Consistent'
    BY <1>0, <2>1, <2>2, <2>3, <2>4 DEF IInv, Consistent, Moved, Kept
  <2> QED
    BY <2>3, <2>4, <2>5 DEF IInv, Moved
<1>5. ASSUME StopCheckTask(c)
     PROVE  IInv'
  <2>1. /\ At(c, "check_task")
        /\ UNCHANGED <<state, driver_installed, driver_started,
                      task_owned, receive_requested, available, task_stopped,
                      depth, bus_errors, last_bus_errors, driver, occurred,
                      polled, task, consumer>>
    BY <1>5 DEF StopCheckTask
  <2>2. Current.step = "check_task"
    BY <1>0, <2>1, CurrentIs DEF At
  <2>3. OneTask' /\ TaskStep' = TaskStep
    BY <1>0, <2>1, SameTask
  <2>4. CASE /\ task_owned
             /\ Go(c, "wait_task")
    <3>1. Moved("wait_task", Current.result) /\ Kept
      BY <1>0, <2>1, <2>4, Goes DEF At, CallerSteps
    <3>2. Consistent'
      BY <1>0, <2>1, <2>2, <2>3, <2>4, <3>1 DEF IInv, Consistent, Moved, Kept
    <3> QED
      BY <2>3, <3>1, <3>2 DEF IInv, Moved
  <2>5. CASE /\ ~task_owned
             /\ Go(c, "take_token")
    <3>1. Moved("take_token", Current.result) /\ Kept
      BY <1>0, <2>1, <2>5, Goes DEF At, CallerSteps
    <3>2. Consistent'
      BY <1>0, <2>1, <2>2, <2>3, <2>5, <3>1 DEF IInv, Consistent, Moved, Kept
    <3> QED
      BY <2>3, <3>1, <3>2 DEF IInv, Moved
  <2> QED
    BY <1>5, <2>4, <2>5 DEF StopCheckTask
<1>6. ASSUME StopWaitTask(c)
     PROVE  IInv'
  <2>1. /\ At(c, "wait_task")
        /\ UNCHANGED <<state, driver_installed, driver_started,
                      task_owned, receive_requested, available, depth,
                      bus_errors, last_bus_errors, driver, occurred, polled,
                      task, consumer>>
    BY <1>6 DEF StopWaitTask
  <2>2. Current.step = "wait_task"
    BY <1>0, <2>1, CurrentIs DEF At
  <2>3. OneTask' /\ TaskStep' = TaskStep
    BY <1>0, <2>1, SameTask
  <2>4. CASE /\ task_stopped /\ ~task_stopped'
             /\ Go(c, "acknowledge")
    <3>1. Moved("acknowledge", Current.result) /\ Kept
      BY <1>0, <2>1, <2>4, Goes DEF At, CallerSteps
    <3>2. Consistent'
      BY <1>0, <2>1, <2>2, <2>3, <2>4, <3>1 DEF IInv, Consistent, Moved, Kept
    <3> QED
      BY <2>3, <3>1, <3>2 DEF IInv, Moved
  <2>5. CASE /\ ~task_stopped /\ ~task_stopped'
             /\ Go(c, "uninstall")
    <3>1. Moved("uninstall", Current.result) /\ Kept
      BY <1>0, <2>1, <2>5, Goes DEF At, CallerSteps
    <3>2. Consistent'
      BY <1>0, <2>1, <2>2, <2>3, <2>5, <3>1 DEF IInv, Consistent, Moved, Kept
    <3> QED
      BY <2>3, <3>1, <3>2 DEF IInv, Moved
  <2> QED
    BY <1>6, <2>4, <2>5 DEF StopWaitTask
<1>7. ASSUME StopAcknowledge(c)
     PROVE  IInv'
  <2>1. /\ At(c, "acknowledge")
        /\ ~task_owned'
        /\ caller' = [caller EXCEPT ![c].step = "uninstall",
              ![c].task_stopped = TRUE]
        /\ UNCHANGED <<state, driver_installed, driver_started,
                      receive_requested, available, task_stopped, depth,
                      bus_errors, last_bus_errors, driver, occurred, polled,
                      task, consumer>>
    BY <1>7 DEF StopAcknowledge
  <2>2. Current.step = "acknowledge"
    BY <1>0, <2>1, CurrentIs DEF At
  <2>3. OneTask' /\ TaskStep' = TaskStep
    BY <1>0, <2>1, SameTask
  <2>4. /\ Moved("uninstall", Current.result)
        /\ Current'.driver_stopped = Current.driver_stopped
        /\ Current'.task_stopped
        /\ Current'.driver_uninstalled = Current.driver_uninstalled
        /\ Current'.verdict = Current.verdict
    BY <1>0, <2>1, NotesTask DEF At, CallerSteps
  <2>5. Consistent'
    BY <1>0, <2>1, <2>2, <2>3, <2>4 DEF IInv, Consistent, Moved
  <2> QED
    BY <2>3, <2>4, <2>5 DEF IInv, Moved
<1>8. ASSUME StopTakeToken(c)
     PROVE  IInv'
  <2>1. /\ At(c, "take_token")
        /\ ~task_stopped'
        /\ caller' = [caller EXCEPT ![c].step = "uninstall",
              ![c].task_stopped = TRUE]
        /\ UNCHANGED <<state, driver_installed, driver_started,
                      task_owned, receive_requested, available, depth,
                      bus_errors, last_bus_errors, driver, occurred, polled,
                      task, consumer>>
    BY <1>8 DEF StopTakeToken
  <2>2. Current.step = "take_token"
    BY <1>0, <2>1, CurrentIs DEF At
  <2>3. OneTask' /\ TaskStep' = TaskStep
    BY <1>0, <2>1, SameTask
  <2>4. /\ Moved("uninstall", Current.result)
        /\ Current'.driver_stopped = Current.driver_stopped
        /\ Current'.task_stopped
        /\ Current'.driver_uninstalled = Current.driver_uninstalled
        /\ Current'.verdict = Current.verdict
    BY <1>0, <2>1, NotesTask DEF At, CallerSteps
  <2>5. Consistent'
    BY <1>0, <2>1, <2>2, <2>3, <2>4 DEF IInv, Consistent, Moved
  <2> QED
    BY <2>3, <2>4, <2>5 DEF IInv, Moved
<1>9. ASSUME StopUninstallDone(c)
     PROVE  IInv'
  <2>1. /\ At(c, "uninstall")
        /\ UNCHANGED <<state, driver_started, task_owned,
                      receive_requested, available, task_stopped, depth,
                      bus_errors, last_bus_errors, occurred, polled, task,
                      consumer>>
    BY <1>9 DEF StopUninstallDone, Uninstalls, MayUninstall
  <2>2. Current = caller[c] /\ Current.step = "uninstall"
    BY <1>0, <2>1, CurrentIs DEF At
  <2>3. OneTask' /\ TaskStep' = TaskStep
    BY <1>0, <2>1, SameTask
  <2>4. CASE /\ ~driver_installed
             /\ UNCHANGED <<driver, driver_installed>>
             /\ caller' = [caller EXCEPT ![c].step = "reconcile",
              ![c].driver_uninstalled = TRUE]
    <3>1. /\ Moved("reconcile", Current.result)
          /\ Current'.driver_stopped = Current.driver_stopped
          /\ Current'.task_stopped = Current.task_stopped
          /\ Current'.driver_uninstalled
          /\ Current'.verdict = Current.verdict
      BY <1>0, <2>1, <2>4, NotesUninstalled DEF At, CallerSteps
    <3>2. Consistent'
      BY <1>0, <2>1, <2>2, <2>3, <2>4, <3>1 DEF IInv, Consistent, Moved
    <3> QED
      BY <2>3, <3>1, <3>2 DEF IInv, Moved
  <2>5. CASE /\ driver_installed /\ caller[c].task_stopped
             /\ driver = "stopped" /\ driver' = "absent"
             /\ ~driver_installed'
             /\ caller' = [caller EXCEPT ![c].step = "reconcile",
              ![c].driver_uninstalled = TRUE]
    <3>1. /\ Moved("reconcile", Current.result)
          /\ Current'.driver_stopped = Current.driver_stopped
          /\ Current'.task_stopped = Current.task_stopped
          /\ Current'.driver_uninstalled
          /\ Current'.verdict = Current.verdict
      BY <1>0, <2>1, <2>5, NotesUninstalled DEF At, CallerSteps
    <3>2. Consistent'
      BY <1>0, <2>1, <2>2, <2>3, <2>5, <3>1 DEF IInv, Consistent, Moved
    <3> QED
      BY <2>3, <3>1, <3>2 DEF IInv, Moved
  <2> QED
    BY <1>9, <2>4, <2>5 DEF StopUninstallDone, Uninstalls, MayUninstall
<1>10. ASSUME StopUninstallFails(c)
     PROVE  IInv'
  <2>1. /\ At(c, "uninstall")
        /\ driver_installed
        /\ Go(c, "reconcile")
        /\ UNCHANGED <<state, driver_installed, driver_started,
                      task_owned, receive_requested, available, task_stopped,
                      depth, bus_errors, last_bus_errors, driver, occurred,
                      polled, task, consumer>>
    BY <1>10 DEF StopUninstallFails
  <2>2. Current.step = "uninstall"
    BY <1>0, <2>1, CurrentIs DEF At
  <2>3. OneTask' /\ TaskStep' = TaskStep
    BY <1>0, <2>1, SameTask
  <2>4. Moved("reconcile", Current.result) /\ Kept
    BY <1>0, <2>1, Goes DEF At, CallerSteps
  <2>5. Consistent'
    BY <1>0, <2>1, <2>2, <2>3, <2>4 DEF IInv, Consistent, Moved, Kept
  <2> QED
    BY <2>3, <2>4, <2>5 DEF IInv, Moved
<1>11. ASSUME StopFinish(c)
     PROVE  IInv'
  <2>1. /\ At(c, "finish")
        /\ UNCHANGED <<state, driver_installed, driver_started,
                      task_owned, receive_requested, task_stopped, depth,
                      bus_errors, last_bus_errors, driver, occurred, polled,
                      task, consumer>>
    BY <1>11 DEF StopFinish
  <2>2. Current = caller[c] /\ Current.step = "finish"
    BY <1>0, <2>1, CurrentIs DEF At
  <2>3. OneTask' /\ TaskStep' = TaskStep
    BY <1>0, <2>1, SameTask
  <2>4. CASE /\ caller[c].driver_stopped /\ caller[c].task_stopped
             /\ caller[c].driver_uninstalled
             /\ available' = 0
             /\ Return(c, "kOk")
    <3>1. /\ OneCall' /\ Current' = NoCall
          /\ Unstopped' => Current.op = "start"
      BY <1>0, <2>1, <2>4, ReturnEnds DEF At
    <3>2. Consistent'
      BY <1>0, <2>1, <2>2, <2>3, <2>4, <3>1 DEF IInv, Consistent, NoCall
    <3> QED
      BY <2>3, <3>1, <3>2 DEF IInv
  <2>5. CASE /\ \/ ~caller[c].driver_stopped \/ ~caller[c].task_stopped
              \/ ~caller[c].driver_uninstalled
             /\ available' = available
             /\ Return(c, IF caller[c].task_stopped THEN "kDriverFailure"
                       ELSE "kTaskFailure")
    <3>1. /\ OneCall' /\ Current' = NoCall
          /\ Unstopped' => Current.op = "start"
      BY <1>0, <2>1, <2>5, ReturnEnds DEF At
    <3>2. Consistent'
      BY <1>0, <2>1, <2>2, <2>3, <2>5, <3>1 DEF IInv, Consistent, NoCall
    <3> QED
      BY <2>3, <3>1, <3>2 DEF IInv
  <2> QED
    BY <1>11, <2>4, <2>5 DEF StopFinish
<1>12. ASSUME Reconcile(c)
     PROVE  IInv'
  <2>1. /\ At(c, "reconcile")
        /\ caller' = [caller EXCEPT ![c].step = "store",
              ![c].verdict = Verdict]
        /\ UNCHANGED <<state, driver_installed, driver_started,
                      task_owned, receive_requested, available, task_stopped,
                      depth, bus_errors, last_bus_errors, driver, occurred,
                      polled, task, consumer>>
    BY <1>12 DEF Reconcile
  <2>2. Current = caller[c] /\ Current.step = "reconcile"
    BY <1>0, <2>1, CurrentIs DEF At
  <2>3. OneTask' /\ TaskStep' = TaskStep
    BY <1>0, <2>1, SameTask
  <2>4. /\ Moved("store", Current.result)
        /\ Current'.driver_stopped = Current.driver_stopped
        /\ Current'.task_stopped = Current.task_stopped
        /\ Current'.driver_uninstalled = Current.driver_uninstalled
        /\ Current'.verdict = Verdict
    BY <1>0, <2>1, NotesVerdict DEF At, CallerSteps
  <2>5. Consistent'
    <3>1. CallInv'
      BY <1>0, <2>1, <2>2, <2>3, <2>4 DEF IInv, Consistent, Moved, Verdict
    <3>2. FlagsInv'
      BY <1>0, <2>1, <2>2, <2>3, <2>4 DEF IInv, Consistent, Moved, Verdict
    <3>3. StartInv'
      BY <1>0, <2>1, <2>2, <2>3, <2>4 DEF IInv, Consistent, Moved, Verdict
    <3>4. CountInv'
      BY <1>0, <2>1, <2>2, <2>3, <2>4 DEF IInv, Consistent, Moved, Verdict
    <3>5. StopInv'
      BY <1>0, <2>1, <2>2, <2>3, <2>4 DEF IInv, Consistent, Moved, Verdict
    <3>6. StoppedInv'
      BY <1>0, <2>1, <2>2, <2>3, <2>4 DEF IInv, Consistent, Moved, Verdict
    <3>7. BackedInv'
      BY <1>0, <2>1, <2>2, <2>3, <2>4 DEF IInv, Consistent, Moved, Verdict
    <3>8. FaultInv'
      BY <1>0, <2>1, <2>2, <2>3, <2>4 DEF IInv, Consistent, Moved, Verdict
    <3> QED
      BY <3>1, <3>2, <3>3, <3>4, <3>5, <3>6, <3>7, <3>8 DEF Consistent
  <2> QED
    BY <2>3, <2>4, <2>5 DEF IInv, Moved
<1>13. ASSUME ReconcileStore(c)
     PROVE  IInv'
  <2>1. /\ At(c, "store")
        /\ state' = caller[c].verdict
        /\ UNCHANGED <<driver_installed, driver_started,
                      task_owned, receive_requested, available, task_stopped,
                      depth, bus_errors, last_bus_errors, driver, occurred,
                      polled, task, consumer>>
    BY <1>13 DEF ReconcileStore
  <2>2. Current = caller[c] /\ Current.step = "store"
    BY <1>0, <2>1, CurrentIs DEF At
  <2>3. OneTask' /\ TaskStep' = TaskStep
    BY <1>0, <2>1, SameTask
  <2>4. CASE /\ caller[c].op = "start"
             /\ Return(c, caller[c].result)
    <3>1. /\ OneCall' /\ Current' = NoCall
          /\ Unstopped' => Current.op = "start"
      BY <1>0, <2>1, <2>4, ReturnEnds DEF At
    <3>2. Consistent'
      BY <1>0, <2>1, <2>2, <2>3, <2>4, <3>1 DEF IInv, Consistent, NoCall
    <3> QED
      BY <2>3, <3>1, <3>2 DEF IInv
  <2>5. CASE /\ caller[c].op # "start"
             /\ Go(c, "finish")
    <3>1. Moved("finish", Current.result) /\ Kept
      BY <1>0, <2>1, <2>5, Goes DEF At, CallerSteps
    <3>2. Consistent'
      BY <1>0, <2>1, <2>2, <2>3, <2>5, <3>1 DEF IInv, Consistent, Moved, Kept
    <3> QED
      BY <2>3, <3>1, <3>2 DEF IInv, Moved
  <2> QED
    BY <1>13, <2>4, <2>5 DEF ReconcileStore
<1> QED
  BY <1>1, <1>2, <1>3, <1>4, <1>5, <1>6, <1>7, <1>8, <1>9, <1>10, <1>11,
     <1>12, <1>13
     DEF Stop, Reconciles

\* those of the receive task,
LEMMA TaskPreserves ==
  ASSUME IInv, TypeOK', NEW t \in Tasks, ReceiveTask(t)
  PROVE  IInv'
<1> USE DEF ConsumerAt, CallInv, FlagsInv, StartInv, CountInv, StopInv,
            StoppedInv, BackedInv, FaultInv, InStep, Alive, Fresh, Installing,
            Installed, Started, Prepared, Asking, Waiting, Releasing, Settling,
            StopCalled, StartSteps, StopSteps, LifecycleStates, lifecycle,
            flags, semaphores, counting, ring, queue, others
<1>0. /\ TypeOK /\ OneCall /\ OneTask /\ Current \in CallRecord
      /\ available \in Nat /\ depth \in Nat /\ occurred \in Nat
      /\ polled \in Nat /\ CounterModulus \in Nat \ {0, 1}
      /\ state \in LifecycleStates
      /\ driver \in {"absent", "stopped", "running"}
      /\ Current.op \in {"none", "start", "stop"}
  BY DataTypes, CurrentType DEF IInv, CallRecord
<1>1. ASSUME TaskLoop(t)
     PROVE  IInv'
  <2>1. /\ TaskAt(t, "loop")
        /\ UNCHANGED <<state, driver_installed, driver_started,
                      task_owned, receive_requested, available, task_stopped,
                      depth, bus_errors, last_bus_errors, driver, occurred,
                      polled, caller, consumer>>
    BY <1>1 DEF TaskLoop
  <2>2. OneCall' /\ Current' = Current /\ Unstopped' = Unstopped
    BY <1>0, <2>1, SameCall
  <2>3. CASE TaskGoes(t, "receive")
    <3>1. OneTask' /\ TaskStep = "loop" /\ TaskStep' = "receive"
      BY <1>0, <2>1, <2>3, TaskGoesOn
    <3>2. Consistent'
      BY <1>0, <2>1, <2>2, <2>3, <3>1 DEF IInv, Consistent
    <3> QED
      BY <2>2, <3>1, <3>2 DEF IInv
  <2>4. CASE TaskGoes(t, "acknowledge")
    <3>1. OneTask' /\ TaskStep = "loop" /\ TaskStep' = "acknowledge"
      BY <1>0, <2>1, <2>4, TaskGoesOn
    <3>2. Consistent'
      BY <1>0, <2>1, <2>2, <2>4, <3>1 DEF IInv, Consistent
    <3> QED
      BY <2>2, <3>1, <3>2 DEF IInv
  <2> QED
    BY <1>1, <2>3, <2>4 DEF TaskLoop
<1>2. ASSUME TaskReceive(t)
     PROVE  IInv'
  <2>1. /\ TaskAt(t, "receive")
        /\ UNCHANGED <<state, driver_installed, driver_started,
                      task_owned, receive_requested, available, task_stopped,
                      depth, bus_errors, last_bus_errors, driver, occurred,
                      polled, caller, consumer>>
    BY <1>2 DEF TaskReceive
  <2>2. OneCall' /\ Current' = Current /\ Unstopped' = Unstopped
    BY <1>0, <2>1, SameCall
  <2>3. CASE TaskGoes(t, "push")
    <3>1. OneTask' /\ TaskStep = "receive" /\ TaskStep' = "push"
      BY <1>0, <2>1, <2>3, TaskGoesOn
    <3>2. Consistent'
      BY <1>0, <2>1, <2>2, <2>3, <3>1 DEF IInv, Consistent
    <3> QED
      BY <2>2, <3>1, <3>2 DEF IInv
  <2>4. CASE TaskGoes(t, "status")
    <3>1. OneTask' /\ TaskStep = "receive" /\ TaskStep' = "status"
      BY <1>0, <2>1, <2>4, TaskGoesOn
    <3>2. Consistent'
      BY <1>0, <2>1, <2>2, <2>4, <3>1 DEF IInv, Consistent
    <3> QED
      BY <2>2, <3>1, <3>2 DEF IInv
  <2>5. CASE TaskGoes(t, "latch")
    <3>1. OneTask' /\ TaskStep = "receive" /\ TaskStep' = "latch"
      BY <1>0, <2>1, <2>5, TaskGoesOn
    <3>2. Consistent'
      BY <1>0, <2>1, <2>2, <2>5, <3>1 DEF IInv, Consistent
    <3> QED
      BY <2>2, <3>1, <3>2 DEF IInv
  <2> QED
    BY <1>2, <2>3, <2>4, <2>5 DEF TaskReceive
<1>3. ASSUME TaskPush(t)
     PROVE  IInv'
  <2>1. /\ TaskAt(t, "push")
        /\ UNCHANGED <<state, driver_installed, driver_started,
                      task_owned, receive_requested, available, task_stopped,
                      bus_errors, last_bus_errors, driver, occurred, polled,
                      caller, consumer>>
    BY <1>3 DEF TaskPush
  <2>2. OneCall' /\ Current' = Current /\ Unstopped' = Unstopped
    BY <1>0, <2>1, SameCall
  <2>3. CASE /\ depth' = depth + 1
             /\ TaskGoes(t, "give")
    <3>1. OneTask' /\ TaskStep = "push" /\ TaskStep' = "give"
      BY <1>0, <2>1, <2>3, TaskGoesOn
    <3>2. Consistent'
      BY <1>0, <2>1, <2>2, <2>3, <3>1 DEF IInv, Consistent
    <3> QED
      BY <2>2, <3>1, <3>2 DEF IInv
  <2>4. CASE /\ depth' = depth
             /\ TaskGoes(t, "status")
    <3>1. OneTask' /\ TaskStep = "push" /\ TaskStep' = "status"
      BY <1>0, <2>1, <2>4, TaskGoesOn
    <3>2. Consistent'
      BY <1>0, <2>1, <2>2, <2>4, <3>1 DEF IInv, Consistent
    <3> QED
      BY <2>2, <3>1, <3>2 DEF IInv
  <2> QED
    BY <1>3, <2>3, <2>4 DEF TaskPush
<1>4. ASSUME TaskGive(t)
     PROVE  IInv'
  <2>1. /\ TaskAt(t, "give")
        /\ available' = IF available < Capacity THEN available + 1
                     ELSE available
        /\ TaskGoes(t, "status")
        /\ UNCHANGED <<state, driver_installed, driver_started,
                      task_owned, receive_requested, task_stopped, depth,
                      bus_errors, last_bus_errors, driver, occurred, polled,
                      caller, consumer>>
    BY <1>4 DEF TaskGive, GiveAvailable
  <2>2. OneCall' /\ Current' = Current /\ Unstopped' = Unstopped
    BY <1>0, <2>1, SameCall
  <2>3. OneTask' /\ TaskStep = "give" /\ TaskStep' = "status"
    BY <1>0, <2>1, TaskGoesOn
  <2>4. Consistent'
    BY <1>0, <2>1, <2>2, <2>3 DEF IInv, Consistent
  <2> QED
    BY <2>2, <2>3, <2>4 DEF IInv
<1>5. ASSUME TaskStatus(t)
     PROVE  IInv'
  <2>1. /\ TaskAt(t, "status")
        /\ UNCHANGED <<state, driver_installed, driver_started,
                       task_owned, receive_requested, available,
                       task_stopped, depth, driver, occurred, caller,
                       consumer>>
    BY <1>5 DEF TaskStatus
  <2>2. OneCall' /\ Current' = Current /\ Unstopped' = Unstopped
    BY <1>0, <2>1, SameCall
  <2>3. CASE /\ bus_errors' = bus_errors
                                + CounterDelta(DriverCounter, last_bus_errors)
             /\ last_bus_errors' = DriverCounter
             /\ polled' = occurred
             /\ TaskGoes(t, "alerts")
    <3>1. OneTask' /\ TaskStep = "status" /\ TaskStep' = "alerts"
      BY <1>0, <2>1, <2>3, TaskGoesOn
    <3>2. /\ bus_errors = polled /\ last_bus_errors = polled % CounterModulus
          /\ occurred - polled < CounterModulus /\ polled <= occurred
      BY <3>1, DataTypes DEF IInv, Consistent
    <3>3. CounterDelta(DriverCounter, last_bus_errors) = occurred - polled
      BY <1>0, <3>2, DeltaIsDifference DEF CounterDelta, DriverCounter
    <3>4. /\ bus_errors' = polled' /\ polled' \in Nat
          /\ last_bus_errors' = polled' % CounterModulus
      BY <1>0, <2>3, <3>2, <3>3 DEF DriverCounter
    <3>5. occurred' - polled' < CounterModulus
      BY <1>0, <2>1, <2>3
    <3>6. Consistent'
      BY <1>0, <2>1, <2>2, <3>1, <3>4, <3>5 DEF IInv, Consistent
    <3> QED
      BY <2>2, <3>1, <3>6 DEF IInv
  <2>4. CASE /\ UNCHANGED <<bus_errors, last_bus_errors, polled>>
             /\ TaskGoes(t, "latch")
    <3>1. OneTask' /\ TaskStep = "status" /\ TaskStep' = "latch"
      BY <1>0, <2>1, <2>4, TaskGoesOn
    <3>2. Consistent'
      BY <1>0, <2>1, <2>2, <2>4, <3>1 DEF IInv, Consistent
    <3> QED
      BY <2>2, <3>1, <3>2 DEF IInv
  <2> QED
    BY <1>5, <2>3, <2>4 DEF TaskStatus
<1>6. ASSUME TaskAlerts(t)
     PROVE  IInv'
  <2>1. /\ TaskAt(t, "alerts")
        /\ UNCHANGED <<state, driver_installed, driver_started,
                      task_owned, receive_requested, available, task_stopped,
                      depth, bus_errors, last_bus_errors, driver, occurred,
                      polled, caller, consumer>>
    BY <1>6 DEF TaskAlerts
  <2>2. OneCall' /\ Current' = Current /\ Unstopped' = Unstopped
    BY <1>0, <2>1, SameCall
  <2>3. CASE TaskGoes(t, "loop")
    <3>1. OneTask' /\ TaskStep = "alerts" /\ TaskStep' = "loop"
      BY <1>0, <2>1, <2>3, TaskGoesOn
    <3>2. Consistent'
      BY <1>0, <2>1, <2>2, <2>3, <3>1 DEF IInv, Consistent
    <3> QED
      BY <2>2, <3>1, <3>2 DEF IInv
  <2>4. CASE TaskGoes(t, "latch")
    <3>1. OneTask' /\ TaskStep = "alerts" /\ TaskStep' = "latch"
      BY <1>0, <2>1, <2>4, TaskGoesOn
    <3>2. Consistent'
      BY <1>0, <2>1, <2>2, <2>4, <3>1 DEF IInv, Consistent
    <3> QED
      BY <2>2, <3>1, <3>2 DEF IInv
  <2> QED
    BY <1>6, <2>3, <2>4 DEF TaskAlerts
<1>7. ASSUME TaskLatch(t)
     PROVE  IInv'
  <2>1. /\ TaskAt(t, "latch")
        /\ TaskGoes(t, "latch_state")
        /\ UNCHANGED <<state, driver_installed, driver_started,
                      task_owned, available, task_stopped, depth, bus_errors,
                      last_bus_errors, driver, occurred, polled, caller,
                      consumer>>
    BY <1>7 DEF TaskLatch
  <2>2. OneCall' /\ Current' = Current /\ Unstopped' = Unstopped
    BY <1>0, <2>1, SameCall
  <2>3. OneTask' /\ TaskStep = "latch" /\ TaskStep' = "latch_state"
    BY <1>0, <2>1, TaskGoesOn
  <2>4. Consistent'
    BY <1>0, <2>1, <2>2, <2>3 DEF IInv, Consistent
  <2> QED
    BY <2>2, <2>3, <2>4 DEF IInv
<1>8. ASSUME TaskLatchState(t)
     PROVE  IInv'
  <2>1. /\ TaskAt(t, "latch_state")
        /\ UNCHANGED <<driver_installed, driver_started,
                      task_owned, receive_requested, available, task_stopped,
                      depth, bus_errors, last_bus_errors, driver, occurred,
                      polled, caller, consumer>>
    BY <1>8 DEF TaskLatchState
  <2>2. OneCall' /\ Current' = Current /\ Unstopped' = Unstopped
    BY <1>0, <2>1, SameCall
  <2>3. CASE /\ state \in {"Faulted", "Stopped"} /\ state' = state
             /\ TaskGoes(t, "acknowledge")
    <3>1. OneTask' /\ TaskStep = "latch_state" /\ TaskStep' = "acknowledge"
      BY <1>0, <2>1, <2>3, TaskGoesOn
    <3>2. Consistent'
      BY <1>0, <2>1, <2>2, <2>3, <3>1 DEF IInv, Consistent
    <3> QED
      BY <2>2, <3>1, <3>2 DEF IInv
  <2>4. CASE /\ state \notin {"Faulted", "Stopped"} /\ state' = "Faulted"
             /\ TaskGoes(t, "wake")
    <3>1. OneTask' /\ TaskStep = "latch_state" /\ TaskStep' = "wake"
      BY <1>0, <2>1, <2>4, TaskGoesOn
    <3>2. Consistent'
      BY <1>0, <2>1, <2>2, <2>4, <3>1 DEF IInv, Consistent
    <3> QED
      BY <2>2, <3>1, <3>2 DEF IInv
  <2> QED
    BY <1>8, <2>3, <2>4 DEF TaskLatchState
<1>9. ASSUME TaskWake(t)
     PROVE  IInv'
  <2>1. /\ TaskAt(t, "wake")
        /\ available' = IF available < Capacity THEN available + 1
                     ELSE available
        /\ TaskGoes(t, "acknowledge")
        /\ UNCHANGED <<state, driver_installed, driver_started,
                      task_owned, receive_requested, task_stopped, depth,
                      bus_errors, last_bus_errors, driver, occurred, polled,
                      caller, consumer>>
    BY <1>9 DEF TaskWake, GiveAvailable
  <2>2. OneCall' /\ Current' = Current /\ Unstopped' = Unstopped
    BY <1>0, <2>1, SameCall
  <2>5. Capacity \in Nat \ {0}
    BY CapacityAssumption
  <2>3. OneTask' /\ TaskStep = "wake" /\ TaskStep' = "acknowledge"
    BY <1>0, <2>1, TaskGoesOn
  <2>4. Consistent'
    BY <1>0, <2>1, <2>2, <2>3, <2>5 DEF IInv, Consistent
  <2> QED
    BY <2>2, <2>3, <2>4 DEF IInv
<1>10. ASSUME TaskAcknowledge(t)
     PROVE  IInv'
  <2>1. /\ TaskAt(t, "acknowledge")
        /\ ~task_owned'
        /\ TaskGoes(t, "exit")
        /\ UNCHANGED <<state, driver_installed, driver_started,
                      receive_requested, available, task_stopped, depth,
                      bus_errors, last_bus_errors, driver, occurred, polled,
                      caller, consumer>>
    BY <1>10 DEF TaskAcknowledge
  <2>2. OneCall' /\ Current' = Current /\ Unstopped' = Unstopped
    BY <1>0, <2>1, SameCall
  <2>3. OneTask' /\ TaskStep = "acknowledge" /\ TaskStep' = "exit"
    BY <1>0, <2>1, TaskGoesOn
  <2>4. Consistent'
    BY <1>0, <2>1, <2>2, <2>3 DEF IInv, Consistent
  <2> QED
    BY <2>2, <2>3, <2>4 DEF IInv
<1>11. ASSUME TaskExit(t)
     PROVE  IInv'
  <2>1. /\ TaskAt(t, "exit")
        /\ TaskGoes(t, "none")
        /\ UNCHANGED <<state, driver_installed, driver_started,
                      task_owned, receive_requested, available, depth,
                      bus_errors, last_bus_errors, driver, occurred, polled,
                      caller, consumer>>
    BY <1>11 DEF TaskExit
  <2>2. OneCall' /\ Current' = Current /\ Unstopped' = Unstopped
    BY <1>0, <2>1, SameCall
  <2>3. OneTask' /\ TaskStep = "exit" /\ TaskStep' = "none"
    BY <1>0, <2>1, TaskGoesOn
  <2>4. Consistent'
    BY <1>0, <2>1, <2>2, <2>3 DEF IInv, Consistent
  <2> QED
    BY <2>2, <2>3, <2>4 DEF IInv
<1> QED
  BY <1>1, <1>2, <1>3, <1>4, <1>5, <1>6, <1>7, <1>8, <1>9, <1>10, <1>11
     DEF ReceiveTask

\* and those of the consumer and of the driver.
LEMMA ReceivePreserves ==
  ASSUME IInv, TypeOK', ReceiveCall \/ Receive \/ DriverEvent
  PROVE  IInv'
<1> USE DEF ConsumerAt, CallInv, FlagsInv, StartInv, CountInv, StopInv,
            StoppedInv, BackedInv, FaultInv, InStep, Alive, Fresh, Installing,
            Installed, Started, Prepared, Asking, Waiting, Releasing, Settling,
            StopCalled, StartSteps, StopSteps, LifecycleStates, lifecycle,
            flags, semaphores, counting, ring, queue, others
<1>0. /\ TypeOK /\ OneCall /\ OneTask /\ Current \in CallRecord
      /\ available \in Nat /\ depth \in Nat /\ occurred \in Nat
      /\ polled \in Nat /\ CounterModulus \in Nat \ {0, 1}
      /\ state \in LifecycleStates
      /\ driver \in {"absent", "stopped", "running"}
      /\ Current.op \in {"none", "start", "stop"}
  BY DataTypes, CurrentType DEF IInv, CallRecord
<1>1. ASSUME ReceiveCall
     PROVE  IInv'
  <2>1. /\ ConsumerAt("idle")
        /\ consumer'.step = "check"
        /\ UNCHANGED <<state, driver_installed, driver_started,
                      task_owned, receive_requested, available, task_stopped,
                      depth, bus_errors, last_bus_errors, driver, occurred,
                      polled, task, caller>>
    BY <1>1 DEF ReceiveCall, ConsumerGoes, Receives
  <2>2. OneCall' /\ Current' = Current /\ Unstopped' = Unstopped
    BY <1>0, <2>1, SameCall
  <2>3. OneTask' /\ TaskStep' = TaskStep
    BY <1>0, <2>1, SameTask
  <2>5. Current.op # "start"
    <3>1. CASE Quiet
      BY <3>1, NoneCurrent DEF NoCall
    <3>2. CASE ~Quiet
      BY <1>0, <1>1, <3>2, CurrentIs DEF Quiet, ReceiveCall, Starting
    <3> QED
      BY <3>1, <3>2
  <2>4. Consistent'
    BY <1>0, <2>1, <2>2, <2>3, <2>5 DEF IInv, Consistent
  <2> QED
    BY <2>2, <2>3, <2>4 DEF IInv
<1>2. ASSUME ReceiveCheck
     PROVE  IInv'
  <2>1. /\ ConsumerAt("check")
        /\ UNCHANGED <<state, driver_installed, driver_started,
                      task_owned, receive_requested, available, task_stopped,
                      depth, bus_errors, last_bus_errors, driver, occurred,
                      polled, task, caller>>
    BY <1>2 DEF ReceiveCheck, ConsumerGoes, Receives
  <2>2. OneCall' /\ Current' = Current /\ Unstopped' = Unstopped
    BY <1>0, <2>1, SameCall
  <2>3. OneTask' /\ TaskStep' = TaskStep
    BY <1>0, <2>1, SameTask
  <2>4. CASE /\ state = "Running"
             /\ consumer'.step = "wait"
    <3>1. Consistent'
      BY <1>0, <2>1, <2>2, <2>3, <2>4 DEF IInv, Consistent
    <3> QED
      BY <2>2, <2>3, <3>1 DEF IInv
  <2>5. CASE consumer'.step = "idle"
    <3>1. Consistent'
      BY <1>0, <2>1, <2>2, <2>3, <2>5 DEF IInv, Consistent
    <3> QED
      BY <2>2, <2>3, <3>1 DEF IInv
  <2> QED
    BY <1>2, <2>4, <2>5 DEF ReceiveCheck, ConsumerGoes, Receives
<1>3. ASSUME ReceiveToken
     PROVE  IInv'
  <2>1. /\ ConsumerAt("wait")
        /\ available > 0 /\ available' = available - 1
        /\ consumer'.step = "recheck"
        /\ UNCHANGED <<state, driver_installed, driver_started,
                      task_owned, receive_requested, task_stopped, depth,
                      bus_errors, last_bus_errors, driver, occurred, polled,
                      task, caller>>
    BY <1>3 DEF ReceiveToken, ConsumerGoes, Receives
  <2>2. OneCall' /\ Current' = Current /\ Unstopped' = Unstopped
    BY <1>0, <2>1, SameCall
  <2>3. OneTask' /\ TaskStep' = TaskStep
    BY <1>0, <2>1, SameTask
  <2>4. Consistent'
    BY <1>0, <2>1, <2>2, <2>3 DEF IInv, Consistent
  <2> QED
    BY <2>2, <2>3, <2>4 DEF IInv
<1>4. ASSUME ReceiveTimeout
     PROVE  IInv'
  <2>1. /\ ConsumerAt("wait")
        /\ consumer'.step = "timed_out"
        /\ UNCHANGED <<state, driver_installed, driver_started,
                      task_owned, receive_requested, available, task_stopped,
                      depth, bus_errors, last_bus_errors, driver, occurred,
                      polled, task, caller>>
    BY <1>4 DEF ReceiveTimeout, ConsumerGoes, Receives
  <2>2. OneCall' /\ Current' = Current /\ Unstopped' = Unstopped
    BY <1>0, <2>1, SameCall
  <2>3. OneTask' /\ TaskStep' = TaskStep
    BY <1>0, <2>1, SameTask
  <2>4. Consistent'
    BY <1>0, <2>1, <2>2, <2>3 DEF IInv, Consistent
  <2> QED
    BY <2>2, <2>3, <2>4 DEF IInv
<1>5. ASSUME ReceiveTimedOut
     PROVE  IInv'
  <2>1. /\ ConsumerAt("timed_out")
        /\ consumer'.step = "idle"
        /\ UNCHANGED <<state, driver_installed, driver_started,
                      task_owned, receive_requested, available, task_stopped,
                      depth, bus_errors, last_bus_errors, driver, occurred,
                      polled, task, caller>>
    BY <1>5 DEF ReceiveTimedOut, ConsumerGoes, Receives
  <2>2. OneCall' /\ Current' = Current /\ Unstopped' = Unstopped
    BY <1>0, <2>1, SameCall
  <2>3. OneTask' /\ TaskStep' = TaskStep
    BY <1>0, <2>1, SameTask
  <2>4. Consistent'
    BY <1>0, <2>1, <2>2, <2>3 DEF IInv, Consistent
  <2> QED
    BY <2>2, <2>3, <2>4 DEF IInv
<1>6. ASSUME ReceiveRecheck
     PROVE  IInv'
  <2>1. /\ ConsumerAt("recheck")
        /\ UNCHANGED <<state, driver_installed, driver_started,
                      task_owned, receive_requested, available, task_stopped,
                      depth, bus_errors, last_bus_errors, driver, occurred,
                      polled, task, caller>>
    BY <1>6 DEF ReceiveRecheck, ConsumerGoes, Receives
  <2>2. OneCall' /\ Current' = Current /\ Unstopped' = Unstopped
    BY <1>0, <2>1, SameCall
  <2>3. OneTask' /\ TaskStep' = TaskStep
    BY <1>0, <2>1, SameTask
  <2>4. CASE /\ state = "Running"
             /\ consumer'.step = "pop"
    <3>1. Consistent'
      BY <1>0, <2>1, <2>2, <2>3, <2>4 DEF IInv, Consistent
    <3> QED
      BY <2>2, <2>3, <3>1 DEF IInv
  <2>5. CASE consumer'.step = "idle"
    <3>1. Consistent'
      BY <1>0, <2>1, <2>2, <2>3, <2>5 DEF IInv, Consistent
    <3> QED
      BY <2>2, <2>3, <3>1 DEF IInv
  <2> QED
    BY <1>6, <2>4, <2>5 DEF ReceiveRecheck, ConsumerGoes, Receives
<1>7. ASSUME ReceivePop
     PROVE  IInv'
  <2>1. /\ ConsumerAt("pop")
        /\ UNCHANGED <<state, driver_installed, driver_started,
                      task_owned, receive_requested, available, task_stopped,
                      bus_errors, last_bus_errors, driver, occurred, polled,
                      task, caller>>
    BY <1>7 DEF ReceivePop, ConsumerGoes, Receives
  <2>2. OneCall' /\ Current' = Current /\ Unstopped' = Unstopped
    BY <1>0, <2>1, SameCall
  <2>3. OneTask' /\ TaskStep' = TaskStep
    BY <1>0, <2>1, SameTask
  <2>4. CASE /\ depth > 0 /\ depth' = depth - 1
             /\ consumer'.step = "idle"
    <3>1. Consistent'
      BY <1>0, <2>1, <2>2, <2>3, <2>4 DEF IInv, Consistent
    <3> QED
      BY <2>2, <2>3, <3>1 DEF IInv
  <2>5. CASE /\ depth' = depth
             /\ consumer'.step = "idle"
    <3>1. Consistent'
      BY <1>0, <2>1, <2>2, <2>3, <2>5 DEF IInv, Consistent
    <3> QED
      BY <2>2, <2>3, <3>1 DEF IInv
  <2> QED
    BY <1>7, <2>4, <2>5 DEF ReceivePop, ConsumerGoes, Receives
<1>8. ASSUME DriverEvent
     PROVE  IInv'
  <2>1. /\ driver = "running"
        /\ occurred - polled < CounterModulus - 1
        /\ occurred' = occurred + 1
        /\ UNCHANGED <<state, driver_installed, driver_started,
                      task_owned, receive_requested, available, task_stopped,
                      depth, bus_errors, last_bus_errors, driver, polled,
                      task, caller, consumer>>
    BY <1>8 DEF DriverEvent
  <2>2. OneCall' /\ Current' = Current /\ Unstopped' = Unstopped
    BY <1>0, <2>1, SameCall
  <2>3. OneTask' /\ TaskStep' = TaskStep
    BY <1>0, <2>1, SameTask
  <2>4. Consistent'
    BY <1>0, <2>1, <2>2, <2>3 DEF IInv, Consistent
  <2> QED
    BY <2>2, <2>3, <2>4 DEF IInv
<1> QED
  BY <1>1, <1>2, <1>3, <1>4, <1>5, <1>6, <1>7, <1>8 DEF Receive

\* The calls begin where no call is in progress.
LEMMA CallsPreserve ==
  ASSUME IInv, TypeOK', NEW c \in Callers,
         StartCall(c) \/ StartInvalid(c) \/ StopCall(c)
  PROVE  IInv'
<1> USE DEF ConsumerAt, CallInv, FlagsInv, StartInv, CountInv, StopInv,
            StoppedInv, BackedInv, FaultInv, InStep, Alive, Fresh,
            Installing, Installed, Started, Prepared, Asking, Waiting,
            Releasing, Settling, StopCalled, StartSteps, StopSteps,
            LifecycleStates, lifecycle, flags, semaphores, counting, ring,
            queue, others
<1>0. /\ TypeOK /\ OneCall /\ OneTask
      /\ available \in Nat /\ depth \in Nat /\ occurred \in Nat
      /\ polled \in Nat /\ CounterModulus \in Nat \ {0, 1}
      /\ state \in LifecycleStates
      /\ driver \in {"absent", "stopped", "running"}
  BY DataTypes DEF IInv
<1>1. Quiet /\ Current = NoCall
  BY NoneCurrent DEF IInv, Scheduled, StartCall, StartInvalid, StopCall,
     MayCall, Quiet
<1>2. /\ OneTask' /\ TaskStep' = TaskStep
      /\ UNCHANGED <<state, driver_installed, driver_started, task_owned,
                     receive_requested, available, task_stopped, depth,
                     bus_errors, last_bus_errors, driver, occurred, polled,
                     consumer>>
  BY <1>0, SameTask DEF StartCall, StartInvalid, StopCall
<1>3. CASE StartCall(c)
  <2>1. Begun("start", "begin_start")
    BY <1>0, <1>1, <1>3, Calls DEF StartCall, CallerSteps
  <2>2. consumer.step = "idle"
    BY <1>3 DEF StartCall
  <2>3. Consistent'
    BY <1>0, <1>1, <1>2, <2>1, <2>2 DEF IInv, Consistent, Begun, NoCall
  <2> QED
    BY <1>2, <2>1, <2>3 DEF IInv, Begun
<1>4. CASE StopCall(c)
  <2>1. Begun("stop", "begin_stop")
    BY <1>0, <1>1, <1>4, Calls DEF StopCall, CallerSteps
  <2>2. Consistent'
    BY <1>0, <1>1, <1>2, <2>1 DEF IInv, Consistent, Begun, NoCall
  <2> QED
    BY <1>2, <2>1, <2>2 DEF IInv, Begun
<1>5. CASE StartInvalid(c)
  <2> DEFINE k == [NoCall EXCEPT !.op = "start",
                                 !.result = "kInvalidConfiguration"]
  <2>1. /\ caller' = [caller EXCEPT ![c] = k] /\ k.step = "idle"
        /\ consumer.step = "idle"
    BY <1>5 DEF StartInvalid, NoCall
  <2>2. \A d \in Callers : d # c => At(d, "idle")
    BY <1>1 DEF Quiet
  <2> HIDE DEF k
  <2>3. OneCall' /\ Current' = NoCall
    BY <1>0, <2>1, <2>2, Moves
  <2>4. Consistent'
    BY <1>0, <1>1, <1>2, <2>1, <2>3 DEF IInv, Consistent, NoCall
  <2> QED
    BY <1>2, <2>3, <2>4 DEF IInv
<1> QED
  BY <1>3, <1>4, <1>5

\* A step that changes nothing changes no part of the invariant.
LEMMA StutterPreserves ==
  ASSUME IInv, UNCHANGED vars
  PROVE  IInv' /\ TypeOK'
<1> USE DEF vars, lifecycle, flags, semaphores, counting, ring, queue, others
<1>1. OneCall' /\ Current' = Current /\ Unstopped' = Unstopped
  BY SameCall DEF IInv
<1>2. OneTask' /\ TaskStep' = TaskStep
  BY SameTask DEF IInv
<1>3. TypeOK'
  BY DEF IInv, TypeOK
<1>4. Consistent'
  BY <1>1, <1>2
     DEF IInv, Consistent, ConsumerAt, CallInv, FlagsInv, StartInv,
         CountInv, StopInv, StoppedInv, BackedInv, FaultInv, InStep, Alive,
         Fresh, StopCalled
<1> QED
  BY <1>1, <1>2, <1>3, <1>4 DEF IInv

-----------------------------------------------------------------------------
\* Before the first call nothing is held and nobody is at work.
LEMMA InitTypes == Init => TypeOK
<1> SUFFICES ASSUME Init
             PROVE  TypeOK
  OBVIOUS
<1>1. caller \in [Callers -> CallRecord]
  BY NoCallType DEF Init
<1>2. consumer \in ConsumerRecord /\ task \in [Tasks -> TaskSteps]
  BY DEF Init, ConsumerRecord, ConsumerSteps, TaskSteps
<1>3. /\ driver_installed \in BOOLEAN /\ driver_started \in BOOLEAN
      /\ task_owned \in BOOLEAN /\ receive_requested \in BOOLEAN
      /\ task_stopped \in BOOLEAN
  BY DEF Init
<1>4. /\ available \in 0 .. Capacity /\ depth \in 0 .. Capacity
      /\ bus_errors \in Nat /\ last_bus_errors \in 0 .. CounterModulus - 1
      /\ occurred \in 0 .. MaxEvents /\ polled \in 0 .. occurred
  BY CapacityAssumption, CounterAssumption DEF Init
<1> QED
  BY <1>1, <1>2, <1>3, <1>4
     DEF Init, TypeOK, CallRecord, ConsumerRecord, LifecycleStates

\* The invariant holds then.
LEMMA InitEstablishes == Scheduled /\ Init => IInv
<1> SUFFICES ASSUME Scheduled, Init
             PROVE  IInv
  OBVIOUS
<1>1. OneCall /\ Quiet
  BY DEF Init, OneCall, Quiet, At, NoCall
<1>2. OneTask /\ TaskStep = "none"
  BY DEF Init, OneTask, TaskStep, TaskStepIn
<1>3. Current = NoCall
  BY <1>1, NoneCurrent
<1>4. 0 % CounterModulus = 0 /\ CounterModulus \in Nat \ {0, 1}
  BY CounterAssumption
<1>5. /\ state = "Stopped" /\ ~driver_installed /\ ~driver_started
      /\ ~task_owned /\ available = 0 /\ ~task_stopped /\ depth = 0
      /\ bus_errors = 0 /\ last_bus_errors = 0 /\ occurred = 0 /\ polled = 0
      /\ driver = "absent" /\ consumer.step = "idle"
  BY DEF Init
<1>6. Consistent
  BY <1>2, <1>3, <1>4, <1>5
     DEF Consistent, NoCall, ConsumerAt, CallInv, FlagsInv, StartInv,
         CountInv, StopInv, StoppedInv, BackedInv, FaultInv, InStep, Alive,
         Fresh, Installing, Installed, Started, Prepared, Asking, Waiting,
         Releasing, Settling, StopCalled, StartSteps, StopSteps
<1> QED
  BY <1>1, <1>2, <1>6, InitTypes DEF IInv

\* No step breaks a type,
LEMMA StepTypes == TypeOK /\ [Next]_vars => TypeOK'
<1> SUFFICES ASSUME TypeOK, [Next]_vars
             PROVE  TypeOK'
  OBVIOUS
<1>1. ASSUME NEW c \in Callers, StartCall(c) \/ StartInvalid(c) \/ StopCall(c)
      PROVE  TypeOK'
  BY <1>1, CallsTypes
<1>2. ASSUME NEW c \in Callers, CallerStep(c)
      PROVE  TypeOK'
  BY <1>2, StartTypes, StopTypes DEF CallerStep
<1>3. ASSUME NEW t \in Tasks, ReceiveTask(t)
      PROVE  TypeOK'
  BY <1>3, TaskTypes
<1>4. CASE ReceiveCall \/ Receive \/ DriverEvent
  BY <1>4, ReceiveTypes
<1>5. CASE UNCHANGED vars
  BY <1>5 DEF vars, lifecycle, flags, semaphores, counting, ring, queue,
     others, TypeOK
<1> QED
  BY <1>1, <1>2, <1>3, <1>4, <1>5 DEF Next

\* and none breaks the invariant.
LEMMA StepPreserves == IInv /\ [Next]_vars => IInv'
<1> SUFFICES ASSUME IInv, [Next]_vars
             PROVE  IInv'
  OBVIOUS
<1>0. TypeOK'
  BY StepTypes DEF IInv
<1>1. ASSUME NEW c \in Callers, StartCall(c) \/ StartInvalid(c) \/ StopCall(c)
      PROVE  IInv'
  BY <1>0, <1>1, CallsPreserve
<1>2. ASSUME NEW c \in Callers, CallerStep(c)
      PROVE  IInv'
  BY <1>0, <1>2, StartPreserves, StopPreserves DEF CallerStep
<1>3. ASSUME NEW t \in Tasks, ReceiveTask(t)
      PROVE  IInv'
  BY <1>0, <1>3, TaskPreserves
<1>4. CASE ReceiveCall \/ Receive \/ DriverEvent
  BY <1>0, <1>4, ReceivePreserves
<1>5. CASE UNCHANGED vars
  BY <1>5, StutterPreserves
<1> QED
  BY <1>1, <1>2, <1>3, <1>4, <1>5 DEF Next

\* The inductive invariant holds throughout.
THEOREM Invariance == Scheduled /\ Spec => []IInv
  BY InitEstablishes, StepPreserves, PTL DEF Spec

-----------------------------------------------------------------------------
\* The variables keep their types, however the calls of the callers overlap.
THEOREM TypeCorrect == Spec => []TypeOK
  BY InitTypes, StepTypes, PTL DEF Spec

\* No driver is installed over another, and no task created beside another.
THEOREM OneOwner == Scheduled /\ Spec => []NoSecondOwner
<1>1. IInv => NoSecondOwner
  <2> SUFFICES ASSUME IInv
               PROVE  NoSecondOwner
    OBVIOUS
  <2>1. OneCall /\ OneTask
    BY DEF IInv
  <2>2. ASSUME NEW c \in Callers, At(c, "install")
        PROVE  driver = "absent"
    BY <2>1, <2>2, CurrentIs
       DEF At, IInv, Consistent, StartInv, InStep, Installing
  <2>3. ASSUME NEW c \in Callers, caller[c].op = "start",
               caller[c].step \in StartSteps \ {"begin_start", "refused"}
        PROVE  \A t \in Tasks : ~Live(t)
    <3>1. Current = caller[c]
      BY <2>1, <2>3, CurrentIs DEF At, StartSteps
    <3>2. ~Alive
      BY <2>3, <3>1
         DEF IInv, Consistent, StartInv, Fresh, InStep, StartSteps,
             Installing, Installed, Started, Alive
    <3> QED
      BY <2>1, <3>2, LiveIsAlive
  <2>4. \A t, u \in Tasks : Live(t) /\ Live(u) => t = u
    BY <2>1 DEF OneTask, Live
  <2> QED
    BY <2>2, <2>3, <2>4 DEF NoSecondOwner
<1> QED
  BY <1>1, Invariance, PTL

\* The driver stays until the receive task has acknowledged.
THEOREM TasksHaveTheirDriver == Scheduled /\ Spec => []DriverOutlivesTask
<1>1. IInv => DriverOutlivesTask
  BY LiveIsAlive DEF IInv, Consistent, FlagsInv, DriverOutlivesTask
<1> QED
  BY <1>1, Invariance, PTL

\* Between calls a Stopped controller holds nothing.
THEOREM StoppedIsReleased ==
  Scheduled /\ Spec => []RestartableOnlyWhenReleased
<1>1. IInv => RestartableOnlyWhenReleased
  <2> SUFFICES ASSUME IInv, Quiet, state = "Stopped"
               PROVE  /\ driver = "absent" /\ \A t \in Tasks : ~Live(t)
                      /\ available = 0
    BY DEF RestartableOnlyWhenReleased
  <2>1. Current.step = "idle"
    BY NoneCurrent DEF NoCall
  <2>2. ~Alive
    BY DEF IInv, Consistent, StoppedInv, Alive
  <2> QED
    BY <2>1, <2>2, LiveIsAlive
       DEF IInv, Consistent, StoppedInv, FlagsInv, InStep
<1> QED
  BY <1>1, Invariance, PTL

\* Between calls the flags agree with the driver, the task and the state.
THEOREM FlagsAreTrue == Scheduled /\ Spec => []FlagsTellTheTruth
<1>1. IInv => FlagsTellTheTruth
  <2> SUFFICES ASSUME IInv, Quiet
               PROVE  /\ task_owned <=> \E t \in Tasks : Live(t)
                      /\ driver_installed <=> driver # "absent"
                      /\ driver_started <=> driver = "running"
                      /\ driver = "absent" => state = "Stopped"
    BY DEF FlagsTellTheTruth
  <2>1. Current.step = "idle"
    BY NoneCurrent DEF NoCall
  <2>2. task_owned <=> Alive
    BY <2>1 DEF IInv, Consistent, FlagsInv, InStep
  <2>3. driver_installed <=> driver # "absent"
    BY DEF IInv, Consistent, FlagsInv
  <2>4. driver_started <=> driver = "running"
    BY DEF IInv, Consistent, FlagsInv
  <2>5. driver = "absent" => state = "Stopped"
    BY <2>1 DEF IInv, Consistent, FlagsInv, StoppedInv, InStep
  <2> QED
    BY <2>2, <2>3, <2>4, <2>5, LiveIsAlive DEF IInv
<1> QED
  BY <1>1, Invariance, PTL

\* A token that receive() takes has its frame.
THEOREM TokensAreBacked == Scheduled /\ Spec => []NoPhantomFrame
<1>1. IInv => NoPhantomFrame
  BY DEF IInv, Consistent, BackedInv, NoPhantomFrame
<1> QED
  BY <1>1, Invariance, PTL

\* A consumer is not left waiting by a task that faulted.
THEOREM FaultsWake == Scheduled /\ Spec => []FaultWakesConsumer
<1>1. IInv => FaultWakesConsumer
  <2> SUFFICES ASSUME IInv, state = "Faulted", ConsumerAt("wait"),
                      \A c \in Callers : caller[c].op = "start",
                      \A t \in Tasks : task[t] # "wake"
               PROVE  available > 0
    BY DEF FaultWakesConsumer
  <2>1. TaskStep # "wake"
    BY TaskIs DEF IInv
  <2> QED
    BY <2>1 DEF IInv, Consistent, FaultInv, Unstopped
<1> QED
  BY <1>1, Invariance, PTL

\* The statistics hold every error that was polled in this run.
THEOREM ErrorsAreCounted == Scheduled /\ Spec => []DriverEventsCounted
<1>1. IInv => DriverEventsCounted
  BY LiveIsAlive DEF IInv, Consistent, CountInv, DriverEventsCounted
<1> QED
  BY <1>1, Invariance, PTL


-----------------------------------------------------------------------------
(***************************************************************************)
(* The contract of the source.                                             *)
(***************************************************************************)
CallContract(c) ==
  /\ Returns(c, "start") => StartReport(map_start_result(Result(c)), Held')
  /\ Returns(c, "stop") => StopReport(map_stop_result(Result(c)), Held')
ReceiveContract ==
  ReceiveReturns => ReceiveReport(map_receive_result(consumer'.result),
                                  state = "Running")

\* What the mapped results promise of the results of CanBus.
LEMMA MappedResults ==
  ASSUME NEW result \in Results
  PROVE  /\ map_start_result(result) = "Ok" => result = "kOk"
         /\ map_stop_result(result) \in {"Ok", "NotRunning"} =>
              result \in {"kOk", "kNotStarted"}
         /\ map_stop_result(result) = "Faulted" =>
              result \in {"kFaulted", "kDriverFailure", "kTaskFailure"}
         /\ map_receive_result(result) \in {"Fault", "NotStarted"} =>
              result \notin {"kOk", "kTimeout"}
<1>1. map_start_result(result) = "Ok" => result = "kOk"
  BY DEF Results, map_start_result
<1>2. map_stop_result(result) \in {"Ok", "NotRunning"} =>
        result \in {"kOk", "kNotStarted"}
  BY DEF Results, map_stop_result
<1>3. map_stop_result(result) = "Faulted" =>
        result \in {"kFaulted", "kDriverFailure", "kTaskFailure"}
  BY DEF Results, map_stop_result
<1>4. map_receive_result(result) \in {"Fault", "NotStarted"} =>
        result \notin {"kOk", "kTimeout"}
  BY DEF Results, map_receive_result
<1> QED
  BY <1>1, <1>2, <1>3, <1>4

\* An acquisition is held exactly while a driver is installed.
LEMMA HeldIsInstalled == IInv => (Held <=> driver_installed)
BY LiveIsAlive DEF IInv, Consistent, FlagsInv, Held

\* A call that does not come to its end tells nothing.
LEMMA NothingReturns ==
  ASSUME NEW c \in Callers, At(c, "idle") \/ ~At(c, "idle")'
  PROVE  CallContract(c)
BY DEF CallContract, Returns

\* A step of one caller that goes on ends no call.
LEMMA GoingOn ==
  ASSUME TypeOK, NEW c \in Callers, NEW d \in Callers,
         NEW step \in CallerSteps \ {"idle"},
         NEW driver_is, NEW task_is, NEW uninstalled_is,
         \/ Go(c, step)
         \/ \E result : FailLater(c, step, result)
         \/ caller' = [caller EXCEPT ![c].step = step,
                                     ![c].driver_stopped = TRUE]
         \/ caller' = [caller EXCEPT ![c].step = step,
                                     ![c].task_stopped = TRUE]
         \/ caller' = [caller EXCEPT ![c].step = step,
                                     ![c].driver_uninstalled = TRUE]
         \/ caller' = [caller EXCEPT ![c].step = step,
                                     ![c].verdict = Verdict]
  PROVE  CallContract(d)
<1>1. caller \in [Callers -> CallRecord]
  BY DEF TypeOK, CallRecord
<1>2. caller[c] \in CallRecord
  BY <1>1
<1>3. d # c => caller'[d] = caller[d]
  BY <1>1 DEF Go, FailLater
<1>4. caller'[c].step = step
  BY <1>1, <1>2 DEF Go, FailLater, CallRecord
<1> QED
  BY <1>3, <1>4, NothingReturns DEF At

\* A call that ends tells of its own operation and result.
LEMMA ReturnTells ==
  ASSUME TypeOK, NEW c \in Callers, NEW result, Return(c, result)
  PROVE  /\ Result(c) = result /\ caller'[c].op = caller[c].op
         /\ \A d \in Callers : d # c => caller'[d] = caller[d]
BY DEF TypeOK, Return, NoCall, Result

\* A start() that ends tells of success only with a driver installed,
LEMMA StartTells ==
  ASSUME TypeOK, IInv', NEW c \in Callers, NEW result \in Results,
         Return(c, result), caller[c].op = "start",
         result = "kOk" => driver_installed'
  PROVE  \A d \in Callers : CallContract(d)
<1>1. Held' <=> driver_installed'
  BY HeldIsInstalled, PTL
<1>2. CallContract(c)
  BY <1>1, ReturnTells, MappedResults DEF CallContract, Returns, StartReport
<1>3. ASSUME NEW d \in Callers, d # c
      PROVE  CallContract(d)
  BY <1>3, ReturnTells, NothingReturns DEF At
<1> QED
  BY <1>2, <1>3

\* and a stop() tells whether one is left.
LEMMA StopTells ==
  ASSUME TypeOK, IInv', NEW c \in Callers, NEW result \in Results,
         Return(c, result), caller[c].op = "stop",
         result \in {"kOk", "kNotStarted"} => ~driver_installed',
         result \in {"kFaulted", "kDriverFailure", "kTaskFailure"} =>
           driver_installed'
  PROVE  \A d \in Callers : CallContract(d)
<1>1. Held' <=> driver_installed'
  BY HeldIsInstalled, PTL
<1>2. CallContract(c)
  BY <1>1, ReturnTells, MappedResults DEF CallContract, Returns, StopReport
<1>3. ASSUME NEW d \in Callers, d # c
      PROVE  CallContract(d)
  BY <1>3, ReturnTells, NothingReturns DEF At
<1> QED
  BY <1>2, <1>3

\* The calls that a step of start() ends keep the contract,
LEMMA StartContract ==
  ASSUME IInv, IInv', NEW c \in Callers, Start(c)
  PROVE  \A d \in Callers : CallContract(d)
<1>0. /\ TypeOK /\ OneCall /\ state \in LifecycleStates
      /\ ~At(c, "idle") => Current = caller[c]
  BY DataTypes, CurrentIs DEF IInv
<1>1. CASE At(c, "refused") \/ At(c, "abort") \/ At(c, "create")
  <2>1. caller[c].op = "start"
    <3>1. Current = caller[c] /\ Current.op \in {"none", "start", "stop"}
      BY <1>0, <1>1, CurrentType DEF At, CallRecord
    <3> QED
      BY <1>1, <3>1
         DEF IInv, Consistent, CallInv, InStep, At, StopSteps
  <2>2. CASE StartRefused(c)
    <3>1. StateResult(state) \in Results \ {"kOk"}
      BY <1>0 DEF StateResult, LifecycleStates, Results
    <3> QED
      BY <1>0, <2>1, <2>2, <3>1, StartTells DEF StartRefused
  <2>3. CASE StartAbort(c)
    <3>1. "kDriverFailure" \in Results \ {"kOk"}
      BY DEF Results
    <3> QED
      BY <1>0, <2>1, <2>3, <3>1, StartTells DEF StartAbort
  <2>4. CASE StartCreate(c) /\ Return(c, "kOk")
    <3>1. driver_installed' /\ "kOk" \in Results
      BY <1>0, <2>4
         DEF IInv, Consistent, FlagsInv, StartInv, InStep, At, Started,
             StartCreate, lifecycle, flags, Results
    <3> QED
      BY <1>0, <2>1, <2>4, <3>1, StartTells
  <2>5. CASE StartCreate(c) /\ Go(c, "give_up")
    BY <1>0, <2>5, GoingOn DEF CallerSteps, StartSteps
  <2> QED
    BY <1>1, <2>2, <2>3, <2>4, <2>5
       DEF Start, At, BeginStart, StartDrain, StartInstall, StartDriver,
           StartUndoInstall, StartClear, StartRequest, StartMarkTask,
           StartCreate, StartGiveUp, StartGiveUpDriver, StartGiveUpInstall
<1>2. CASE ~(At(c, "refused") \/ At(c, "abort") \/ At(c, "create"))
  <2>1. PICK step \in CallerSteps \ {"idle"} :
          Go(c, step) \/ \E result : FailLater(c, step, result)
    BY <1>2
       DEF Start, BeginStart, StartRefused, StartDrain, StartInstall,
           StartAbort, StartDriver, StartUndoInstall, StartClear,
           StartRequest, StartMarkTask, StartCreate, StartGiveUp,
           StartGiveUpDriver, StartGiveUpInstall, CallerSteps, StartSteps
  <2> QED
    BY <1>0, <2>1, GoingOn
<1> QED
  BY <1>1, <1>2

\* so do those that a step of stop() or reconcile() ends,
LEMMA StopContract ==
  ASSUME IInv, IInv', NEW c \in Callers, Stop(c) \/ Reconciles(c)
  PROVE  \A d \in Callers : CallContract(d)
<1>0. /\ TypeOK /\ OneCall /\ state \in LifecycleStates
      /\ ~At(c, "idle") =>
           Current = caller[c] /\ Current.op \in {"none", "start", "stop"}
  BY DataTypes, CurrentIs, CurrentType DEF IInv, CallRecord
<1>1. CASE At(c, "begin_stop")
  <2>1. Current.step = "begin_stop" /\ caller[c].op = "stop"
    BY <1>0, <1>1
       DEF IInv, Consistent, CallInv, InStep, At, StartSteps
  <2>2. BeginStop(c)
    BY <1>1
       DEF Stop, Reconciles, At, StopWithdraw, StopDriverDone,
           StopDriverFails, StopCheckTask, StopWaitTask, StopAcknowledge,
           StopTakeToken, StopUninstallDone, StopUninstallFails, StopFinish,
           Reconcile, ReconcileStore
  <2>3. CASE state = "Stopped" /\ Return(c, "kNotStarted")
    <3>1. ~driver_installed'
      BY <2>2, <2>3 DEF IInv, Consistent, StoppedInv, BeginStop, flags
    <3> QED
      BY <1>0, <2>1, <2>3, <3>1, StopTells DEF Results
  <2>4. CASE Go(c, "withdraw")
    BY <1>0, <2>4, GoingOn DEF CallerSteps, StopSteps
  <2> QED
    BY <2>2, <2>3, <2>4 DEF BeginStop, NothingToStop
<1>2. CASE At(c, "finish")
  <2>1. Current.step = "finish" /\ caller[c].op = "stop"
    BY <1>0, <1>2
       DEF IInv, Consistent, CallInv, InStep, At, StartSteps
  <2>2. StopFinish(c)
    BY <1>2
       DEF Stop, Reconciles, At, BeginStop, StopWithdraw, StopDriverDone,
           StopDriverFails, StopCheckTask, StopWaitTask, StopAcknowledge,
           StopTakeToken, StopUninstallDone, StopUninstallFails,
           Reconcile, ReconcileStore
  <2>3. /\ driver_installed' = driver_installed
        /\ caller[c].driver_uninstalled => ~driver_installed
        /\ ~caller[c].driver_uninstalled => driver_installed
        /\ ~caller[c].task_stopped => driver_installed
        /\ caller[c].driver_stopped \/ driver_installed
    BY <1>0, <1>2, <2>1, <2>2
       DEF IInv, Consistent, StopInv, FlagsInv, StopCalled, InStep, Settling,
           Releasing, StopFinish, lifecycle, flags, At
  <2>4. CASE Return(c, "kOk") /\ caller[c].driver_uninstalled
    BY <1>0, <2>1, <2>3, <2>4, StopTells DEF Results
  <2>5. ASSUME NEW result \in {"kDriverFailure", "kTaskFailure"},
               Return(c, result), driver_installed
        PROVE  \A d \in Callers : CallContract(d)
    BY <1>0, <2>1, <2>3, <2>5, StopTells DEF Results
  <2> QED
    BY <2>2, <2>3, <2>4, <2>5 DEF StopFinish
<1>3. CASE At(c, "store")
  <2>1. Current = caller[c] /\ Current.step = "store"
    BY <1>0, <1>3 DEF At
  <2>2. ReconcileStore(c)
    BY <1>3
       DEF Stop, Reconciles, At, BeginStop, StopWithdraw, StopDriverDone,
           StopDriverFails, StopCheckTask, StopWaitTask, StopAcknowledge,
           StopTakeToken, StopUninstallDone, StopUninstallFails, StopFinish,
           Reconcile
  <2>3. CASE caller[c].op = "start" /\ Return(c, caller[c].result)
    <3>1. caller[c].result \in Results \ {"kOk"}
      BY <2>1, <2>3 DEF IInv, Consistent, StartInv, InStep, Results
    <3> QED
      BY <1>0, <2>3, <3>1, StartTells
  <2>4. CASE Go(c, "finish")
    BY <1>0, <2>4, GoingOn DEF CallerSteps, StopSteps
  <2> QED
    BY <2>2, <2>3, <2>4 DEF ReconcileStore
<1>4. CASE ~(At(c, "begin_stop") \/ At(c, "finish") \/ At(c, "store"))
  <2>1. PICK step \in CallerSteps \ {"idle"} :
          \/ Go(c, step)
          \/ caller' = [caller EXCEPT ![c].step = step,
                                      ![c].driver_stopped = TRUE]
          \/ caller' = [caller EXCEPT ![c].step = step,
                                      ![c].task_stopped = TRUE]
          \/ caller' = [caller EXCEPT ![c].step = step,
                                      ![c].driver_uninstalled = TRUE]
          \/ caller' = [caller EXCEPT ![c].step = step,
                                      ![c].verdict = Verdict]
    BY <1>4
       DEF Stop, Reconciles, BeginStop, StopWithdraw, StopDriverDone,
           StopDriverFails, StopCheckTask, StopWaitTask, StopAcknowledge,
           StopTakeToken, StopUninstallDone, StopUninstallFails, StopFinish,
           Reconcile, ReconcileStore, CallerSteps, StopSteps
  <2> QED
    BY <1>0, <2>1, GoingOn
<1> QED
  BY <1>1, <1>2, <1>3, <1>4

\* and receive(), which tells of a fault only when the run has ended.
LEMMA ReceiveKeepsContract == IInv /\ Receive => ReceiveContract
<1> SUFFICES ASSUME IInv, Receive
             PROVE  ReceiveContract
  OBVIOUS
<1>1. state \in LifecycleStates /\ (ConsumerAt("pop") => depth > 0)
  BY DataTypes DEF IInv, Consistent, BackedInv
<1>2. CASE \E step \in ConsumerSteps \ {"idle"} : ConsumerGoes(step)
  BY <1>2 DEF ReceiveContract, ReceiveReturns, ConsumerGoes, ConsumerAt
<1>3. CASE state # "Running" /\ Receives(StateResult(state))
  BY <1>1, <1>3 DEF ReceiveContract, ReceiveReport
<1>4. ASSUME NEW result \in {"kOk", "kTimeout"}, Receives(result)
      PROVE  ReceiveContract
  <2>1. result \in Results /\ consumer'.result = result
    BY <1>4 DEF Results, Receives
  <2> QED
    BY <1>4, <2>1, MappedResults DEF ReceiveContract, ReceiveReport
<1> QED
  BY <1>1, <1>2, <1>3, <1>4
     DEF Receive, ReceiveCheck, ReceiveToken, ReceiveTimeout,
         ReceiveTimedOut, ReceiveRecheck, ReceivePop, ConsumerSteps

\* The source keeps the contract that Runtime takes for its environment.
THEOREM ContractIsKept == Scheduled /\ Spec => SourceKeepsContract
<1>1. ASSUME IInv, [Next]_vars
      PROVE  [(\A c \in Callers : CallContract(c)) /\ ReceiveContract]_vars
  <2>0. TypeOK /\ IInv'
    BY <1>1, StepPreserves DEF IInv
  <2>1. ASSUME UNCHANGED caller
        PROVE  \A c \in Callers : CallContract(c)
    BY <2>1, NothingReturns DEF At
  <2>2. ASSUME UNCHANGED consumer
        PROVE  ReceiveContract
    BY <2>2 DEF ReceiveContract, ReceiveReturns, ConsumerAt
  <2>3. ASSUME NEW c \in Callers,
               StartCall(c) \/ StartInvalid(c) \/ StopCall(c)
        PROVE  (\A d \in Callers : CallContract(d)) /\ ReceiveContract
    <3>1. UNCHANGED consumer /\ At(c, "idle")
      BY <2>3 DEF StartCall, StartInvalid, StopCall, MayCall, others
    <3>2. \A d \in Callers : d # c => caller'[d] = caller[d]
      BY <2>0, <2>3 DEF TypeOK, StartCall, StartInvalid, StopCall, Call
    <3> QED
      BY <2>2, <3>1, <3>2, NothingReturns DEF At
  <2>4. ASSUME NEW c \in Callers, CallerStep(c)
        PROVE  (\A d \in Callers : CallContract(d)) /\ ReceiveContract
    <3>1. UNCHANGED consumer
      BY <2>4
         DEF CallerStep, Start, Stop, Reconciles, BeginStart, StartRefused,
             StartDrain, StartInstall, StartAbort, StartDriver,
             StartUndoInstall, StartClear, StartRequest, StartMarkTask,
             StartCreate, StartGiveUp, StartGiveUpDriver,
             StartGiveUpInstall, BeginStop, StopWithdraw, StopDriverDone,
             StopDriverFails, StopCheckTask, StopWaitTask, StopAcknowledge,
             StopTakeToken, StopUninstallDone, StopUninstallFails,
             StopFinish, Reconcile, ReconcileStore, others
    <3> QED
      BY <1>1, <2>0, <2>2, <2>4, <3>1, StartContract, StopContract
         DEF CallerStep
  <2>5. ASSUME NEW t \in Tasks, ReceiveTask(t)
        PROVE  UNCHANGED <<caller, consumer>>
    BY <2>5
       DEF ReceiveTask, TaskLoop, TaskReceive, TaskPush, TaskGive,
           TaskStatus, TaskAlerts, TaskLatch, TaskLatchState, TaskWake,
           TaskAcknowledge, TaskExit
  <2>6. ASSUME ReceiveCall \/ DriverEvent
        PROVE  UNCHANGED caller /\ ReceiveContract
    BY <2>2, <2>6 DEF ReceiveCall, DriverEvent, others, ReceiveContract,
       ReceiveReturns
  <2>7. ASSUME Receive
        PROVE  UNCHANGED caller
    BY <2>7 DEF Receive, ReceiveCheck, ReceiveToken, ReceiveTimeout,
       ReceiveTimedOut, ReceiveRecheck, ReceivePop
  <2> QED
    BY <1>1, <2>1, <2>2, <2>3, <2>4, <2>5, <2>6, <2>7, ReceiveKeepsContract
       DEF Next
<1> QED
  BY <1>1, Invariance, PTL
     DEF Spec, SourceKeepsContract, CallContract, ReceiveContract
===============================================================================

# A TLA+ verification of mazda-can-telemetry

TLA+ modules, TLC configurations and TLAPS proofs for the run-time core of the
repository: the lock-free ring between the CAN receive task and its consumer,
the lifecycle of the acquisition boundary `can_bus`, the runtime of
`vehicle_telemetry` that drives an acquisition source with a worker task, the
contract between the two, the notification channel that carries readings to
callbacks, and the signal that a reading comes from.

Run a model with `tlc -config MCFrameRing.cfg MCFrameRing`, a proof with
`tlapm FrameRingProofs.tla` (also `FrameRingRefinement`,
`FrameRingSnapshotProofs`, `CanBusProofs`, `RuntimeProofs`,
`NotificationProofs`, `SignalProofs`).
`PROJECT.json` lists the runs, the mutants that
show that each property can fail, the source lines of every definition, the
hazards, the findings and the theorems.

## 1. The system

| component | state | operations | talks to |
|---|---|---|---|
| `FrameRing` (`can_bus/frame_ring.hpp`) | `head_`, `tail_`, slots, nine counters, watermark; all atomics, no lock | `push`, `pop`, `snapshot` (plain or resetting), `clear`, `record_*` | receive task pushes, one consumer pops, any task takes snapshots |
| `LifecycleController` (`can_bus/lifecycle.hpp`) | `state_` and three ownership flags, atomics | `begin_start`, `abort_start`, `mark_*`, `acknowledge_task`, `begin_stop`, `latch_fault`, `reconcile` | called by `start`, `stop` and the receive task |
| `can_bus` (`can_bus.cpp`) | ring, controller, `g_receive_requested`, two semaphores, last driver counters | `start`, `stop`, `receive`, `statistics`, the task `receive_task` | TWAI driver and FreeRTOS below, one consumer above |
| `CanBusSource` (`can_bus_source.cpp`) | configuration | maps `can_bus` results to an `AcquisitionSource` | runtime above, `can_bus` below |
| `Runtime` (`runtime.cpp`) | `lifecycle_`, the operation flag, the worker, ownership of the source, diagnostics | `configure`, `start`, `stop`, `diagnostics`, destructor, worker `run_loop` | source, frame processor, observer callbacks |
| `NotificationChannel` (`notification_channel.hpp`) | subscriptions and one pending event each | `subscribe`, `unsubscribe`, `start`, `stop`, `publish`, `dispatch_*` | publishers, callbacks run outside the lock |
| `Signal` (`signal.hpp`) | last value, times, status | `update`, `invalidate`, `refresh`, `snapshot` | decoders and readers |
| configuration helpers, core value types, driver binding, bench firmware, tools, CI | none worth a model | pure functions, one loop, static checks | - |

What is hard to test here: interleavings of atomics at the grain of single
loads and stores; semaphores whose tokens outlive the run that gave them; waits
that expire while the answer is on its way; driver calls that fail halfway
through a start or a stop; callers that retry; a worker that latches a fault
while another task stops it; a destructor. `PROJECT.json` lists each of these
hazards at its line with the properties that cover it.

Correctness, per component:

- ring: bounded, no torn frame, FIFO, a refused frame saw a full ring, a
  coherent depth, a watermark that covers it, counters that lose nothing;
- `can_bus`: never two owners, no driver removed under a task, flags that tell
  the truth after every failure path, tokens backed by a frame or a fault, and
  a retried `stop()` that succeeds;
- `Runtime`: one worker, none left after `stop()` or the destructor, the
  one-shot/retry contract of `AcquisitionSource::stop()`, ownership retained
  until released, diagnostics that agree with the lifecycle;
- `CanBusSource`: what it reports of a start or a stop is what `can_bus` holds;
- `NotificationChannel`: one callback at a time and none after `unsubscribe`,
  a handle names one subscription, a notice is the exact summary of what its
  subscriber missed, turns are fair and every notice is delivered;
- `Signal`: the newest observation wins in whatever order they arrive, nothing
  but a newer one revives a signal, both views of staleness agree.

## 2. Modules

| module | models | checked by |
|---|---|---|
| `FrameQueue` | what the ring promises: a bounded FIFO with numbered frames | refined by `FrameRing` |
| `FrameRing` | `frame_ring.hpp`, one atomic access per step | `MCFrameRing` |
| `FrameRingTSO` | `FrameRing` plus one store-buffer reordering | `FrameRingTSO.cfg` |
| `FrameRingProofs` | the invariant of `FrameRing` and what follows from it | tlapm |
| `FrameRingRefinement` | `FrameRing` implements `FrameQueue` | tlapm |
| `FrameRingSnapshotProofs` | what a snapshot of `FrameRing` tells | tlapm |
| `CanBusProofs` | theorems about `CanBus` and `CanBusSource` | tlapm |
| `RuntimeProofs`, `NotificationProofs`, `SignalProofs` | theorems about the module of that name | tlapm |
| `CanBus` | `can_bus.cpp` over `lifecycle.hpp`, with failing driver calls | `MCCanBus` |
| `AcquisitionSource` | the contract of `receive.hpp` between a source and a runtime | used by both sides |
| `CanBusSource` | `can_bus_source.cpp`: `CanBus` as an `AcquisitionSource` | `MCCanBus` |
| `Runtime` | `runtime.cpp` over any `AcquisitionSource`, both builds | `MCRuntime` |
| `NotificationChannel` | `notification_channel.hpp`, one critical section per step | `MCNotification` |
| `Signal` | `signal.hpp`, one operation per step | `MCSignal` |

Definitions after a comment "Bug:" are the mutants; no specification uses them.

### FrameRing

`head`, `tail`, `frames`, `counters`, `queue_high_watermark` are the members of
the class. `producer`, `consumer` and `observer[o]` hold the program counter
and the locals of a `push()`, a `pop()`, and a `snapshot()` or `clear()` in
progress. `offered`, `taken`, `discarded`, `reported` and the `depth_then` of
an observer are history variables. A frame is the number of its `push()`.

- A load of an index by the only task that stores it is merged with the next
  access. A `compare_exchange` loop takes effect at its last iteration, as an
  atomic maximum. The copy of a frame is not atomic: it occupies its whole
  step, and `NoSlotRace` says that the two copies are never in one slot.
- Accesses interleave sequentially consistently. `FrameRingTSO` adds the one
  reordering that an x86 host performs; the full C++ memory model is not
  modelled.
- `size_t` is arithmetic modulo `Modulus`. `InitialIndex` stands for earlier
  use: after `clear()` the indices are equal, anywhere.
- `clear()` excludes producer and consumer: `start()` runs it before it creates
  the task, and `can_bus.h:77-79` requires a stopped consumer.
- The loads of a plain snapshot change nothing, so its last step is that of its
  depth. `driver_events` stands for the four `record_*()` counters.
- A tail that moves by exactly 2^w between two loads of one `coherent_depth()`
  would be taken for one that did not move; `MaxFrames < Modulus` leaves this
  out. Only `DepthIsCoherent` needs it: 2^32 frames between two adjacent loads.

### CanBus

State of `LifecycleController` (`state` and three flags), the request flag,
the two semaphores, the depth of the ring, the driver, and a program counter
for each caller, receive task and the consumer. A step is one access to state
another process uses.

- A driver call and the `mark_*()` after it are one step, because only `start()`
  and `stop()` look at these two flags. `acknowledge_task()`, `begin_stop()` and
  the withdrawal of the request in the failure path of task creation are one
  step: no task exists to see the states between.
- `twai_*()` fail nondeterministically wherever the code checks the result; they
  succeed only in a driver state that allows it (an assumption on ESP-IDF).
- The ring is its depth, which `FrameRing` justifies.
- `Serialised` says that callers do not overlap their calls. `PromptExit` says
  that a receive task that acknowledged gives `g_task_stopped` before a later
  `start()` drains it: it outranks its callers, but nothing in the code orders
  the two. The passing run assumes both; two violation runs drop one each.
- `receive()` never overlaps a `start()` (`can_bus.h:77-79`).
- `RestartableOnlyWhenReleased` speaks of the states between calls: a Stopped
  boundary then has no driver, no live task and no token. `FlagsTellTheTruth`
  holds there in both directions: a boundary without a driver is Stopped.
- Of the three driver counters one is kept: `occurred` is what really happened
  to the installed driver, the driver shows it modulo `CounterModulus`
  (2^32 in the code), `last_bus_errors` is `g_last_driver_bus_errors` and
  `bus_errors` the counter of the ring. More than 2^32 events between two status
  polls, 10 ms apart, are left out.
- The creation of the two static semaphores, frame contents, the reset counter
  and `statistics()` (a snapshot of the ring, see `FrameRing`) are left out.

### AcquisitionSource and CanBusSource

`Runtime` and `CanBus` are composed by contract instead of by product.
`StopReport`, `StartReport` and `ReceiveReport` say what a result must mean:
`Ok` and `NotRunning` of a stop mean that nothing is held, `Faulted` that
something still is, a fault of `receive()` that the run is over. `Runtime` takes
`StopReport` as the definition of its environment (`SourceStops`), and
`SourceKeepsContract` checks every return of `CanBusSource` against it.
The contract does not promise that a stopped source returns no frame: a consumer
that was about to pop one returns it after the stop, and `Runtime` allows for it.

### Runtime

`lifecycle`, `operation`, `stop_requested`, `worker_active` and `handle` are the
members of those names (`handle` is `task_` or a joinable `worker_`); `cleanup`
is the record of the `source_*` members; `diagnostics` keeps the lifecycle, the
transport and `has_last_frame`; `source` is what the source really holds,
whatever it reported. A step is a critical section or one atomic access; a
source call and the members it decides are one step, since only the holder of
`lifecycle_operation_active_` touches them.

- `SourceStops` lets a source answer anything its contract allows: a timeout
  that did or did not release, a fault that keeps, `NotRunning` when idle.
- A fault that a source reports because it is being stopped is "Cancelled". The
  code treats it like any other; the name lets `StopIsNoFault` say that it is
  never latched.
- `diagnostics_mutex` is the holder of `diagnostics_mutex_` while it reads
  `config_` after having loaded `lifecycle_`; a critical section that does not is
  one step. `config` only tells one configuration from another, and those
  that `valid_config()` refuses change nothing.
- `platform` and `opts_in` are chosen at the start and never change.
- Whether the silence timeout has elapsed is the clock's choice at each look.
- `Stopping` is treated as `Timeout` and `NotStarted` as `Fault`, as every
  branch of the code does. Statistics and frame counters are left out. After
  the destructor a new runtime may be built over the same
  source, which is "foreign" if the old one could not release it.

### NotificationChannel

`subscribers`, `current`, `has_available_period`, `running` and the two order
numbers are the members of those names; `dispatching_` always equals
`callback_active_`. `dispatcher[d]` is a task in `dispatch_pending()`. A refused
call is no step, and a callback may make any call: the accepted one,
`publish()`, is a `Publish` step while the callback is in progress.

- `issued` keeps every handle for ever. `published`, `seen` and `ahead` are
  history: the readings of the run, how many of them a slot was told of, and who
  had a turn since a slot became pending.
- The validation status distinguishes a reading as its value does and is folded
  into the value. Callbacks and contexts are left out: `order` says whose
  callback runs.
- Registration orders are 64-bit numbers that are taken not to wrap. Generations
  do wrap; `MaxSubscriptions < Generations` leaves out the 65 535 reuses of one
  slot after which an old handle would be accepted again.

### Signal

The members have their names; `Unconfigured` is an empty timeout. `now` is the
clock of `refresh()` and `status_at()`, the timestamps of observations are free.
`offered`, `invalidated` and `judged_by` are history. A signal has no lock: it is
confined to its owner, and each operation is one step.

## 3. Runs

| run | instance | shows |
|---|---|---|
| `frame_ring` | 2 slots, `size_t` modulo 8 from 6, 3 frames, 1 driver event, 1 observer; 1 284 191 states | all ring properties and `ImplementsFrameQueue` |
| `can_bus` | 1 caller, 2 task identities, capacity 2, a driver counter modulo 2 with at most 3 events per driver, no bound on runs; 294 468 states | all `can_bus` properties, `SourceKeepsContract` and `StopEventuallySucceeds` |
| `runtime` | 2 overlapping callers, both builds, both kinds of source, 2 configurations, no bound on runs; 89 106 states | all runtime properties and two liveness properties |
| `notification` | 2 slots, 2 dispatchers, 3 readings of which 2 are available, 3 registrations, generations modulo 4 from 2, 4 readings per run, no bound on runs; 304 091 states | all channel properties and `EventuallyNotified` |
| `signal` | 2 values, times 0 to 3, timeouts none, 0 and 1; 48 708 states | all signal properties |
| `frame_ring_tso`, `can_bus_stale_token`, `can_bus_stop_during_start`, `can_bus_stop_receive`, `runtime_fault_masked`, `runtime_callback_stop`, `signal_late_revival` | as small | a violation each, see section 5 |

Why these bounds are enough: two slots are the smallest ring that is neither
full nor empty in between; starting at 6 of 8 the second frame wraps the
indices; three frames fill the ring, overflow it, and reuse a slot. The same
run passes with four frames (8 million states). The single observer runs any
sequence of snapshots, resets and clears. `can_bus` and `runtime` bound nothing but the number of
tasks: two task identities are needed to see a second live task. One caller is
enough in `can_bus`, where callers do not overlap; `CanBusProofs` shows the same
properties for several. A counter modulo 2 that
counts to 3 wraps within a run, and a second driver starts from 0 again.

In `notification` the two slots are those of the code. Three registrations reuse
a slot while an old handle is kept, the second one of a slot wraps its
generation, and a slot that is reused puts the later registration first. Four
readings (the empty one and three changes) let a transition be published, merged
with a second and a third, and one of them fall between a dispatch and its
callback; a longer run only repeats merges. In `signal` three different times
are enough to put an observation before, between and after two others, and the
fourth to grow older than each timeout.

No system deadlocks: in `can_bus`, `runtime`, `notification` and `signal` a new
call is always possible, and in `frame_ring` an observer may always begin one.

Fairness. Tasks are scheduled (`WF` of each caller, receive task and the
consumer of `CanBus`): every wait in that code is bounded, or ends in a step of
another task. In `Runtime` the worker and the callers also wait for
`diagnostics_mutex_`, which other tasks may take again and again: `SF(Worker)`
and `SF(CallerStep)` say that the mutex does not pass a waiting task over for
ever. A stop that has not succeeded is repeated (`SF` of `StopCall` and of
`StopBegin` by some caller), which `can_bus.h:17` and `receive.hpp:34-37` invite
to. `SF(StopDriverDone)`, `SF(StopUninstallDone)` and `SF(Releases)` are
assumptions on what lies below: a driver or a source that is asked again and
again releases in the end. For a TWAI driver in bus-off this is an assumption on
ESP-IDF that the repository does not settle. In `NotificationChannel` the owner
calls `dispatch_pending()` again and again, which the channel leaves to it, and
callbacks return (`WF(DispatchCall)`, `WF(Dispatch)`); publishers need no
fairness and cannot be bounded, which is why `FairTurns` states the absence of
starvation as an invariant as well.

## 4. Proofs

`FrameRingProofs` proves, for every `Capacity`, every `Modulus` that it
divides (64 and 2^32 in the code), every `InitialIndex`, any number of frames
and events, and any set of observers:

- `Invariance`: the inductive invariant `IInv` holds always;
- `TypeCorrect`: `Spec => []TypeOK`;
- `DepthNeverExceedsCapacity`: `Spec => []DepthBounded`;
- `CopiesNeverMeet`: `Spec => []NoSlotRace`;
- `NothingIsLost`: `Spec => []Accounting`.

`DepthBounded` is not inductive: while a `push()` writes, it acts on a tail it
loaded earlier. `RingInv` adds that this old tail still shows room and that it
bounds the true depth from above, so publishing is safe, and that the tail of a
reading `pop()` is not the head. `ClearInv` says that `clear()` excludes both.
`CountInv` is `Accounting` with the steps in which an event is counted in one
counter and not yet in the other. `NoSlotRace` then follows from the arithmetic
lemma `SlotsDiffer`: two indices less than `Capacity` apart have different
slots, across the wrap too, because `Capacity` divides `Modulus`.

Assumptions: `CapacityAssumption` is the `static_assert` of the class,
`ModulusAssumption` holds of 64 and any 2^w above it, the other two bound what is
modelled and are not used beyond typing.

`FrameRingRefinement` proves `RingIsAQueue`: `Spec => ImplementsFrameQueue`. The
mapping reads the queue off the slots between `tail` and `head`. Two facts are
missing from `IInv` (`FrameInv`): a frame that is written and not yet published
is in the slot of `head`, and one that `pop()` has copied and not yet given up is
still in the slot of `tail`. Then each access is one operation of the queue: the
call of `push()` offers (`Offers`), publishing accepts (`Accepts`), the load
that finds a full ring refuses (`Refuses`), the store of `tail` takes (`Takes`)
or discards (`Discards`), and all else stutters. `WrittenIsFree` is where the
ring could go wrong: the slot a `push()` writes is none of those queued.

`FrameRingSnapshotProofs` proves the two properties of `snapshot()`:

- `DepthWasTrue`: `MaxFrames < Modulus /\ Spec => []DepthIsCoherent`. `TailInv`
  says where `tail` is after `n` moves, `LoadInv` that the two loads of an
  observer are of one instant `n` and a later one `m`, and that `depth_then` is
  that of `m`. If the third load agrees with the first, `tail` has not moved
  since `n`, as it comes back to a place only after a whole turn
  (`TailAfterFacts`), so `m` is that instant too.
- `WatermarkCovers`: `Spec => []WatermarkCoversDepth`, with no hypothesis.
  `WatermarkInv` closes the window of a reset: unless a `push()` has yet to
  raise the watermark or a repair has yet to look at the depth, the watermark
  covers it, or some repair has loaded a depth that does (`Covers`). `EmptyInv`
  is needed for the zero that `clear()` stores at its end: the ring has stayed
  empty since.

`CanBusProofs` is about any callers, task identities, capacity, width of the
driver's counters and number of its events. `TypeCorrect` holds of all of them.
The other theorems have the hypothesis `Scheduled`, which is
`Serialised /\ PromptExit`, the two switches of section 2; the violation runs
`can_bus_stop_during_start` and `can_bus_stale_token` show that the properties
fail without them. Serialised callers have one call in progress (`OneCall`) and no
`start()` drains the semaphores before the last task is gone (`OneTask`), so
the invariant speaks of `Current`, the call in progress, and `TaskStep`, the
task. Its parts: `FlagsInv` (what the flags tell of the driver and the task at
each step), `StartInv` (what `start()` has made before it creates its task),
`StopInv` (what `stop()` noted fits what it did), `StoppedInv`, `CountInv` (the
counters agree wherever a task may poll), `BackedInv` (tokens and the frames
they stand for) and `FaultInv` (a consumer that waits has a run or a token).

- `OneOwner`, `TasksHaveTheirDriver`: `NoSecondOwner`, `DriverOutlivesTask`;
- `StoppedIsReleased`, `FlagsAreTrue`: `RestartableOnlyWhenReleased`,
  `FlagsTellTheTruth`;
- `TokensAreBacked`, `FaultsWake`: `NoPhantomFrame`, `FaultWakesConsumer`;
- `ErrorsAreCounted`: `DriverEventsCounted`, by lemma `DeltaIsDifference`: the
  difference of two readings of a counter that wraps is the number of events
  between them, if these are fewer than a whole turn;
- `ContractIsKept`: `SourceKeepsContract`, an action property, at the return of
  each call of `CanBusSource`.

`RuntimeProofs` is about any set of callers that overlap as they like, any
configurations, both builds and any source that keeps its contract; it assumes
`PlatformAssumption` and nothing else. The operation flag is what makes it
work: a call that finds it set is refused, and the destructor overlaps no call,
so again one call is in progress (`OneCall`, `Current`). `CallInv` says that it
holds the flag, `CleanupInv` how the `source_*` members fit its step,
`WorkerInv` where there may be a worker, a handle of one or `worker_active_`,
`HandoffInv` and `SourceInv` what the source has been told and still holds,
`RequestInv` that a request to stop precedes each stop a worker could notice,
and `DiagnosticsInv` who may write the diagnostics last.

- `WorkersDoNotOverlap`, `WorkersEnd`: `OneWorker`, `NoWorkerLeftBehind`;
- `HandoffIsOneShot`, `SourceIsRetained`: `StopIsOneShot`,
  `RetainedUntilReleased`;
- `StoppedShows`, `CancellationIsNoFault`: `StoppedIsVisible`, `StopIsNoFault`;
- `CallbacksAreKnownOnEsp`: `CallbackStopRefusedOnEsp`;
- `ConfigurationSettles`: `ConfigurationIsSettled`, an action property;
- `TypeCorrect` and `Invariance`.

`NotificationProofs` proves every invariant of `NotificationChannel`, for any
number of slots and dispatching tasks, any readings, generations and bounds:

- `CallbacksDoNotOverlap`, `ContextOutlivesCallback`: `OneCallbackAtATime` and
  `CallbackWithinSubscription` are inductive together (`CallbackInv`), since
  `callback_active` keeps the owner and the other dispatchers out;
- `NoChangeIsMissed`, `MergingLosesNothing`: `PendingIffBehind` and
  `PendingSummarises`. They need that `current` and `has_available_period`
  agree with the readings of the run (`ReadingInv`), that nobody was told of
  more than there is (`SeenInv`), and that a notice is an untouched seed while
  there is but one reading (`SeedInv`), or `coalesced` would be wrong. Lemma
  `MissedGrows`: a publication adds one reading to what each slot missed;
- `NobodyOvertakesTwice`: `FairTurns`, from `TurnInv`: going round from the
  cursor, a waiting slot comes before every slot that had a turn while it waited;
- `HandlesAreNotReused`: `HandleNamesOneSubscription`, from `GenerationInv`: a
  slot used `k` times after a handle was issued is `k` steps further round the
  cycle `1 .. Generations - 1`, and `BoundAssumption` keeps `k` below a whole
  round;
- `TypeCorrect` and `Invariance`, the conjunction of all of them.

`SignalProofs` proves for any values, timeouts and times `TypeCorrect`,
`NewestAlwaysWins` (`NewestWins`, inductive with the types), `ViewsAgree`
(`StaleInBothViews`, from `StaleInv`: a value marked stale is older than the
timeout it was judged by, and only ages) and `NothingRevives`, the action
property `NoRevival`, action by action from the types.

Every safety property, every action property and the refinement that a passing
run checks has its theorem. Only model-checked are the liveness properties
(`StopEventuallySucceeds` of both, `DestructionEnds`, `EventuallyNotified`):
they rest on fairness and `ENABLED`, which are out of the prover's reach, as are
induction over data and `RECURSIVE` operators (none is used in these modules).

## 5. Findings

1. `frame_ring_tso`: a resetting snapshot can leave the watermark below the live
   depth (`frame_ring.hpp:61,151` against the comment at 116-118).
2. `can_bus_stale_token`: a token of `g_task_stopped` can outlive its run
   (`can_bus.cpp:136-137`, 177, 256); it takes a delay of a high-priority task.
3. `can_bus_stop_during_start`: an overlapping `stop()` makes the controller
   `Stopped` while `start()` goes on (`can_bus.cpp:147`, `lifecycle.hpp:104-106`).
4. `can_bus_stop_receive`: `stop()` does not wake the consumer, which
   `receive.hpp:27-29` asks of an `AcquisitionSource`.
5. `runtime_fault_masked`: `diagnostics()` can turn a latched fault into
   `TimedOut` (`runtime.cpp:321`, 463, 492).
6. `runtime_callback_stop`: on the host the first callback may come before
   `worker_` is assigned (`runtime.cpp:158`, 183).
7. `signal_late_revival`: an observation older than an invalidation makes the
   signal valid again (`signal.hpp:89-101`, 104-113, against 52-53 and 60-62).

## 6. Plan

Done: every component with behaviour of its own, and a theorem for each safety
property. Left:

1. Lemmas towards liveness that are safety themselves: in `CanBus` and
   `Runtime`, that a call in progress always has a step or waits for a task that
   has one.
2. The product of `Runtime` and `CanBus`, should the contract between them grow:
   today each side is checked and proved against it.

## 7. Not modelled

- Value types and interfaces of `vehicle_core`, the driver binding and the
  firmware's board code: pure functions or straight-line I/O. Decoders are
  interfaces only in this repository.
- The bench firmware's loop: one task that is the caller and the consumer of
  `CanBus`, with logging; each of its sequences of calls is one of `CanBus`.
- `statistics()` of `can_bus` and of the source, frame counters and the
  acquisition statistics in the diagnostics: copies of counters that `FrameRing`
  and `CanBus` account for.
- Two runtimes over one `can_bus`: a start that is refused with `kStopping` or
  `kFaulted` is taken for a partial start, so the second runtime would stop the
  first one's acquisition (`runtime.cpp:307`). Nothing in the repository says
  whether this use is meant; in `Runtime` a "foreign" source shows the same.
- The Python tools and the CI check the source tree and have no run-time
  behaviour.

-------------------------- MODULE NotificationChannel --------------------------
(***************************************************************************)
(* NotificationChannel<T, ChannelId> (notification_channel.hpp): a latest- *)
(* state channel with a fixed number of subscriber slots and one pending   *)
(* notice per slot.  Owners subscribe, start and stop it, publishers       *)
(* publish() readings, and tasks of the notification context run           *)
(* dispatch_pending(), which calls the callbacks outside the lock.         *)
(*                                                                         *)
(* A step is a critical section of mutex_.  A call that the channel        *)
(* refuses changes nothing and is no step; a callback may make any call,   *)
(* and only its publish() is accepted, which is a Publish step here.       *)
(* dispatching_ always equals callback_active_ and is not kept apart.      *)
(***************************************************************************)
EXTENDS Integers, Sequences

CONSTANTS
  SlotCount,          \* kNotificationSubscribersPerChannel
  Dispatchers,        \* tasks that call dispatch_one() and dispatch_pending()
  Readings,           \* the readings that are published
  Generations,        \* a generation is a number modulo Generations
  InitialGeneration,  \* of each slot: 0, or what earlier use has left
  MaxSubscriptions,   \* bound on the registrations of the channel
  MaxChanges          \* bound on the readings of one run, the first included

ASSUME SlotAssumption == SlotCount \in Nat \ {0}
ASSUME GenerationAssumption ==
  /\ Generations \in Nat \ {0, 1}
  /\ InitialGeneration \in 0 .. Generations - 1
ASSUME BoundAssumption ==
  /\ MaxSubscriptions \in 0 .. Generations - 1
  /\ MaxChanges \in Nat \ {0}

VARIABLES
  subscribers,              \* subscribers_
  current,                  \* current_
  has_available_period,     \* has_available_period_
  next_registration_order,  \* next_registration_order_
  dispatch_cursor_order,    \* dispatch_cursor_order_
  running,                  \* running_
  callback_active,          \* callback_active_ and dispatching_
  dispatcher,               \* the dispatch_pending() of each dispatcher
  issued,                   \* history: each handle with its registration
  published,                \* history: the readings current_ had in this run
  seen,                     \* history: how many of them a slot was told of
  ahead                     \* history: the slots that had a turn while this
                            \* one was pending

registry == <<next_registration_order, issued>>
reading == <<current, has_available_period, published>>
delivery == <<dispatch_cursor_order, callback_active, dispatcher>>
progress == <<seen, ahead>>
vars == <<subscribers, registry, reading, delivery, progress, running>>

Slots == 0 .. SlotCount - 1

\* Reading<T>{}.  The validation status of a reading distinguishes it like
\* its value does and is part of the value here.
NoReading == [value |-> "none", availability |-> "NoData"]

Available(r) ==
  r.value # "none" /\ r.availability \in {"Fresh", "FreshnessUnverified"}

Notices == [current : Readings \cup {NoReading}, initial : BOOLEAN,
            became_unavailable : BOOLEAN, recovered : BOOLEAN,
            coalesced : BOOLEAN]

\* Notification<T>{} with a current reading.
Notice(r) == [current |-> r, initial |-> FALSE, became_unavailable |-> FALSE,
              recovered |-> FALSE, coalesced |-> FALSE]

Handles == [slot : Slots, generation : 0 .. Generations - 1,
            order : 1 .. MaxSubscriptions]

\* A dispatcher in a callback remembers the registration it serves.  Its copy
\* of the notice is out of everybody's reach and is not kept.
Idle == [step |-> "idle", left |-> 0, slot |-> 0, order |-> 0]

TypeOK ==
  /\ subscribers \in [Slots -> [active : BOOLEAN,
                                generation : 0 .. Generations - 1,
                                registration_order : 0 .. MaxSubscriptions,
                                pending : BOOLEAN,
                                pending_initial_seed : BOOLEAN,
                                pending_notice : Notices]]
  /\ current \in Readings \cup {NoReading}
  /\ has_available_period \in BOOLEAN
  /\ next_registration_order \in 1 .. MaxSubscriptions + 1
  /\ dispatch_cursor_order \in 0 .. MaxSubscriptions
  /\ running \in BOOLEAN
  /\ callback_active \in BOOLEAN
  /\ dispatcher \in [Dispatchers ->
                       [step : {"idle", "dispatch", "callback"},
                        left : 0 .. SlotCount, slot : Slots,
                        order : 0 .. MaxSubscriptions]]
  /\ issued \subseteq Handles
  /\ published \in Seq(Readings \cup {NoReading})
  /\ seen \in [Slots -> 0 .. MaxChanges]
  /\ ahead \in [Slots -> SUBSET Slots]

Vacant == [active |-> FALSE, generation |-> InitialGeneration,
           registration_order |-> 0, pending |-> FALSE,
           pending_initial_seed |-> FALSE,
           pending_notice |-> Notice(NoReading)]

Init ==
  /\ subscribers = [s \in Slots |-> Vacant]
  /\ current = NoReading
  /\ has_available_period = FALSE
  /\ next_registration_order = 1
  /\ dispatch_cursor_order = 0
  /\ running = FALSE
  /\ callback_active = FALSE
  /\ dispatcher = [d \in Dispatchers |-> Idle]
  /\ issued = {}
  /\ published = << >>
  /\ seen = [s \in Slots |-> 0]
  /\ ahead = [s \in Slots |-> {}]

-----------------------------------------------------------------------------
(***************************************************************************)
(* subscribe() and unsubscribe(), accepted while stopped only.             *)
(***************************************************************************)
Quiescent == ~callback_active /\ ~running

FirstFree(s) == /\ ~subscribers[s].active
                /\ \A t \in Slots : t < s => subscribers[t].active

\* Bug: the generation of a slot does not wrap.
NextGenerationUnbounded(g) == g + 1

\* Bug: a slot is reused with the generation it had.
NextGenerationSame(g) == IF g = 0 THEN 1 ELSE g

\* 0 is the generation of no handle.
NextGeneration(g) == IF (g + 1) % Generations = 0 THEN 1 ELSE g + 1

Subscribe(s) ==
  /\ Quiescent
  /\ FirstFree(s)
  /\ next_registration_order <= MaxSubscriptions
  /\ LET generation == NextGeneration(subscribers[s].generation) IN
       /\ subscribers' = [subscribers EXCEPT ![s] =
            [Vacant EXCEPT !.active = TRUE,
                           !.generation = generation,
                           !.registration_order = next_registration_order]]
       /\ issued' = issued \cup {[slot |-> s, generation |-> generation,
                                  order |-> next_registration_order]}
  /\ next_registration_order' = next_registration_order + 1
  /\ UNCHANGED <<reading, delivery, progress, running>>

\* find_subscriber()
Finds(h) == /\ subscribers[h.slot].active
            /\ subscribers[h.slot].generation = h.generation

\* A handle is a value: its owner may keep it for ever and use it again.
Unsubscribe(h) ==
  /\ Quiescent
  /\ Finds(h)
  /\ subscribers' = [subscribers EXCEPT ![h.slot] =
       [Vacant EXCEPT !.generation = subscribers[h.slot].generation]]
  /\ UNCHANGED <<registry, reading, delivery, progress, running>>

-----------------------------------------------------------------------------
(***************************************************************************)
(* start() and stop()                                                      *)
(***************************************************************************)
\* Bug: only the subscribers with a notice left over start with one.
SeedKeepsPending(s) ==
  [subscribers[s] EXCEPT
     !.pending_initial_seed = TRUE,
     !.pending_notice = [Notice(NoReading) EXCEPT !.initial = TRUE]]

\* Every active subscriber starts with an initial notice.
Seed(s) ==
  [subscribers[s] EXCEPT
     !.pending = subscribers[s].active,
     !.pending_initial_seed = TRUE,
     !.pending_notice = [Notice(NoReading) EXCEPT !.initial = TRUE]]

Start ==
  /\ Quiescent
  /\ running' = TRUE
  /\ dispatch_cursor_order' = 0
  /\ current' = NoReading
  /\ has_available_period' = FALSE
  /\ subscribers' = [s \in Slots |-> Seed(s)]
  /\ published' = <<NoReading>>
  /\ seen' = [s \in Slots |-> 0]
  /\ ahead' = [s \in Slots |-> {}]
  /\ UNCHANGED <<registry, callback_active, dispatcher>>

\* Bug: stop() does not look for a callback in progress.
MayStopAnyTime == running

MayStop == running /\ ~callback_active

Stop ==
  /\ MayStop
  /\ running' = FALSE
  /\ has_available_period' = FALSE
  /\ subscribers' = [s \in Slots |->
       [subscribers[s] EXCEPT !.pending = FALSE,
                              !.pending_initial_seed = FALSE,
                              !.pending_notice = Notice(NoReading)]]
  /\ UNCHANGED <<registry, current, delivery, progress, published>>

-----------------------------------------------------------------------------
(***************************************************************************)
(* publish()                                                               *)
(***************************************************************************)
Update(r) ==
  [Notice(r) EXCEPT
     !.became_unavailable = Available(current) /\ ~Available(r),
     !.recovered = ~Available(current) /\ Available(r)
                     /\ has_available_period]

\* Bug: the newest transition replaces the ones not yet delivered.
MergePendingLast(subscriber, update) ==
  IF ~subscriber.pending
  THEN [subscriber EXCEPT !.pending = TRUE, !.pending_initial_seed = FALSE,
                          !.pending_notice = update]
  ELSE [subscriber EXCEPT
          !.pending_initial_seed = FALSE,
          !.pending_notice =
             [update EXCEPT
                !.initial = subscriber.pending_notice.initial,
                !.coalesced = subscriber.pending_notice.coalesced
                                \/ ~subscriber.pending_initial_seed]]

\* merge_pending(): the initial notice absorbs the first reading without
\* counting as coalesced.
MergePending(subscriber, update) ==
  LET notice == subscriber.pending_notice IN
  IF ~subscriber.pending
  THEN [subscriber EXCEPT !.pending = TRUE, !.pending_initial_seed = FALSE,
                          !.pending_notice = update]
  ELSE [subscriber EXCEPT
          !.pending_initial_seed = FALSE,
          !.pending_notice =
             [current |-> update.current,
              initial |-> notice.initial,
              became_unavailable |-> \/ notice.became_unavailable
                                     \/ update.became_unavailable,
              recovered |-> notice.recovered \/ update.recovered,
              coalesced |-> \/ notice.coalesced
                            \/ ~subscriber.pending_initial_seed]]

\* A reading equal to the current one is accepted and changes nothing.
Publish(r) ==
  /\ running
  /\ r # current
  /\ Len(published) < MaxChanges
  /\ current' = r
  /\ has_available_period' = (has_available_period \/ Available(r))
  /\ subscribers' = [s \in Slots |->
       IF subscribers[s].active THEN MergePending(subscribers[s], Update(r))
                                ELSE subscribers[s]]
  /\ published' = Append(published, r)
  /\ UNCHANGED <<registry, delivery, progress, running>>

-----------------------------------------------------------------------------
(***************************************************************************)
(* dispatch_pending(max_callbacks), of which dispatch_one() is one turn:   *)
(* a notice is detached under the lock, its callback runs without it, and  *)
(* the lock is taken again to leave the dispatch.                          *)
(***************************************************************************)
Waiting(s) == subscribers[s].active /\ subscribers[s].pending
Order(s) == subscribers[s].registration_order

\* Bug: the oldest registration with a notice always comes first.
SelectedOldest(s) ==
  Waiting(s) /\ \A t \in Slots : Waiting(t) => Order(s) <= Order(t)

\* next_pending_subscriber(): the first one after the cursor, or the first
\* one of all.
Selected(s) ==
  /\ Waiting(s)
  /\ \/ /\ Order(s) > dispatch_cursor_order
        /\ \A t \in Slots : Waiting(t) /\ Order(t) > dispatch_cursor_order
                              => Order(s) <= Order(t)
     \/ \A t \in Slots : Waiting(t) => /\ Order(t) <= dispatch_cursor_order
                                       /\ Order(s) <= Order(t)

DispatchCall(d) ==
  /\ dispatcher[d].step = "idle"
  /\ \E max_callbacks \in 1 .. SlotCount :
       dispatcher' = [dispatcher EXCEPT ![d] =
         [Idle EXCEPT !.step = "dispatch", !.left = max_callbacks]]
  /\ UNCHANGED <<subscribers, registry, reading, dispatch_cursor_order,
                 callback_active, progress, running>>

\* Bug: a dispatch does not look for another one in progress.
MayDispatchAlongside == running

MayDispatch == running /\ ~callback_active

Detached(s) == [subscribers[s] EXCEPT !.pending = FALSE,
                                      !.pending_initial_seed = FALSE]

Detach(d, s) ==
  /\ dispatcher[d].step = "dispatch"
  /\ dispatcher[d].left > 0
  /\ MayDispatch
  /\ Selected(s)
  /\ dispatch_cursor_order' = Order(s)
  /\ callback_active' = TRUE
  /\ dispatcher' = [dispatcher EXCEPT ![d] =
       [step |-> "callback", left |-> dispatcher[d].left, slot |-> s,
        order |-> Order(s)]]
  /\ subscribers' = [subscribers EXCEPT ![s] = Detached(s)]
  /\ seen' = [seen EXCEPT ![s] = Len(published)]
  /\ ahead' = [t \in Slots |-> IF t # s /\ Waiting(t) THEN ahead[t] \cup {s}
                               ELSE {}]
  /\ UNCHANGED <<registry, reading, running>>

\* Bug: a dispatch that has ended still counts as in progress.
StillActive == TRUE

ActiveAfterCallback == FALSE

CallbackReturns(d) ==
  /\ dispatcher[d].step = "callback"
  /\ callback_active' = ActiveAfterCallback
  /\ dispatcher' = [dispatcher EXCEPT ![d] =
       [Idle EXCEPT !.step = "dispatch", !.left = dispatcher[d].left - 1]]
  /\ UNCHANGED <<subscribers, registry, reading, dispatch_cursor_order,
                 progress, running>>

\* The pass is over, or dispatch_one() returned NotRunning, InvalidState or
\* NoPending.
DispatchEnds(d) ==
  /\ dispatcher[d].step = "dispatch"
  /\ \/ dispatcher[d].left = 0
     \/ ~MayDispatch
     \/ \A s \in Slots : ~Waiting(s)
  /\ dispatcher' = [dispatcher EXCEPT ![d] = Idle]
  /\ UNCHANGED <<subscribers, registry, reading, dispatch_cursor_order,
                 callback_active, progress, running>>

-----------------------------------------------------------------------------
Dispatch(d) == \/ \E s \in Slots : Detach(d, s)
               \/ CallbackReturns(d)
               \/ DispatchEnds(d)

Next == \/ \E s \in Slots : Subscribe(s)
        \/ \E h \in issued : Unsubscribe(h)
        \/ Start
        \/ Stop
        \/ \E r \in Readings : Publish(r)
        \/ \E d \in Dispatchers : DispatchCall(d) \/ Dispatch(d)

Spec == Init /\ [][Next]_vars

(***************************************************************************)
(* The owner dispatches from its notification context again and again, and *)
(* callbacks return: "The callback ABI is noexcept by contract".           *)
(***************************************************************************)
Fairness == \A d \in Dispatchers : WF_vars(DispatchCall(d))
                                     /\ WF_vars(Dispatch(d))

FairSpec == Spec /\ Fairness

-----------------------------------------------------------------------------
(***************************************************************************)
(* Properties.                                                             *)
(***************************************************************************)
InCallback(d) == dispatcher[d].step = "callback"

\* Callbacks never overlap, although they run outside the lock and several
\* tasks may dispatch, and the flag that keeps the owner out is set for as
\* long as one runs (notification_channel.hpp:276-278, 297-301).
OneCallbackAtATime ==
  /\ \A d, e \in Dispatchers : InCallback(d) /\ InCallback(e) => d = e
  /\ callback_active <=> \E d \in Dispatchers : InCallback(d)

\* "The quiescence boundary" (notification_channel.hpp:190-192): while a
\* callback runs the channel is running and its subscription still exists, so
\* that no context is used after unsubscribe() returned Ok.
CallbackWithinSubscription ==
  \A d \in Dispatchers : InCallback(d) =>
    /\ running
    /\ subscribers[dispatcher[d].slot].active
    /\ Order(dispatcher[d].slot) = dispatcher[d].order

\* A handle that is still accepted names the subscription it was issued for,
\* never a later one in the same slot, generations that wrap included.
HandleNamesOneSubscription ==
  \A h \in issued : Finds(h) => Order(h.slot) = h.order

(***************************************************************************)
(* What a subscriber missed, from the readings of the run: the ones after  *)
(* those it was told of, the first reading being where a run begins.       *)
(***************************************************************************)
Base(s) == IF seen[s] = 0 THEN 1 ELSE seen[s]
Missed(s) == Base(s) + 1 .. Len(published)
Lost(i) == Available(published[i - 1]) /\ ~Available(published[i])
Recovered(i) == /\ ~Available(published[i - 1])
                /\ Available(published[i])
                /\ \E j \in 1 .. i - 1 : Available(published[j])

\* No change is lost and none is told twice: a subscriber has a notice
\* pending exactly when it has not been told of the latest reading.
PendingIffBehind ==
  running => \A s \in Slots : subscribers[s].active =>
    (subscribers[s].pending <=> seen[s] < Len(published))

\* A pending notice is the summary of everything its subscriber missed,
\* however many readings were merged into it and whenever the last callback
\* took its own: no transition is lost in the merge and none is invented.
PendingSummarises ==
  running => \A s \in Slots : Waiting(s) =>
    LET notice == subscribers[s].pending_notice IN
      /\ notice.current = published[Len(published)]
      /\ notice.initial <=> seen[s] = 0
      /\ notice.became_unavailable <=> \E i \in Missed(s) : Lost(i)
      /\ notice.recovered <=> \E i \in Missed(s) : Recovered(i)
      /\ notice.coalesced <=> Len(published) > Base(s) + 1

\* "A callback that keeps publishing cannot starve an earlier subscriber"
\* (notification_channel.hpp:377-379): while a subscriber waits nobody gets
\* a second turn, so it waits for at most one turn of each other.
FairTurns ==
  \A r, s \in Slots : Selected(r) /\ Waiting(s) => r \notin ahead[s]

\* Every pending notice is delivered, unless the channel is stopped.
EventuallyNotified ==
  \A s \in Slots : subscribers[s].pending ~> ~subscribers[s].pending
=============================================================================

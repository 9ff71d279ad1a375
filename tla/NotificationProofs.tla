-------------------------- MODULE NotificationProofs --------------------------
(***************************************************************************)
(* Theorems about NotificationChannel, for every number of slots and of    *)
(* dispatching tasks, every set of readings and every bound.               *)
(***************************************************************************)
EXTENDS NotificationChannel, TLAPS

\* The argument needs these facts about a running channel: what it keeps of
\* the readings of the run,
ReadingInv ==
  running =>
    /\ published # << >>
    /\ Len(published) <= MaxChanges
    /\ current = published[Len(published)]
    /\ has_available_period <=>
         \E j \in 1 .. Len(published) : Available(published[j])

\* that nobody was told of more than there is,
SeenInv == running => \A s \in Slots : seen[s] <= Len(published)

\* that a notice is an untouched seed while there is but the first reading,
SeedInv ==
  running => \A s \in Slots : Waiting(s) =>
    (subscribers[s].pending_initial_seed <=> Len(published) = 1)

\* that registrations are numbered without repetition,
OrderInv ==
  /\ \A s \in Slots : subscribers[s].active =>
       /\ Order(s) < next_registration_order
       /\ \A t \in Slots : subscribers[t].active /\ Order(t) = Order(s)
                             => t = s
  /\ ~running => \A s \in Slots : ~subscribers[s].pending

\* and that, going round from the cursor, a waiting slot comes before every
\* slot that had a turn while it waited.
After(r, s) ==
  \/ /\ Order(s) < dispatch_cursor_order
     /\ Order(s) < Order(r)
     /\ Order(r) <= dispatch_cursor_order
  \/ /\ dispatch_cursor_order < Order(s)
     /\ Order(r) > Order(s) \/ Order(r) <= dispatch_cursor_order

TurnInv ==
  running => \A s \in Slots :
    /\ ~Waiting(s) => ahead[s] = {}
    /\ Waiting(s) => \A r \in ahead[s] : After(r, s)

\* A callback is one of those that its dispatch_pending() may still make.
CallbackInv ==
  /\ OneCallbackAtATime
  /\ CallbackWithinSubscription
  /\ \A d \in Dispatchers : InCallback(d) => dispatcher[d].left > 0

Subscriber == [active : BOOLEAN, generation : 0 .. Generations - 1,
               registration_order : 0 .. MaxSubscriptions,
               pending : BOOLEAN, pending_initial_seed : BOOLEAN,
               pending_notice : Notices]

-----------------------------------------------------------------------------
\* What the operators of the channel return.

\* The next generation of a slot stays within its width.
LEMMA GenerationsWrap ==
  ASSUME NEW g \in 0 .. Generations - 1
  PROVE  NextGeneration(g) \in 0 .. Generations - 1
<1>1. CASE g + 1 = Generations
  <2>1. (g + 1) % Generations = 0
    BY <1>1, GenerationAssumption
  <2> QED
    BY <2>1, GenerationAssumption DEF NextGeneration
<1>2. CASE g + 1 # Generations
  BY <1>2, GenerationAssumption DEF NextGeneration
<1> QED
  BY <1>1, <1>2

\* The notices that are seeded and published are notices.
LEMMA NoticeType ==
  ASSUME NEW r \in Readings \cup {NoReading}
  PROVE  /\ Notice(r) \in Notices
         /\ Update(r) \in Notices
         /\ [Notice(NoReading) EXCEPT !.initial = TRUE] \in Notices
BY DEF Notice, Notices, Update

\* A slot that is reset is a subscriber.
LEMMA VacantType == Vacant \in Subscriber
<1>1. Notice(NoReading) \in Notices
  BY NoticeType
<1> QED
  BY <1>1, BoundAssumption, GenerationAssumption DEF Vacant, Subscriber

\* Merging an update into the pending notice of a subscriber keeps its type.
LEMMA MergeType ==
  ASSUME NEW subscriber \in Subscriber, NEW update \in Notices
  PROVE  MergePending(subscriber, update) \in Subscriber
<1> DEFINE notice == subscriber.pending_notice
           merged == [current |-> update.current,
                      initial |-> notice.initial,
                      became_unavailable |-> \/ notice.became_unavailable
                                             \/ update.became_unavailable,
                      recovered |-> notice.recovered \/ update.recovered,
                      coalesced |-> \/ notice.coalesced
                                    \/ ~subscriber.pending_initial_seed]
<1>1. notice \in Notices
  BY DEF Subscriber
<1>2. merged \in Notices
  BY <1>1 DEF Notices
<1>3. CASE ~subscriber.pending
  BY <1>3 DEF MergePending, Subscriber
<1>4. CASE subscriber.pending
  BY <1>2, <1>4 DEF MergePending, Subscriber
<1> QED
  BY <1>3, <1>4

\* Merging touches only what is pending, and leaves no seed.
LEMMA MergeFields ==
  ASSUME NEW subscriber \in Subscriber, NEW update \in Notices
  PROVE  /\ MergePending(subscriber, update).active = subscriber.active
         /\ MergePending(subscriber, update).registration_order
              = subscriber.registration_order
         /\ MergePending(subscriber, update).pending = TRUE
         /\ MergePending(subscriber, update).pending_initial_seed = FALSE
<1>1. CASE ~subscriber.pending
  BY <1>1 DEF MergePending, Subscriber
<1>2. CASE subscriber.pending
  BY <1>2 DEF MergePending, Subscriber
<1> QED
  BY <1>1, <1>2

-----------------------------------------------------------------------------
\* The types.

\* Every step leaves each slot a subscriber.
LEMMA SubscribersKeepType ==
  ASSUME TypeOK, Next
  PROVE  subscribers' \in [Slots -> Subscriber]
<1> DEFINE Typed == subscribers \in [Slots -> Subscriber]
<1>1. Typed
  BY DEF TypeOK, Subscriber
<1>2. ASSUME NEW s \in Slots, Subscribe(s)
      PROVE  subscribers' \in [Slots -> Subscriber]
  <2> DEFINE generation == NextGeneration(subscribers[s].generation)
             new == [Vacant EXCEPT
                       !.active = TRUE, !.generation = generation,
                       !.registration_order = next_registration_order]
  <2>1. generation \in 0 .. Generations - 1
    BY <1>1, GenerationsWrap DEF Subscriber
  <2>2. next_registration_order \in 0 .. MaxSubscriptions
    BY <1>2, BoundAssumption DEF Subscribe, TypeOK
  <2>3. new \in Subscriber
    BY <2>1, <2>2, VacantType DEF Subscriber
  <2>4. subscribers' = [subscribers EXCEPT ![s] = new]
    BY <1>2 DEF Subscribe
  <2> QED
    BY <1>1, <2>3, <2>4
<1>3. ASSUME NEW h \in issued, Unsubscribe(h)
      PROVE  subscribers' \in [Slots -> Subscriber]
  <2>1. h.slot \in Slots
    BY DEF TypeOK, Handles
  <2>2. [Vacant EXCEPT !.generation = subscribers[h.slot].generation]
          \in Subscriber
    BY <1>1, <2>1, VacantType DEF Subscriber
  <2> QED
    BY <1>1, <1>3, <2>1, <2>2 DEF Unsubscribe
<1>4. CASE Start
  <2>1. ASSUME NEW s \in Slots PROVE Seed(s) \in Subscriber
    BY <1>1, NoticeType DEF Seed, Subscriber
  <2> QED
    BY <1>4, <2>1 DEF Start
<1>5. CASE Stop
  <2>1. ASSUME NEW s \in Slots
        PROVE  [subscribers[s] EXCEPT
                  !.pending = FALSE, !.pending_initial_seed = FALSE,
                  !.pending_notice = Notice(NoReading)] \in Subscriber
    BY <1>1, NoticeType DEF Subscriber
  <2> QED
    BY <1>5, <2>1 DEF Stop
<1>6. ASSUME NEW r \in Readings, Publish(r)
      PROVE  subscribers' \in [Slots -> Subscriber]
  <2>1. ASSUME NEW s \in Slots
        PROVE  MergePending(subscribers[s], Update(r)) \in Subscriber
    BY <1>1, MergeType, NoticeType
  <2> QED
    BY <1>1, <1>6, <2>1 DEF Publish
<1>7. ASSUME NEW d \in Dispatchers, NEW s \in Slots, Detach(d, s)
      PROVE  subscribers' \in [Slots -> Subscriber]
  <2>1. Detached(s) \in Subscriber
    BY <1>1 DEF Detached, Subscriber
  <2> QED
    BY <1>1, <1>7, <2>1 DEF Detach
<1>8. ASSUME NEW d \in Dispatchers,
             DispatchCall(d) \/ CallbackReturns(d) \/ DispatchEnds(d)
      PROVE  subscribers' \in [Slots -> Subscriber]
  BY <1>1, <1>8 DEF DispatchCall, CallbackReturns, DispatchEnds
<1> QED
  BY <1>2, <1>3, <1>4, <1>5, <1>6, <1>7, <1>8 DEF Next, Dispatch

\* Every step preserves the types; the counters stay within their bounds
\* because a run has no more readings than MaxChanges.
LEMMA TypePreserved ==
  ASSUME TypeOK, ReadingInv, CallbackInv, Next
  PROVE  TypeOK'
<1> DEFINE Rest == /\ current \in Readings \cup {NoReading}
                   /\ has_available_period \in BOOLEAN
                   /\ next_registration_order \in 1 .. MaxSubscriptions + 1
                   /\ dispatch_cursor_order \in 0 .. MaxSubscriptions
                   /\ running \in BOOLEAN
                   /\ callback_active \in BOOLEAN
                   /\ published \in Seq(Readings \cup {NoReading})
                   /\ seen \in [Slots -> 0 .. MaxChanges]
                   /\ ahead \in [Slots -> SUBSET Slots]
           Dispatching == dispatcher \in
             [Dispatchers -> [step : {"idle", "dispatch", "callback"},
                              left : 0 .. SlotCount, slot : Slots,
                              order : 0 .. MaxSubscriptions]]
<1>1. /\ subscribers \in [Slots -> Subscriber]
      /\ Rest
      /\ Dispatching
      /\ issued \subseteq Handles
  BY DEF TypeOK, Subscriber
<1>2. SUFFICES Rest' /\ Dispatching' /\ issued' \subseteq Handles
  BY SubscribersKeepType DEF TypeOK, Subscriber
<1>3. ASSUME NEW s \in Slots, Subscribe(s)
      PROVE  Rest' /\ Dispatching' /\ issued' \subseteq Handles
  <2>1. NextGeneration(subscribers[s].generation) \in 0 .. Generations - 1
    BY <1>1, GenerationsWrap DEF Subscriber
  <2>2. next_registration_order \in 1 .. MaxSubscriptions
    BY <1>1, <1>3, BoundAssumption DEF Subscribe
  <2>3. issued' \subseteq Handles
    BY <1>1, <1>3, <2>1, <2>2 DEF Subscribe, Handles
  <2>4. next_registration_order' \in 1 .. MaxSubscriptions + 1
    BY <1>3, <2>2, BoundAssumption DEF Subscribe
  <2> QED
    BY <1>1, <1>3, <2>3, <2>4 DEF Subscribe, reading, delivery, progress
<1>4. ASSUME NEW h \in issued, Unsubscribe(h)
      PROVE  Rest' /\ Dispatching' /\ issued' \subseteq Handles
  BY <1>1, <1>4 DEF Unsubscribe, registry, reading, delivery, progress
<1>5. CASE Start
  <2>1. published' \in Seq(Readings \cup {NoReading})
    BY <1>5 DEF Start
  <2>2. 0 \in 0 .. MaxChanges /\ 0 \in 0 .. MaxSubscriptions
    BY BoundAssumption, GenerationAssumption
  <2> QED
    BY <1>1, <1>5, <2>1, <2>2 DEF Start, registry
<1>6. CASE Stop
  BY <1>1, <1>6 DEF Stop, registry, delivery, progress
<1>7. ASSUME NEW r \in Readings, Publish(r)
      PROVE  Rest' /\ Dispatching' /\ issued' \subseteq Handles
  <2>1. has_available_period' \in BOOLEAN
    BY <1>1, <1>7 DEF Publish
  <2>2. published' \in Seq(Readings \cup {NoReading})
    BY <1>1, <1>7 DEF Publish
  <2> QED
    BY <1>1, <1>7, <2>1, <2>2 DEF Publish, registry, delivery, progress
<1>8. ASSUME NEW d \in Dispatchers, NEW s \in Slots, Detach(d, s)
      PROVE  Rest' /\ Dispatching' /\ issued' \subseteq Handles
  <2>1. Order(s) \in 0 .. MaxSubscriptions
    BY <1>1 DEF Order, Subscriber
  <2>2. Len(published) \in 0 .. MaxChanges
    BY <1>1, <1>8, BoundAssumption DEF Detach, MayDispatch, ReadingInv
  <2>3. seen' \in [Slots -> 0 .. MaxChanges]
    BY <1>1, <1>8, <2>2 DEF Detach
  <2>4. ahead' \in [Slots -> SUBSET Slots]
    BY <1>1, <1>8 DEF Detach
  <2>5. Dispatching'
    BY <1>1, <1>8, <2>1 DEF Detach
  <2> QED
    BY <1>1, <1>8, <2>1, <2>3, <2>4, <2>5 DEF Detach, registry, reading
<1>9. ASSUME NEW d \in Dispatchers,
             DispatchCall(d) \/ CallbackReturns(d) \/ DispatchEnds(d)
      PROVE  Rest' /\ Dispatching' /\ issued' \subseteq Handles
  <2>1. Idle \in [step : {"idle", "dispatch", "callback"},
                  left : 0 .. SlotCount, slot : Slots,
                  order : 0 .. MaxSubscriptions]
    BY SlotAssumption, BoundAssumption, GenerationAssumption DEF Idle, Slots
  <2>2. CASE DispatchCall(d)
    <3>1. PICK max_callbacks \in 1 .. SlotCount :
            dispatcher' = [dispatcher EXCEPT ![d] =
              [Idle EXCEPT !.step = "dispatch", !.left = max_callbacks]]
      BY <2>2 DEF DispatchCall
    <3>2. [Idle EXCEPT !.step = "dispatch", !.left = max_callbacks]
            \in [step : {"idle", "dispatch", "callback"},
                left : 0 .. SlotCount, slot : Slots,
                order : 0 .. MaxSubscriptions]
      <4>1. max_callbacks \in 0 .. SlotCount
        BY SlotAssumption
      <4> QED
        BY <2>1, <4>1
    <3>3. Dispatching'
      BY <1>1, <3>1, <3>2
    <3> QED
      BY <1>1, <2>2, <3>3 DEF DispatchCall, registry, reading, progress
  <2>3. CASE CallbackReturns(d)
    <3>1. dispatcher[d].left - 1 \in 0 .. SlotCount
      <4>1. dispatcher[d].left > 0
        BY <2>3 DEF CallbackReturns, CallbackInv, InCallback
      <4>2. dispatcher[d].left \in 0 .. SlotCount
        BY <1>1
      <4> QED
        BY <4>1, <4>2, SlotAssumption
    <3>2. [Idle EXCEPT !.step = "dispatch", !.left = dispatcher[d].left - 1]
            \in [step : {"idle", "dispatch", "callback"},
                left : 0 .. SlotCount, slot : Slots,
                order : 0 .. MaxSubscriptions]
      BY <2>1, <3>1
    <3>3. Dispatching'
      BY <1>1, <2>3, <3>2 DEF CallbackReturns
    <3> QED
      BY <1>1, <2>3, <3>3
         DEF CallbackReturns, ActiveAfterCallback, registry, reading, progress
  <2>4. CASE DispatchEnds(d)
    BY <1>1, <2>1, <2>4 DEF DispatchEnds, registry, reading, progress
  <2> QED
    BY <1>9, <2>2, <2>3, <2>4
<1> QED
  BY <1>3, <1>4, <1>5, <1>6, <1>7, <1>8, <1>9 DEF Next, Dispatch

-----------------------------------------------------------------------------
\* What a step leaves of a subscriber.
LEMMA PublishFields ==
  ASSUME TypeOK, NEW r \in Readings, Publish(r), NEW s \in Slots
  PROVE  /\ subscribers'[s].active = subscribers[s].active
         /\ subscribers'[s].registration_order = Order(s)
         /\ subscribers[s].active =>
              /\ subscribers'[s].pending = TRUE
              /\ subscribers'[s].pending_initial_seed = FALSE
              /\ subscribers'[s] = MergePending(subscribers[s], Update(r))
         /\ ~subscribers[s].active => subscribers'[s] = subscribers[s]
<1>1. subscribers[s] \in Subscriber /\ Update(r) \in Notices
  BY NoticeType DEF TypeOK, Subscriber
<1>2. CASE subscribers[s].active
  <2>1. subscribers'[s] = MergePending(subscribers[s], Update(r))
    BY <1>2 DEF Publish
  <2> QED
    <3> DEFINE merged == MergePending(subscribers[s], Update(r))
    <3>1. /\ merged.active = subscribers[s].active
          /\ merged.registration_order = subscribers[s].registration_order
          /\ merged.pending = TRUE
          /\ merged.pending_initial_seed = FALSE
      BY <1>1, MergeFields
    <3>2. subscribers'[s] = merged
      BY <2>1
    <3> HIDE DEF merged
    <3>3. /\ subscribers'[s].active = subscribers[s].active
          /\ subscribers'[s].registration_order = Order(s)
          /\ subscribers'[s].pending = TRUE
          /\ subscribers'[s].pending_initial_seed = FALSE
      BY <3>1, <3>2 DEF Order
    <3> QED
      BY <1>2, <2>1, <3>3
<1>3. CASE ~subscribers[s].active
  BY <1>3 DEF Publish, Order
<1> QED
  BY <1>2, <1>3

\* Detaching a notice changes nothing else of any subscriber.
LEMMA DetachFields ==
  ASSUME TypeOK, NEW d \in Dispatchers, NEW s \in Slots, Detach(d, s),
         NEW t \in Slots
  PROVE  /\ subscribers'[t].active = subscribers[t].active
         /\ subscribers'[t].registration_order = Order(t)
         /\ t # s => subscribers'[t] = subscribers[t]
         /\ subscribers'[s].pending = FALSE
<1>1. subscribers \in [Slots -> Subscriber]
  BY DEF TypeOK, Subscriber
<1>2. subscribers' = [subscribers EXCEPT ![s] = Detached(s)]
  BY DEF Detach
<1>3. /\ Detached(s).active = subscribers[s].active
      /\ Detached(s).registration_order = subscribers[s].registration_order
      /\ Detached(s).pending = FALSE
  BY <1>1 DEF Detached, Subscriber
<1> QED
  BY <1>1, <1>2, <1>3 DEF Order

\* Callbacks do not overlap and do not outlive their subscription: the owner
\* and the other dispatchers are kept out by callback_active_.
LEMMA CallbackPreserved ==
  ASSUME TypeOK, CallbackInv, Next
  PROVE  CallbackInv'
<1> USE DEF CallbackInv, OneCallbackAtATime, CallbackWithinSubscription,
            InCallback
<1>1. CASE ~callback_active /\ ~callback_active'
           /\ UNCHANGED dispatcher
  BY <1>1
<1>2. ASSUME NEW s \in Slots, Subscribe(s) PROVE CallbackInv'
  BY <1>1, <1>2 DEF Subscribe, Quiescent, delivery
<1>3. ASSUME NEW h \in issued, Unsubscribe(h) PROVE CallbackInv'
  BY <1>1, <1>3 DEF Unsubscribe, Quiescent, delivery
<1>4. CASE Start
  BY <1>1, <1>4 DEF Start, Quiescent
<1>5. CASE Stop
  BY <1>1, <1>5 DEF Stop, MayStop, delivery
<1>6. ASSUME NEW r \in Readings, Publish(r) PROVE CallbackInv'
  <2>1. UNCHANGED <<running, callback_active, dispatcher>>
    BY <1>6 DEF Publish, delivery
  <2>2. \A d \in Dispatchers : dispatcher[d].slot \in Slots
    BY DEF TypeOK
  <2> QED
    BY <1>6, <2>1, <2>2, PublishFields DEF Order
<1>7. ASSUME NEW d \in Dispatchers, NEW s \in Slots, Detach(d, s)
      PROVE  CallbackInv'
  <2>1. ~callback_active /\ callback_active' /\ running /\ running'
    BY <1>7 DEF Detach, MayDispatch
  <2>2. /\ dispatcher'[d] = [step |-> "callback", left |-> dispatcher[d].left,
                             slot |-> s, order |-> Order(s)]
        /\ \A e \in Dispatchers : e # d => dispatcher'[e] = dispatcher[e]
    BY <1>7 DEF Detach, TypeOK
  <2>3. \A e \in Dispatchers : InCallback(e)' <=> e = d
    BY <2>1, <2>2
  <2>4. subscribers'[s].active /\ subscribers'[s].registration_order = Order(s)
    BY <1>7, DetachFields DEF Detach, Selected, Waiting
  <2>5. dispatcher'[d].left > 0
    BY <1>7, <2>2 DEF Detach
  <2> QED
    <3>1. OneCallbackAtATime'
      BY <2>1, <2>3
    <3>2. CallbackWithinSubscription'
      BY <2>1, <2>2, <2>3, <2>4 DEF Order
    <3> QED
      BY <2>3, <2>5, <3>1, <3>2
<1>8. ASSUME NEW d \in Dispatchers, CallbackReturns(d) PROVE CallbackInv'
  <2>1. \A e \in Dispatchers : ~InCallback(e)'
    BY <1>8 DEF CallbackReturns, TypeOK
  <2>2. ~callback_active'
    BY <1>8 DEF CallbackReturns, ActiveAfterCallback
  <2> QED
    BY <2>1, <2>2
<1>9. ASSUME NEW d \in Dispatchers, DispatchCall(d) \/ DispatchEnds(d)
      PROVE  CallbackInv'
  <2>1. UNCHANGED <<subscribers, running, callback_active>>
    BY <1>9 DEF DispatchCall, DispatchEnds
  <2>2. /\ ~InCallback(d) /\ ~InCallback(d)'
        /\ \A e \in Dispatchers : e # d => dispatcher'[e] = dispatcher[e]
    <3>1. dispatcher \in [Dispatchers ->
                            [step : {"idle", "dispatch", "callback"},
                             left : 0 .. SlotCount, slot : Slots,
                             order : 0 .. MaxSubscriptions]]
      BY DEF TypeOK
    <3>2. CASE DispatchCall(d)
      <4>1. PICK max_callbacks \in 1 .. SlotCount :
              dispatcher' = [dispatcher EXCEPT ![d] =
                [Idle EXCEPT !.step = "dispatch", !.left = max_callbacks]]
        BY <3>2 DEF DispatchCall
      <4>2. dispatcher[d].step = "idle"
        BY <3>2 DEF DispatchCall
      <4> QED
        BY <3>1, <4>1, <4>2 DEF Idle
    <3>3. CASE DispatchEnds(d)
      BY <3>1, <3>3 DEF DispatchEnds, Idle
    <3> QED
      BY <1>9, <3>2, <3>3
  <2>3. \A e \in Dispatchers : InCallback(e)' <=> InCallback(e)
    BY <2>2
  <2>4. \A e \in Dispatchers :
          InCallback(e)' => dispatcher'[e] = dispatcher[e]
    BY <2>2
  <2> QED
    BY <2>1, <2>3, <2>4 DEF Order
<1> QED
  BY <1>2, <1>3, <1>4, <1>5, <1>6, <1>7, <1>8, <1>9 DEF Next, Dispatch

-----------------------------------------------------------------------------
\* The readings of the run.

\* publish() appends to the readings of the run.
LEMMA PublishedGrows ==
  ASSUME TypeOK, NEW r \in Readings, Publish(r)
  PROVE  /\ Len(published) \in Nat
         /\ Len(published') = Len(published) + 1
         /\ published'[Len(published) + 1] = r
         /\ \A i \in 1 .. Len(published) : published'[i] = published[i]
BY DEF TypeOK, Publish

\* current_ and has_available_period_ agree with the readings of the run.
LEMMA ReadingPreserved ==
  ASSUME TypeOK, ReadingInv, Next
  PROVE  ReadingInv'
<1>1. CASE UNCHANGED <<reading, running>>
  BY <1>1 DEF reading, ReadingInv
<1>2. CASE Start
  <2>1. published' = <<NoReading>> /\ ~has_available_period'
    BY <1>2 DEF Start
  <2>2. ~Available(NoReading)
    BY DEF Available, NoReading
  <2>3. Len(published') = 1 /\ published'[1] = NoReading
    BY <2>1
  <2>4. \A j \in 1 .. Len(published') : ~Available(published'[j])
    BY <2>2, <2>3
  <2>5. current' = published'[Len(published')]
    BY <1>2, <2>3 DEF Start
  <2> QED
    BY <2>1, <2>3, <2>4, <2>5, BoundAssumption DEF ReadingInv
<1>3. CASE Stop
  BY <1>3 DEF Stop, ReadingInv
<1>4. ASSUME NEW r \in Readings, Publish(r) PROVE ReadingInv'
  <2>1. running /\ Len(published) < MaxChanges /\ current' = r
    BY <1>4 DEF Publish
  <2>2. has_available_period' <=> has_available_period \/ Available(r)
    BY <1>4 DEF Publish
  <2>3. published' # << >> /\ Len(published') <= MaxChanges
    BY <1>4, <2>1, PublishedGrows, BoundAssumption
  <2>4. current' = published'[Len(published')]
    BY <1>4, <2>1, PublishedGrows
  <2>5. (\E j \in 1 .. Len(published') : Available(published'[j]))
          <=> \/ \E j \in 1 .. Len(published) : Available(published[j])
              \/ Available(r)
    <3>1. \A j : j \in 1 .. Len(published')
                   <=> j \in 1 .. Len(published) \/ j = Len(published) + 1
      BY <1>4, PublishedGrows
    <3> QED
      BY <1>4, <3>1, PublishedGrows
  <2> QED
    BY <2>1, <2>2, <2>3, <2>4, <2>5 DEF ReadingInv
<1> QED
  BY <1>1, <1>2, <1>3, <1>4
     DEF Next, Dispatch, Subscribe, Unsubscribe, DispatchCall, Detach,
         CallbackReturns, DispatchEnds

\* The registrations.

\* No two subscriptions have the same order, and a stopped channel has
\* nothing pending.
LEMMA OrderPreserved ==
  ASSUME TypeOK, OrderInv, Next
  PROVE  OrderInv'
<1>1. /\ subscribers \in [Slots -> Subscriber]
      /\ next_registration_order \in Nat
  BY BoundAssumption, GenerationAssumption DEF TypeOK, Subscriber
<1>2. ASSUME NEW s \in Slots, Subscribe(s) PROVE OrderInv'
  <2>1. /\ ~subscribers[s].active
        /\ ~running'
        /\ next_registration_order' = next_registration_order + 1
    BY <1>2 DEF Subscribe, FirstFree, Quiescent
  <2>2. /\ subscribers'[s].registration_order = next_registration_order
        /\ ~subscribers'[s].pending
        /\ \A t \in Slots : t # s => subscribers'[t] = subscribers[t]
    BY <1>1, <1>2 DEF Subscribe, Vacant
  <2>3. \A t \in Slots : ~subscribers[t].pending
    BY <1>2 DEF OrderInv, Subscribe, Quiescent
  <2>4. \A t \in Slots : subscribers[t].registration_order \in Nat
    BY <1>1, BoundAssumption, GenerationAssumption DEF Subscriber
  <2> QED
    BY <1>1, <2>1, <2>2, <2>3, <2>4 DEF OrderInv, Order
<1>3. ASSUME NEW h \in issued, Unsubscribe(h) PROVE OrderInv'
  <2>1. h.slot \in Slots
    BY DEF TypeOK, Handles
  <2>2. /\ ~subscribers'[h.slot].active
        /\ ~subscribers'[h.slot].pending
        /\ \A t \in Slots : t # h.slot => subscribers'[t] = subscribers[t]
        /\ UNCHANGED <<next_registration_order, running>>
    BY <1>1, <1>3, <2>1 DEF Unsubscribe, Vacant, registry
  <2> QED
    BY <2>2 DEF OrderInv, Order
<1>4. CASE Start \/ Stop
  <2>1. \A s \in Slots :
          /\ subscribers'[s].active = subscribers[s].active
          /\ subscribers'[s].registration_order = Order(s)
    <3>1. CASE Start
      BY <1>1, <3>1 DEF Start, Seed, Order, Subscriber
    <3>2. CASE Stop
      BY <1>1, <3>2 DEF Stop, Order, Subscriber
    <3> QED
      BY <1>4, <3>1, <3>2
  <2>2. next_registration_order' = next_registration_order
    BY <1>4 DEF Start, Stop, registry
  <2>3. ~running' => \A s \in Slots : ~subscribers'[s].pending
    BY <1>1, <1>4 DEF Start, Stop, Subscriber
  <2> QED
    BY <2>1, <2>2, <2>3 DEF OrderInv, Order
<1>5. ASSUME NEW r \in Readings, Publish(r) PROVE OrderInv'
  <2>1. running' /\ next_registration_order' = next_registration_order
    BY <1>5 DEF Publish, registry
  <2> QED
    <3>1. \A s \in Slots :
            /\ subscribers'[s].active = subscribers[s].active
            /\ subscribers'[s].registration_order = Order(s)
      BY <1>5, PublishFields
    <3> QED
      BY <2>1, <3>1 DEF OrderInv, Order
<1>6. ASSUME NEW d \in Dispatchers, NEW s \in Slots, Detach(d, s)
      PROVE  OrderInv'
  <2>1. running' /\ next_registration_order' = next_registration_order
    BY <1>6 DEF Detach, MayDispatch, registry
  <2> QED
    <3>1. \A t \in Slots :
            /\ subscribers'[t].active = subscribers[t].active
            /\ subscribers'[t].registration_order = Order(t)
      BY <1>6, DetachFields
    <3> QED
      BY <2>1, <3>1 DEF OrderInv, Order
<1>7. CASE UNCHANGED <<subscribers, registry, running>>
  BY <1>7 DEF OrderInv, Order, registry
<1> QED
  BY <1>2, <1>3, <1>4, <1>5, <1>6, <1>7
     DEF Next, Dispatch, DispatchCall, CallbackReturns, DispatchEnds

-----------------------------------------------------------------------------
\* What a subscriber was told.

\* Detaching a notice tells its subscriber all there is, and nobody else.
LEMMA DetachKeepsPublished ==
  ASSUME TypeOK, NEW d \in Dispatchers, NEW s \in Slots, Detach(d, s)
  PROVE  /\ running /\ running'
         /\ UNCHANGED published
         /\ seen'[s] = Len(published)
         /\ \A t \in Slots : t # s => seen'[t] = seen[t]
BY DEF Detach, MayDispatch, reading, TypeOK

\* The steps after which the channel runs.
LEMMA StepsWhileRunning ==
  ASSUME Next
  PROVE  \/ ~running'
         \/ Start
         \/ \E r \in Readings : Publish(r)
         \/ \E d \in Dispatchers, s \in Slots : Detach(d, s)
         \/ UNCHANGED <<subscribers, reading, progress, running>>
<1>1. ASSUME NEW s \in Slots, Subscribe(s) PROVE ~running'
  BY <1>1 DEF Subscribe, Quiescent
<1>2. ASSUME NEW h \in issued, Unsubscribe(h) PROVE ~running'
  BY <1>2 DEF Unsubscribe, Quiescent
<1>3. CASE Stop
  BY <1>3 DEF Stop
<1>4. ASSUME NEW d \in Dispatchers,
             DispatchCall(d) \/ CallbackReturns(d) \/ DispatchEnds(d)
      PROVE  UNCHANGED <<subscribers, reading, progress, running>>
  BY <1>4 DEF DispatchCall, CallbackReturns, DispatchEnds
<1> QED
  BY <1>1, <1>2, <1>3, <1>4 DEF Next, Dispatch

\* A subscriber is behind exactly when it has a notice pending.
LEMMA SeenPreserved ==
  ASSUME TypeOK, ReadingInv, SeenInv, SeedInv, PendingIffBehind, Next
  PROVE  SeenInv' /\ SeedInv' /\ PendingIffBehind'
<1> USE DEF SeenInv, SeedInv, PendingIffBehind
<1>1. /\ subscribers \in [Slots -> Subscriber]
      /\ seen \in [Slots -> 0 .. MaxChanges]
  BY DEF TypeOK, Subscriber
<1>2. CASE ~running'
  BY <1>2
<1>3. CASE Start
  <2>1. \A s \in Slots :
          /\ subscribers'[s].active = subscribers[s].active
          /\ subscribers'[s].pending = subscribers[s].active
          /\ subscribers'[s].pending_initial_seed = TRUE
          /\ seen'[s] = 0
    BY <1>1, <1>3 DEF Start, Seed, Subscriber
  <2>2. Len(published') = 1
    BY <1>3 DEF Start
  <2> QED
    BY <2>1, <2>2 DEF Waiting
<1>4. ASSUME NEW r \in Readings, Publish(r)
      PROVE  SeenInv' /\ SeedInv' /\ PendingIffBehind'
  <2>1. running /\ seen' = seen
    BY <1>4 DEF Publish, progress
  <2>2. /\ Len(published) \in Nat \ {0}
        /\ Len(published') = Len(published) + 1
    BY <1>4, <2>1, PublishedGrows DEF ReadingInv, TypeOK
  <2>3. \A s \in Slots :
          /\ subscribers'[s].active = subscribers[s].active
          /\ subscribers[s].active => /\ subscribers'[s].pending
                                      /\ ~subscribers'[s].pending_initial_seed
    BY <1>4, PublishFields
  <2>4. \A s \in Slots : seen[s] \in Nat /\ seen[s] <= Len(published)
    BY <1>1, <2>1, BoundAssumption
  <2>5. SeenInv' /\ PendingIffBehind'
    BY <2>1, <2>2, <2>3, <2>4
  <2>6. SeedInv'
    BY <2>2, <2>3 DEF Waiting
  <2> QED
    BY <2>5, <2>6
<1>5. ASSUME NEW d \in Dispatchers, NEW s \in Slots, Detach(d, s)
      PROVE  SeenInv' /\ SeedInv' /\ PendingIffBehind'
  <2>1. Len(published) \in Nat
    BY DEF TypeOK
  <2>2. \A t \in Slots :
          /\ subscribers'[t].active = subscribers[t].active
          /\ t # s => subscribers'[t] = subscribers[t]
    BY <1>5, DetachFields
  <2>3. subscribers'[s].pending = FALSE
    BY <1>5, DetachFields
  <2>4. SeenInv'
    BY <1>5, <2>1, DetachKeepsPublished
  <2>5. SeedInv'
    BY <1>5, <2>2, <2>3, DetachKeepsPublished DEF Waiting
  <2>6. PendingIffBehind'
    BY <1>5, <2>1, <2>2, <2>3, DetachKeepsPublished
  <2> QED
    BY <2>4, <2>5, <2>6
<1>6. CASE UNCHANGED <<subscribers, reading, progress, running>>
  BY <1>6 DEF Waiting, reading, progress
<1>7. \/ ~running'
      \/ Start
      \/ \E r \in Readings : Publish(r)
      \/ \E d \in Dispatchers, s \in Slots : Detach(d, s)
      \/ UNCHANGED <<subscribers, reading, progress, running>>
  BY StepsWhileRunning
<1> QED
  BY <1>2, <1>3, <1>4, <1>5, <1>6, <1>7

\* A notice published for one subscriber sums up what it missed, given that
\* the notice it had pending did.
Summarises(notice, s) ==
  /\ notice.current = published[Len(published)]
  /\ notice.initial <=> seen[s] = 0
  /\ notice.became_unavailable <=> \E i \in Missed(s) : Lost(i)
  /\ notice.recovered <=> \E i \in Missed(s) : Recovered(i)
  /\ notice.coalesced <=> Len(published) > Base(s) + 1

\* One more reading is missed, the others are those missed before.
LEMMA MissedGrows ==
  ASSUME TypeOK, ReadingInv, SeenInv, NEW r \in Readings, Publish(r),
         NEW s \in Slots, NEW n \in Nat, n = Len(published)
  PROVE  /\ Base(s)' = Base(s)
         /\ Base(s) \in 1 .. n
         /\ \A i : i \in Missed(s)'
                     <=> i \in Missed(s) \/ i = n + 1
         /\ \A i \in Missed(s) : /\ Lost(i)' <=> Lost(i)
                                 /\ Recovered(i)' <=> Recovered(i)
         /\ Lost(n + 1)' <=> Update(r).became_unavailable
         /\ Recovered(n + 1)' <=> Update(r).recovered
<1>1. /\ running
      /\ seen' = seen
      /\ n # 0
      /\ seen[s] \in 0 .. n
  BY BoundAssumption DEF Publish, progress, ReadingInv, SeenInv, TypeOK
<1>2. /\ Len(published') = n + 1
      /\ published'[n + 1] = r
      /\ \A i \in 1 .. n : published'[i] = published[i]
  BY PublishedGrows
<1>3. Base(s)' = Base(s) /\ Base(s) \in 1 .. n
  BY <1>1 DEF Base
<1>4. \A i : i \in Missed(s)' <=> i \in Missed(s) \/ i = n + 1
  BY <1>1, <1>2, <1>3 DEF Missed
<1>5. ASSUME NEW i \in Missed(s)
      PROVE  /\ Lost(i)' <=> Lost(i)
             /\ Recovered(i)' <=> Recovered(i)
  <2>1. i \in 2 .. n
    BY <1>1, <1>3 DEF Missed
  <2>2. published'[i] = published[i] /\ published'[i - 1] = published[i - 1]
    BY <1>1, <1>2, <2>1
  <2>3. \A j \in 1 .. i - 1 : published'[j] = published[j]
    BY <1>1, <1>2, <2>1
  <2> QED
    BY <2>2, <2>3 DEF Lost, Recovered, Available
<1>6. /\ published'[n + 1] = r
      /\ published'[(n + 1) - 1] = current
      /\ \A j \in 1 .. (n + 1) - 1 : published'[j] = published[j]
  BY <1>1, <1>2 DEF ReadingInv
<1>7. /\ Update(r).became_unavailable <=> Available(current) /\ ~Available(r)
      /\ Update(r).recovered <=> /\ ~Available(current)
                                 /\ Available(r)
                                 /\ has_available_period
  BY DEF Update, Notice
<1>8. has_available_period
        <=> \E j \in 1 .. (n + 1) - 1 : Available(published[j])
  BY <1>1 DEF ReadingInv
<1>9. Lost(n + 1)' <=> Update(r).became_unavailable
  BY <1>6, <1>7 DEF Lost, Available
<1>10. Recovered(n + 1)' <=> Update(r).recovered
  BY <1>6, <1>7, <1>8 DEF Recovered, Available
<1> QED
  BY <1>3, <1>4, <1>5, <1>9, <1>10

\* The pending notices stay summaries: a merge adds the newest reading, and a
\* detach takes one notice whole.
LEMMA SummaryPreserved ==
  ASSUME TypeOK, ReadingInv, SeenInv, SeedInv, PendingIffBehind,
         PendingSummarises, Next
  PROVE  PendingSummarises'
<1>1. /\ subscribers \in [Slots -> Subscriber]
      /\ seen \in [Slots -> 0 .. MaxChanges]
  BY DEF TypeOK, Subscriber
<1>2. SUFFICES ASSUME running', NEW s \in Slots, Waiting(s)'
               PROVE  Summarises(subscribers[s].pending_notice, s)'
  BY DEF PendingSummarises, Summarises
<1>3. running /\ Waiting(s)
        => Summarises(subscribers[s].pending_notice, s)
  BY DEF PendingSummarises, Summarises
<1>4. CASE Start
  <2>1. subscribers'[s].pending_notice =
          [Notice(NoReading) EXCEPT !.initial = TRUE]
    BY <1>1, <1>4 DEF Start, Seed, Subscriber
  <2>2. published' = <<NoReading>> /\ seen'[s] = 0
    BY <1>4 DEF Start
  <2>3. Len(published') = 1 /\ published'[1] = NoReading
    BY <2>2
  <2>4. Base(s)' = 1 /\ Missed(s)' = {}
    BY <2>2, <2>3 DEF Base, Missed
  <2> QED
    BY <2>1, <2>2, <2>3, <2>4 DEF Summarises, Notice
<1>5. ASSUME NEW r \in Readings, Publish(r)
      PROVE  Summarises(subscribers[s].pending_notice, s)'
  <2>1. PICK n \in Nat : n = Len(published)
    BY DEF TypeOK
  <2>2. running /\ subscribers[s].active /\ seen' = seen /\ current' = r
    BY <1>2, <1>5, PublishFields DEF Publish, progress, Waiting
  <2>3. /\ Base(s)' = Base(s)
        /\ Base(s) \in 1 .. n
        /\ \A i : i \in Missed(s)' <=> i \in Missed(s) \/ i = n + 1
        /\ \A i \in Missed(s) : /\ Lost(i)' <=> Lost(i)
                                /\ Recovered(i)' <=> Recovered(i)
        /\ Lost(n + 1)' <=> Update(r).became_unavailable
        /\ Recovered(n + 1)' <=> Update(r).recovered
    BY <1>5, <2>1, MissedGrows
  <2>4. Len(published') = n + 1 /\ published'[n + 1] = r
    BY <1>5, <2>1, PublishedGrows
  <2>5. subscribers'[s] = MergePending(subscribers[s], Update(r))
    BY <1>5, <2>2, PublishFields
  <2>6. /\ Update(r).current = r
        /\ ~Update(r).initial
        /\ ~Update(r).coalesced
    BY DEF Update, Notice
  <2>7. /\ (\E i \in Missed(s)' : Lost(i)')
             <=> (\E i \in Missed(s) : Lost(i))
                 \/ Update(r).became_unavailable
        /\ (\E i \in Missed(s)' : Recovered(i)')
             <=> (\E i \in Missed(s) : Recovered(i))
                 \/ Update(r).recovered
    BY <2>3
  <2>8. n # 0
    BY <2>1, <2>2 DEF ReadingInv, TypeOK
  <2>9. CASE ~subscribers[s].pending
    <3>1. seen[s] = n
      BY <1>1, <2>1, <2>2, <2>9, BoundAssumption
         DEF PendingIffBehind, SeenInv
    <3>2. Base(s) = n /\ Missed(s) = {}
      BY <2>1, <2>8, <3>1 DEF Base, Missed
    <3>3. subscribers'[s].pending_notice = Update(r)
      BY <1>1, <2>5, <2>9 DEF MergePending, Subscriber
    <3>4. ~(Len(published') > Base(s)' + 1)
      BY <2>3, <2>4, <3>2
    <3>5. seen'[s] # 0
      BY <2>2, <2>8, <3>1
    <3> QED
      BY <2>4, <2>6, <2>7, <3>2, <3>3, <3>4, <3>5 DEF Summarises
  <2>10. CASE subscribers[s].pending
    <3> DEFINE notice == subscribers[s].pending_notice
               merged == subscribers'[s].pending_notice
    <3>1. Summarises(notice, s)
      BY <1>3, <2>2, <2>10 DEF Waiting
    <3>2. /\ merged.current = r
          /\ merged.initial = notice.initial
          /\ merged.became_unavailable <=> notice.became_unavailable
                                             \/ Update(r).became_unavailable
          /\ merged.recovered <=> notice.recovered \/ Update(r).recovered
          /\ merged.coalesced <=> notice.coalesced
                                    \/ ~subscribers[s].pending_initial_seed
      <4>1. merged =
              [current |-> Update(r).current,
               initial |-> notice.initial,
               became_unavailable |-> \/ notice.became_unavailable
                                      \/ Update(r).became_unavailable,
               recovered |-> notice.recovered \/ Update(r).recovered,
               coalesced |-> \/ notice.coalesced
                             \/ ~subscribers[s].pending_initial_seed]
        BY <1>1, <2>5, <2>10 DEF MergePending, Subscriber
      <4> HIDE DEF notice, merged
      <4> QED
        BY <2>6, <4>1
    <3>3. subscribers[s].pending_initial_seed <=> n = 1
      BY <2>1, <2>2, <2>10 DEF SeedInv, Waiting
    <3>4. seen[s] < n
      BY <2>1, <2>2, <2>10 DEF PendingIffBehind
    <3>5. n > Base(s) <=> n # 1
      BY <1>1, <2>3, <2>8, <3>4, BoundAssumption DEF Base
    <3>6. n > Base(s) + 1 => n # 1
      BY <2>3
    <3>7. merged.coalesced <=> Len(published') > Base(s)' + 1
      BY <2>1, <2>3, <2>4, <3>1, <3>2, <3>3, <3>5, <3>6 DEF Summarises
    <3> QED
      BY <2>2, <2>4, <2>7, <3>1, <3>2, <3>7 DEF Summarises
  <2> QED
    BY <2>9, <2>10
<1>6. ASSUME NEW d \in Dispatchers, NEW t \in Slots, Detach(d, t)
      PROVE  Summarises(subscribers[s].pending_notice, s)'
  <2>1. s # t
    BY <1>2, <1>6, DetachFields DEF Waiting
  <2>2. /\ running
        /\ subscribers'[s] = subscribers[s]
        /\ seen'[s] = seen[s]
        /\ published' = published
    BY <1>6, <2>1, DetachFields, DetachKeepsPublished
  <2>3. Waiting(s)
    BY <1>2, <2>2 DEF Waiting
  <2> QED
    BY <1>3, <2>2, <2>3 DEF Summarises, Base, Missed, Lost, Recovered
<1>7. CASE UNCHANGED <<subscribers, reading, progress, running>>
  BY <1>2, <1>3, <1>7
     DEF Waiting, Summarises, Base, Missed, Lost, Recovered, reading, progress
<1> QED
  BY <1>2, <1>4, <1>5, <1>6, <1>7, StepsWhileRunning

-----------------------------------------------------------------------------
\* The turns.

\* The cursor moves to the nearest waiting slot, so that no other waiting slot
\* is passed over.
LEMMA TurnPreserved ==
  ASSUME TypeOK, OrderInv, TurnInv, Next
  PROVE  TurnInv'
<1>1. /\ subscribers \in [Slots -> Subscriber]
      /\ ahead \in [Slots -> SUBSET Slots]
      /\ dispatch_cursor_order \in Nat
      /\ \A s \in Slots : Order(s) \in Nat
  BY BoundAssumption, GenerationAssumption DEF TypeOK, Subscriber, Order
<1>2. CASE Start
  BY <1>2 DEF Start, TurnInv
<1>3. ASSUME NEW r \in Readings, Publish(r) PROVE TurnInv'
  <2>1. running /\ UNCHANGED <<ahead, dispatch_cursor_order>>
    BY <1>3 DEF Publish, progress, delivery
  <2>2. \A s \in Slots :
          /\ subscribers'[s].active = subscribers[s].active
          /\ subscribers'[s].registration_order = Order(s)
          /\ subscribers[s].active => subscribers'[s].pending
    BY <1>3, PublishFields
  <2>3. \A r1, s \in Slots : After(r1, s)' <=> After(r1, s)
    BY <2>1, <2>2 DEF After, Order
  <2>4. \A s \in Slots : /\ Waiting(s) => Waiting(s)'
                         /\ ahead[s] \subseteq Slots
    BY <1>1, <2>2 DEF Waiting
  <2> QED
    BY <2>1, <2>3, <2>4 DEF TurnInv
<1>4. ASSUME NEW d \in Dispatchers, NEW x \in Slots, Detach(d, x)
      PROVE  TurnInv'
  <2>1. /\ running
        /\ Selected(x)
        /\ dispatch_cursor_order' = Order(x)
        /\ \A t \in Slots : ahead'[t] =
             IF t # x /\ Waiting(t) THEN ahead[t] \cup {x} ELSE {}
    BY <1>4 DEF Detach, MayDispatch
  <2>2. \A t \in Slots :
          /\ subscribers'[t].registration_order = Order(t)
          /\ t # x => subscribers'[t] = subscribers[t]
    BY <1>4, DetachFields
  <2>3. ~Waiting(x)'
    BY <1>4, DetachFields DEF Waiting
  <2>4. \A t \in Slots : t # x => (Waiting(t)' <=> Waiting(t))
    BY <2>2 DEF Waiting
  <2>5. ASSUME NEW s \in Slots, s # x, Waiting(s), NEW t \in ahead[s] \cup {x}
        PROVE  After(t, s)'
    <3>1. t \in Slots
      BY <1>1
    <3>2. Order(s) # Order(x)
      BY <2>1, <2>5 DEF OrderInv, Selected, Waiting
    <3>3. t # x => After(t, s)
      BY <2>1, <2>5 DEF TurnInv
    <3>4. \/ Order(x) > dispatch_cursor_order
             /\ (Order(s) > dispatch_cursor_order => Order(x) <= Order(s))
          \/ Order(s) <= dispatch_cursor_order /\ Order(x) <= Order(s)
      BY <2>1, <2>5 DEF Selected
    <3>5. \/ Order(x) > dispatch_cursor_order
             /\ (Order(s) > dispatch_cursor_order => Order(x) <= Order(s))
          \/ /\ Order(s) <= dispatch_cursor_order
             /\ Order(x) <= dispatch_cursor_order
             /\ Order(x) <= Order(s)
      BY <1>1, <3>4
    <3>6. After(t, s)' <=> \/ /\ Order(s) < Order(x)
                              /\ Order(s) < Order(t)
                              /\ Order(t) <= Order(x)
                           \/ /\ Order(x) < Order(s)
                              /\ Order(t) > Order(s) \/ Order(t) <= Order(x)
      BY <2>1, <2>2, <3>1 DEF After, Order
    <3>7. CASE t = x
      BY <1>1, <3>1, <3>2, <3>6, <3>7
    <3>8. CASE t # x
      BY <1>1, <3>1, <3>2, <3>3, <3>5, <3>6, <3>8 DEF After
    <3> QED
      BY <3>7, <3>8
  <2> QED
    BY <2>1, <2>3, <2>4, <2>5 DEF TurnInv
<1>5. CASE UNCHANGED <<subscribers, reading, progress, running>>
           /\ dispatch_cursor_order' = dispatch_cursor_order
  BY <1>5 DEF TurnInv, Waiting, After, Order, progress
<1>6. CASE ~running'
  BY <1>6 DEF TurnInv
<1>7. \/ ~running'
      \/ Start
      \/ \E r \in Readings : Publish(r)
      \/ \E d \in Dispatchers, s \in Slots : Detach(d, s)
      \/ /\ UNCHANGED <<subscribers, reading, progress, running>>
         /\ dispatch_cursor_order' = dispatch_cursor_order
  <2>1. CASE running
    BY <2>1
       DEF Next, Dispatch, Subscribe, Unsubscribe, Quiescent, Stop,
           DispatchCall, CallbackReturns, DispatchEnds
  <2>2. CASE ~running
    BY <2>2, StepsWhileRunning
       DEF Next, Dispatch, Subscribe, Unsubscribe, Stop, DispatchCall,
           CallbackReturns, DispatchEnds, delivery
  <2> QED
    BY <2>1, <2>2
<1> QED
  BY <1>2, <1>3, <1>4, <1>5, <1>6, <1>7

\* The next to be selected comes first going round from the cursor, and every
\* slot that had a turn comes after the waiting one.
LEMMA TurnsAreFair ==
  ASSUME TypeOK, OrderInv, TurnInv
  PROVE  FairTurns
<1>1. ASSUME NEW r \in Slots, NEW s \in Slots, Selected(r), Waiting(s),
             r \in ahead[s], running
      PROVE  FALSE
  <2>1. /\ Order(r) \in Nat /\ Order(s) \in Nat
        /\ dispatch_cursor_order \in Nat
    BY BoundAssumption, GenerationAssumption DEF TypeOK, Order
  <2>2. After(r, s)
    BY <1>1 DEF TurnInv
  <2>3. \/ Order(r) > dispatch_cursor_order
           /\ (Order(s) > dispatch_cursor_order => Order(r) <= Order(s))
        \/ /\ Order(s) <= dispatch_cursor_order
           /\ Order(r) <= dispatch_cursor_order
           /\ Order(r) <= Order(s)
    BY <1>1, <2>1 DEF Selected
  <2> QED
    BY <2>1, <2>2, <2>3 DEF After
<1>2. \A s \in Slots : Waiting(s) => running
  BY DEF OrderInv, Waiting
<1> QED
  BY <1>1, <1>2 DEF FairTurns

-----------------------------------------------------------------------------
\* The generations.  A slot used k times after a handle was issued has a
\* generation k further round the cycle 1 .. Generations - 1.
Shifted(g, k) == IF g + k <= Generations - 1 THEN g + k
                 ELSE g + k - (Generations - 1)

GenerationInv ==
  \A h \in issued :
    /\ h.generation > 0
    /\ h.order < next_registration_order
    /\ \/ /\ subscribers[h.slot].generation = h.generation
          /\ subscribers[h.slot].active => Order(h.slot) = h.order
       \/ \E k \in 1 .. (next_registration_order - 1) - h.order :
            subscribers[h.slot].generation = Shifted(h.generation, k)

\* One more use of a slot is one step further round the cycle, and fewer than
\* a whole round never leads back.
LEMMA NextIsShifted ==
  ASSUME NEW g \in 1 .. Generations - 1, NEW k \in Nat, k < Generations - 1
  PROVE  /\ Shifted(g, k) \in 1 .. Generations - 1
         /\ NextGeneration(Shifted(g, k)) = Shifted(g, k + 1)
         /\ k > 0 => Shifted(g, k) # g
<1> USE GenerationAssumption
<1>1. Shifted(g, k) \in 1 .. Generations - 1 /\ (k > 0 => Shifted(g, k) # g)
  BY DEF Shifted
<1>2. ASSUME NEW f \in 1 .. Generations - 1
      PROVE  NextGeneration(f) = IF f = Generations - 1 THEN 1 ELSE f + 1
  <2>1. CASE f = Generations - 1
    <3>1. (f + 1) % Generations = 0
      BY <2>1
    <3> QED
      BY <2>1, <3>1 DEF NextGeneration
  <2>2. CASE f # Generations - 1
    <3>1. (f + 1) % Generations # 0
      BY <2>2
    <3> QED
      BY <2>2, <3>1 DEF NextGeneration
  <2> QED
    BY <2>1, <2>2
<1>3. NextGeneration(Shifted(g, k)) = Shifted(g, k + 1)
  BY <1>1, <1>2 DEF Shifted
<1> QED
  BY <1>1, <1>3

\* The generation of a slot moves away from every handle issued for it.
LEMMA GenerationPreserved ==
  ASSUME TypeOK, GenerationInv, Next
  PROVE  GenerationInv'
<1>1. /\ subscribers \in [Slots -> Subscriber]
      /\ issued \subseteq Handles
      /\ next_registration_order \in Nat
  BY BoundAssumption, GenerationAssumption DEF TypeOK, Subscriber
<1>2. ASSUME NEW s \in Slots, Subscribe(s) PROVE GenerationInv'
  <2> DEFINE g == NextGeneration(subscribers[s].generation)
             new == [slot |-> s, generation |-> g,
                     order |-> next_registration_order]
  <2>1. /\ ~subscribers[s].active
        /\ next_registration_order \in Nat
        /\ next_registration_order <= Generations - 1
        /\ next_registration_order' = next_registration_order + 1
        /\ issued' = issued \cup {new}
    BY <1>1, <1>2, BoundAssumption, GenerationAssumption
       DEF Subscribe, FirstFree
  <2>2. /\ subscribers'[s].generation = g
        /\ subscribers'[s].registration_order = next_registration_order
        /\ \A t \in Slots : t # s => subscribers'[t] = subscribers[t]
    BY <1>1, <1>2 DEF Subscribe, Vacant
  <2>3. g > 0
    BY <1>1, GenerationAssumption DEF NextGeneration, Subscriber
  <2> HIDE DEF g
  <2>4. ASSUME NEW h \in issued
        PROVE  /\ h.generation \in 1 .. Generations - 1
               /\ h.order \in 1 .. next_registration_order - 1
               /\ h.slot \in Slots
    BY <1>1, BoundAssumption, GenerationAssumption DEF GenerationInv, Handles
  <2>5. ASSUME NEW h \in issued, h.slot = s
        PROVE  \E k \in 1 .. next_registration_order - h.order :
                 g = Shifted(h.generation, k)
    <3>1. CASE subscribers[s].generation = h.generation
      <4>1. subscribers[s].generation = Shifted(h.generation, 0)
        BY <2>4, <3>1, GenerationAssumption DEF Shifted
      <4>2. 0 < Generations - 1
        BY <2>1, <2>4, GenerationAssumption
      <4>3. g = Shifted(h.generation, 0 + 1)
        BY <2>4, <4>1, <4>2, NextIsShifted DEF g
      <4> QED
        BY <2>1, <2>4, <4>3
    <3>2. ASSUME NEW k \in 1 .. (next_registration_order - 1) - h.order,
                 subscribers[s].generation = Shifted(h.generation, k)
          PROVE  \E j \in 1 .. next_registration_order - h.order :
                   g = Shifted(h.generation, j)
      <4>1. k \in Nat /\ k < Generations - 1
        BY <2>1, <2>4, GenerationAssumption
      <4>2. g = Shifted(h.generation, k + 1)
        BY <2>4, <3>2, <4>1, NextIsShifted DEF g
      <4>3. k + 1 \in 1 .. next_registration_order - h.order
        BY <2>1, <2>4
      <4> QED
        BY <4>2, <4>3
    <3> QED
      BY <2>5, <3>1, <3>2 DEF GenerationInv
  <2>6. ASSUME NEW h \in issued, h.slot # s
        PROVE  /\ subscribers'[h.slot] = subscribers[h.slot]
               /\ 1 .. (next_registration_order - 1) - h.order
                    \subseteq 1 .. next_registration_order - h.order
    BY <2>1, <2>2, <2>4, <2>6
  <2>7. (next_registration_order - 1)' = next_registration_order
    BY <2>1
  <2>8. ASSUME NEW h \in issued'
        PROVE  /\ h.generation > 0
               /\ h.order < next_registration_order'
               /\ \/ /\ subscribers'[h.slot].generation = h.generation
                     /\ subscribers'[h.slot].active
                          => subscribers'[h.slot].registration_order = h.order
                  \/ \E k \in 1 .. next_registration_order - h.order :
                       subscribers'[h.slot].generation
                         = Shifted(h.generation, k)
    <3>1. CASE h = new
      BY <2>1, <2>2, <2>3, <3>1
    <3>2. CASE h \in issued /\ h.slot = s
      BY <2>1, <2>2, <2>4, <2>5, <3>2
    <3>3. CASE h \in issued /\ h.slot # s
      BY <2>1, <2>4, <2>6, <3>3 DEF GenerationInv, Order
    <3> QED
      BY <2>1, <3>1, <3>2, <3>3
  <2> QED
    BY <2>7, <2>8 DEF GenerationInv, Order
<1>3. ASSUME \A t \in Slots :
               /\ subscribers'[t].generation = subscribers[t].generation
               /\ subscribers'[t].active => subscribers[t].active
               /\ subscribers'[t].active =>
                    subscribers'[t].registration_order = Order(t),
             UNCHANGED registry
      PROVE  GenerationInv'
  <2>1. \A h \in issued : h.slot \in Slots
    BY <1>1 DEF Handles
  <2> QED
    BY <1>3, <2>1 DEF GenerationInv, Order, registry
<1>4. ASSUME NEW h \in issued, Unsubscribe(h) PROVE GenerationInv'
  BY <1>1, <1>3, <1>4 DEF Unsubscribe, Vacant, Handles, Order
<1>5. CASE Start
  BY <1>1, <1>3, <1>5 DEF Start, Seed, Subscriber, Order
<1>6. CASE Stop
  BY <1>1, <1>3, <1>6 DEF Stop, Subscriber, Order
<1>7. ASSUME NEW r \in Readings, Publish(r) PROVE GenerationInv'
  <2>1. \A t \in Slots :
          MergePending(subscribers[t], Update(r)).generation
            = subscribers[t].generation
    BY <1>1 DEF MergePending, Subscriber
  <2>2. \A t \in Slots :
          subscribers'[t].generation = subscribers[t].generation
    BY <1>7, <2>1 DEF Publish
  <2> QED
    BY <1>3, <1>7, <2>2, PublishFields DEF Publish
<1>8. ASSUME NEW d \in Dispatchers, NEW s \in Slots, Detach(d, s)
      PROVE  GenerationInv'
  <2>1. \A t \in Slots :
          subscribers'[t].generation = subscribers[t].generation
    BY <1>1, <1>8 DEF Detach, Detached, Subscriber
  <2> QED
    BY <1>3, <1>8, <2>1, DetachFields DEF Detach
<1>9. CASE UNCHANGED <<subscribers, registry>>
  BY <1>3, <1>9 DEF Order
<1> QED
  BY <1>2, <1>4, <1>5, <1>6, <1>7, <1>8, <1>9
     DEF Next, Dispatch, DispatchCall, CallbackReturns, DispatchEnds

\* A handle that was outlived by its slot has another generation than it.
LEMMA HandlesAreExact ==
  ASSUME TypeOK, GenerationInv
  PROVE  HandleNamesOneSubscription
<1>1. ASSUME NEW h \in issued, Finds(h) PROVE Order(h.slot) = h.order
  <2>1. /\ subscribers[h.slot].active
        /\ subscribers[h.slot].generation = h.generation
    BY <1>1 DEF Finds
  <2>2. /\ h.generation \in 1 .. Generations - 1
        /\ h.order \in 1 .. MaxSubscriptions
        /\ next_registration_order \in 1 .. MaxSubscriptions + 1
    BY GenerationAssumption, BoundAssumption
       DEF GenerationInv, TypeOK, Handles
  <2>3. ASSUME NEW k \in 1 .. (next_registration_order - 1) - h.order
        PROVE  Shifted(h.generation, k) # h.generation
    <3>1. k \in Nat /\ k > 0 /\ k < Generations - 1
      BY <2>2, BoundAssumption, GenerationAssumption
    <3> QED
      BY <2>2, <3>1, NextIsShifted
  <2> QED
    BY <2>1, <2>3 DEF GenerationInv
<1> QED
  BY <1>1 DEF HandleNamesOneSubscription

-----------------------------------------------------------------------------
(***************************************************************************)
(* The theorems.                                                           *)
(***************************************************************************)
\* The inductive invariant.
IInv ==
  /\ TypeOK
  /\ CallbackInv
  /\ ReadingInv
  /\ SeenInv
  /\ SeedInv
  /\ PendingIffBehind
  /\ PendingSummarises
  /\ OrderInv
  /\ TurnInv
  /\ GenerationInv

\* The invariant holds before the first call.
LEMMA InitEstablishes == Init => IInv
<1> SUFFICES ASSUME Init PROVE IInv
  OBVIOUS
<1>1. subscribers \in [Slots -> Subscriber]
  BY VacantType DEF Init
<1>2. Idle \in [step : {"idle", "dispatch", "callback"}, left : 0 .. SlotCount,
                slot : Slots, order : 0 .. MaxSubscriptions]
  BY SlotAssumption, BoundAssumption, GenerationAssumption DEF Idle, Slots
<1>3. TypeOK
  <2>1. /\ next_registration_order \in 1 .. MaxSubscriptions + 1
        /\ dispatch_cursor_order \in 0 .. MaxSubscriptions
        /\ seen \in [Slots -> 0 .. MaxChanges]
    BY BoundAssumption, GenerationAssumption DEF Init
  <2>2. published \in Seq(Readings \cup {NoReading})
    BY DEF Init
  <2> QED
    BY <1>1, <1>2, <2>1, <2>2 DEF Init, TypeOK, Subscriber
<1>4. CallbackInv
  BY DEF Init, Idle, CallbackInv, OneCallbackAtATime,
         CallbackWithinSubscription, InCallback
<1>5. ReadingInv /\ SeenInv /\ SeedInv /\ PendingIffBehind
      /\ PendingSummarises /\ TurnInv
  BY DEF Init, ReadingInv, SeenInv, SeedInv, PendingIffBehind,
         PendingSummarises, TurnInv
<1>6. \A s \in Slots : ~subscribers[s].active /\ ~subscribers[s].pending
  BY DEF Init, Vacant
<1>7. OrderInv
  BY <1>6 DEF OrderInv
<1>8. GenerationInv
  BY DEF Init, GenerationInv
<1> QED
  BY <1>3, <1>4, <1>5, <1>7, <1>8 DEF IInv

\* The invariant depends on nothing but the variables.
LEMMA StutterPreserves ==
  ASSUME IInv, UNCHANGED vars
  PROVE  IInv'
<1> USE DEF vars, registry, reading, delivery, progress
<1>1. TypeOK' /\ CallbackInv' /\ ReadingInv'
  BY DEF IInv, TypeOK, CallbackInv, OneCallbackAtATime,
         CallbackWithinSubscription, InCallback, Order, ReadingInv
<1>2. SeenInv' /\ SeedInv' /\ PendingIffBehind' /\ PendingSummarises'
  BY DEF IInv, SeenInv, SeedInv, PendingIffBehind, PendingSummarises, Waiting,
         Base, Missed, Lost, Recovered
<1>3. OrderInv' /\ TurnInv' /\ GenerationInv'
  BY DEF IInv, OrderInv, TurnInv, GenerationInv, Order, Waiting, After
<1> QED
  BY <1>1, <1>2, <1>3 DEF IInv

\* Every step preserves the invariant.
LEMMA StepPreserves == IInv /\ [Next]_vars => IInv'
<1>1. ASSUME IInv, Next PROVE IInv'
  BY <1>1, TypePreserved, CallbackPreserved, ReadingPreserved, SeenPreserved,
     SummaryPreserved, OrderPreserved, TurnPreserved, GenerationPreserved
     DEF IInv
<1> QED
  BY <1>1, StutterPreserves

\* The inductive invariant holds always.
THEOREM Invariance == Spec => []IInv
BY InitEstablishes, StepPreserves, PTL DEF Spec

\* Every variable keeps its type.
THEOREM TypeCorrect == Spec => []TypeOK
BY Invariance, PTL DEF IInv

\* Callbacks never overlap, however many tasks dispatch.
THEOREM CallbacksDoNotOverlap == Spec => []OneCallbackAtATime
<1>1. IInv => OneCallbackAtATime
  BY DEF IInv, CallbackInv
<1> QED
  BY <1>1, Invariance, PTL

\* A callback runs only while its own subscription exists and the channel
\* runs.
THEOREM ContextOutlivesCallback == Spec => []CallbackWithinSubscription
<1>1. IInv => CallbackWithinSubscription
  BY DEF IInv, CallbackInv
<1> QED
  BY <1>1, Invariance, PTL

\* A notice is pending exactly for the subscribers that are behind.
THEOREM NoChangeIsMissed == Spec => []PendingIffBehind
BY Invariance, PTL DEF IInv

\* A pending notice sums up everything its subscriber missed.
THEOREM MergingLosesNothing == Spec => []PendingSummarises
BY Invariance, PTL DEF IInv

\* While a subscriber waits, nobody has a second turn.
THEOREM NobodyOvertakesTwice == Spec => []FairTurns
<1>1. IInv => FairTurns
  BY TurnsAreFair DEF IInv
<1> QED
  BY <1>1, Invariance, PTL

\* As long as a channel has fewer registrations than there are generations, a
\* handle never names a later subscription.
THEOREM HandlesAreNotReused == Spec => []HandleNamesOneSubscription
<1>1. IInv => HandleNamesOneSubscription
  BY HandlesAreExact DEF IInv
<1> QED
  BY <1>1, Invariance, PTL
=============================================================================

------------------------------ MODULE FrameRing ------------------------------
(***************************************************************************)
(* The SPSC ring between the acquisition task and the one consumer of      *)
(* can_bus (frame_ring.hpp), one atomic access of the code per step.       *)
(*                                                                         *)
(* The producer runs push(), the consumer runs pop(), and observers call   *)
(* snapshot() from any task.  clear() is run by start() before the task of *)
(* the new run exists and after the consumer has been stopped              *)
(* (can_bus.h:77-79), so it excludes the producer and the consumer but not *)
(* the observers.  Accesses interleave sequentially consistently;          *)
(* FrameRingTSO adds the one reordering the code's memory orders allow.    *)
(*                                                                         *)
(* A frame is its number in the order of the push() calls.  head and tail  *)
(* are size_t: they count modulo Modulus (2^w) and are never reset.        *)
(***************************************************************************)
EXTENDS Integers, Sequences

CONSTANTS
  Capacity,      \* kQueueCapacity, the ring's template argument
  Modulus,       \* 2^w for a size_t of w bits
  InitialIndex,  \* head_ and tail_ when the behaviour starts: any earlier use
                 \* of the ring followed by clear() leaves them equal, anywhere
  MaxFrames,     \* bound on the push() calls of a behaviour
  MaxEvents,     \* bound on the record_*() calls of a behaviour
  Observers      \* tasks that call statistics()

ASSUME CapacityAssumption == Capacity \in Nat \ {0}
ASSUME ModulusAssumption == /\ Modulus \in Nat
                            /\ Modulus > Capacity
                            /\ Modulus % Capacity = 0
ASSUME InitialIndexAssumption == InitialIndex \in 0 .. Modulus - 1
ASSUME BoundAssumption == MaxFrames \in Nat /\ MaxEvents \in Nat

Index == 0 .. Modulus - 1
Slots == 0 .. Capacity - 1
Frames == 0 .. MaxFrames    \* 0 is the initial content of a slot
CounterNames == {"received", "queued", "delivered", "dropped", "overflows",
                 "driver_events"}
\* The order in which snapshot() exchanges the counters; driver_events stands
\* for the four counters of the record_*() calls, which it treats alike.
ExchangeOrder == <<"received", "queued", "delivered", "dropped", "overflows",
                   "driver_events">>

VARIABLES
  head, tail,            \* head_, tail_
  frames,                \* frames_
  counters,              \* the uint64_t counters, by name
  queue_high_watermark,
  producer,              \* the push() in progress
  consumer,              \* the pop() in progress
  observer,              \* the snapshot() or clear() each observer runs
  offered,               \* history: number of push() calls
  taken,                 \* history: the frame popped last
  discarded,             \* history: number of frames clear() threw away
  reported               \* history: what resetting snapshots have returned

ring == <<head, tail, frames>>
history == <<offered, taken, discarded, reported>>
vars == <<ring, counters, queue_high_watermark, producer, consumer, observer,
          history>>

\* size_t arithmetic.
Inc(i) == IF i = Modulus - 1 THEN 0 ELSE i + 1
Distance(h, t) == IF h >= t THEN h - t ELSE (h - t) + Modulus
Slot(i) == i % Capacity
Depth == Distance(head, tail)

Count(c) == counters' = [counters EXCEPT ![c] = @ + 1]
AtLeast(a, b) == IF a >= b THEN a ELSE b
Clearing == \E o \in Observers : observer[o].op = "clear"

ProducerSteps == {"idle", "load", "drop", "overflow", "write", "publish",
                  "watermark", "count"}
ConsumerSteps == {"idle", "read", "advance", "count"}
ObserverSteps == {"idle", "empty", "tail_before", "head", "tail_after",
                  "exchange", "watermark", "raise", "zero"}

\* The locals of a snapshot() or clear() call: the loads of coherent_depth(),
\* whether this is its second run (the repair), the depth it returned, the
\* counter to exchange next, and the true depth when head was loaded (history).
Calls == [step : ObserverSteps, op : {"none", "snapshot", "reset", "clear"},
          tail : Index, head : Index, again : BOOLEAN,
          depth : 0 .. Capacity, next : 1 .. Len(ExchangeOrder),
          depth_then : 0 .. Capacity]

TypeOK ==
  /\ head \in Index
  /\ tail \in Index
  /\ frames \in [Slots -> Frames]
  /\ counters \in [CounterNames -> Nat]
  /\ queue_high_watermark \in 0 .. Capacity
  /\ producer \in [step : ProducerSteps, tail : Index]
  /\ consumer \in [step : ConsumerSteps, frame : Frames]
  /\ observer \in [Observers -> Calls]
  /\ offered \in Frames
  /\ taken \in Frames
  /\ discarded \in Nat
  /\ reported \in [CounterNames -> Nat]

NoCall == [step |-> "idle", op |-> "none", tail |-> 0, head |-> 0,
           again |-> FALSE, depth |-> 0, next |-> 1, depth_then |-> 0]

Init ==
  /\ head = InitialIndex
  /\ tail = InitialIndex
  /\ frames = [s \in Slots |-> 0]
  /\ counters = [c \in CounterNames |-> 0]
  /\ queue_high_watermark = 0
  /\ producer = [step |-> "idle", tail |-> InitialIndex]
  /\ consumer = [step |-> "idle", frame |-> 0]
  /\ observer = [o \in Observers |-> NoCall]
  /\ offered = 0
  /\ taken = 0
  /\ discarded = 0
  /\ reported = [c \in CounterNames |-> 0]

-----------------------------------------------------------------------------
(***************************************************************************)
(* push(), run by the receive task only.                                   *)
(***************************************************************************)
PushReceived ==
  /\ producer.step = "idle"
  /\ ~Clearing
  /\ offered < MaxFrames
  /\ offered' = offered + 1
  /\ Count("received")
  /\ producer' = [producer EXCEPT !.step = "load"]
  /\ UNCHANGED <<ring, queue_high_watermark, consumer, observer, taken,
                 discarded, reported>>

\* Bug: one frame too many is let in.
PushLoadTailOffByOne ==
  /\ producer.step = "load"
  /\ producer' = [step |-> IF Distance(head, tail) > Capacity THEN "drop"
                           ELSE "write",
                  tail |-> tail]
  /\ UNCHANGED <<ring, counters, queue_high_watermark, consumer, observer,
                 history>>

\* Only the producer stores head, so loading it needs no step of its own.
PushLoadTail ==
  /\ producer.step = "load"
  /\ producer' = [step |-> IF Distance(head, tail) >= Capacity THEN "drop"
                           ELSE "write",
                  tail |-> tail]
  /\ UNCHANGED <<ring, counters, queue_high_watermark, consumer, observer,
                 history>>

\* Bug: a full ring drops its oldest frame instead of the newest.
PushDropOldest ==
  /\ producer.step = "drop"
  /\ Count("dropped")
  /\ tail' = Inc(tail)
  /\ producer' = [producer EXCEPT !.step = "overflow"]
  /\ UNCHANGED <<head, frames, queue_high_watermark, consumer, observer,
                 history>>

PushDrop ==
  /\ producer.step = "drop"
  /\ Count("dropped")
  /\ producer' = [producer EXCEPT !.step = "overflow"]
  /\ UNCHANGED <<ring, queue_high_watermark, consumer, observer, history>>

PushOverflow ==
  /\ producer.step = "overflow"
  /\ Count("overflows")
  /\ producer' = [producer EXCEPT !.step = "idle"]
  /\ UNCHANGED <<ring, queue_high_watermark, consumer, observer, history>>

\* The copy into the slot is not atomic: it lasts for the whole of step
\* "write" (see NoSlotRace) and its effect is shown at its end.
PushWrite ==
  /\ producer.step = "write"
  /\ frames' = [frames EXCEPT ![Slot(head)] = offered]
  /\ producer' = [producer EXCEPT !.step = "publish"]
  /\ UNCHANGED <<head, tail, counters, queue_high_watermark, consumer,
                 observer, history>>

PushPublish ==
  /\ producer.step = "publish"
  /\ head' = Inc(head)
  /\ producer' = [producer EXCEPT !.step = "watermark"]
  /\ UNCHANGED <<tail, frames, counters, queue_high_watermark, consumer,
                 observer, history>>

\* update_watermark(): the compare-exchange loop takes effect at its last
\* iteration, as an atomic maximum.
PushWatermark ==
  /\ producer.step = "watermark"
  /\ queue_high_watermark' =
       AtLeast(queue_high_watermark, Distance(head, producer.tail))
  /\ producer' = [producer EXCEPT !.step = "count"]
  /\ UNCHANGED <<ring, counters, consumer, observer, history>>

PushQueued ==
  /\ producer.step = "count"
  /\ Count("queued")
  /\ producer' = [producer EXCEPT !.step = "idle"]
  /\ UNCHANGED <<ring, queue_high_watermark, consumer, observer, history>>

\* record_bus_error(), record_driver_rx_missed(), record_controller_reset()
\* and record_bus_off().
RecordEvent ==
  /\ producer.step = "idle"
  /\ ~Clearing
  /\ counters["driver_events"] + reported["driver_events"] < MaxEvents
  /\ Count("driver_events")
  /\ UNCHANGED <<ring, queue_high_watermark, producer, consumer, observer,
                 history>>

-----------------------------------------------------------------------------
(***************************************************************************)
(* pop(), run by the one consumer.  Only the consumer stores tail outside  *)
(* clear(), so loading it needs no step; an empty ring changes nothing.    *)
(***************************************************************************)
PopLoadHead ==
  /\ consumer.step = "idle"
  /\ ~Clearing
  /\ tail # head
  /\ consumer' = [consumer EXCEPT !.step = "read"]
  /\ UNCHANGED <<ring, counters, queue_high_watermark, producer, observer,
                 history>>

\* The copy out of the slot lasts for the whole of step "read".
PopRead ==
  /\ consumer.step = "read"
  /\ consumer' = [step |-> "advance", frame |-> frames[Slot(tail)]]
  /\ UNCHANGED <<ring, counters, queue_high_watermark, producer, observer,
                 history>>

PopAdvance ==
  /\ consumer.step = "advance"
  /\ tail' = Inc(tail)
  /\ taken' = consumer.frame
  /\ consumer' = [consumer EXCEPT !.step = "count"]
  /\ UNCHANGED <<head, frames, counters, queue_high_watermark, producer,
                 observer, offered, discarded, reported>>

PopDelivered ==
  /\ consumer.step = "count"
  /\ Count("delivered")
  /\ consumer' = [consumer EXCEPT !.step = "idle"]
  /\ UNCHANGED <<ring, queue_high_watermark, producer, observer, history>>

-----------------------------------------------------------------------------
(***************************************************************************)
(* snapshot() and clear().                                                 *)
(***************************************************************************)
Observe(o, to) == observer' = [observer EXCEPT ![o] = to]

SnapshotCall(o) ==
  /\ observer[o].step = "idle"
  /\ \E op \in {"snapshot", "reset"} :
       Observe(o, [NoCall EXCEPT !.step = "tail_before", !.op = op])
  /\ UNCHANGED <<ring, counters, queue_high_watermark, producer, consumer,
                 history>>

\* clear() is called with the previous task gone and the consumer stopped.
ClearCall(o) ==
  /\ observer[o].step = "idle"
  /\ producer.step = "idle"
  /\ consumer.step = "idle"
  /\ ~Clearing
  /\ Observe(o, [NoCall EXCEPT !.step = "empty", !.op = "clear"])
  /\ UNCHANGED <<ring, counters, queue_high_watermark, producer, consumer,
                 history>>

\* Bug: clear() rewinds one index only.
ClearEmptyRewind(o) ==
  /\ observer[o].step = "empty"
  /\ tail' = InitialIndex
  /\ discarded' = discarded + Depth
  /\ Observe(o, [observer[o] EXCEPT !.step = "tail_before"])
  /\ UNCHANGED <<head, frames, counters, queue_high_watermark, producer,
                 consumer, offered, taken, reported>>

\* The producer is absent, so the head that clear() loads is still current.
ClearEmpty(o) ==
  /\ observer[o].step = "empty"
  /\ tail' = head
  /\ discarded' = discarded + Depth
  /\ Observe(o, [observer[o] EXCEPT !.step = "tail_before"])
  /\ UNCHANGED <<head, frames, counters, queue_high_watermark, producer,
                 consumer, offered, taken, reported>>

DepthTailBefore(o) ==
  /\ observer[o].step = "tail_before"
  /\ Observe(o, [observer[o] EXCEPT !.step = "head", !.tail = tail])
  /\ UNCHANGED <<ring, counters, queue_high_watermark, producer, consumer,
                 history>>

DepthHead(o) ==
  /\ observer[o].step = "head"
  /\ Observe(o, [observer[o] EXCEPT !.step = "tail_after", !.head = head,
                                    !.depth_then = Depth])
  /\ UNCHANGED <<ring, counters, queue_high_watermark, producer, consumer,
                 history>>

\* Bug: tail is not compared with its first load.
CoherentUnchecked(o) == Distance(observer[o].head, tail) <= Capacity

\* coherent_depth() starts over unless both loads of tail agree and the
\* distance is one the ring can have.
Coherent(o) == /\ tail = observer[o].tail
               /\ Distance(observer[o].head, tail) <= Capacity

DepthRetry(o) ==
  /\ observer[o].step = "tail_after"
  /\ ~Coherent(o)
  /\ Observe(o, [observer[o] EXCEPT !.step = "tail_before"])
  /\ UNCHANGED <<ring, counters, queue_high_watermark, producer, consumer,
                 history>>

\* The loads of the counters of a plain snapshot change nothing and each is
\* an independent observation: the call is over once it has its depth.
DepthAccept(o) ==
  /\ observer[o].step = "tail_after"
  /\ Coherent(o)
  /\ Observe(o, IF observer[o].op = "snapshot" THEN NoCall
                ELSE [observer[o] EXCEPT
                        !.step = IF observer[o].again THEN "raise"
                                 ELSE "exchange",
                        !.depth = Distance(observer[o].head, tail)])
  /\ UNCHANGED <<ring, counters, queue_high_watermark, producer, consumer,
                 history>>

\* Bug: all counters are zeroed when the first one has been read.
SnapshotExchangeAll(o) ==
  /\ observer[o].step = "exchange"
  /\ LET c == ExchangeOrder[observer[o].next]
         last == observer[o].next = Len(ExchangeOrder) IN
       /\ reported' = [reported EXCEPT ![c] = @ + counters[c]]
       /\ counters' = [n \in CounterNames |-> 0]
       /\ Observe(o, [observer[o] EXCEPT
                        !.step = IF last THEN "watermark" ELSE "exchange",
                        !.next = IF last THEN 1 ELSE @ + 1])
  /\ UNCHANGED <<ring, queue_high_watermark, producer, consumer, offered,
                 taken, discarded>>

SnapshotExchange(o) ==
  /\ observer[o].step = "exchange"
  /\ LET c == ExchangeOrder[observer[o].next]
         last == observer[o].next = Len(ExchangeOrder) IN
       /\ reported' = [reported EXCEPT ![c] = @ + counters[c]]
       /\ counters' = [counters EXCEPT ![c] = 0]
       /\ Observe(o, [observer[o] EXCEPT
                        !.step = IF last THEN "watermark" ELSE "exchange",
                        !.next = IF last THEN 1 ELSE @ + 1])
  /\ UNCHANGED <<ring, queue_high_watermark, producer, consumer, offered,
                 taken, discarded>>

\* Bug: the watermark is not repaired after the exchange.
SnapshotWatermarkOnly(o) ==
  /\ observer[o].step = "watermark"
  /\ queue_high_watermark' = observer[o].depth
  /\ Observe(o, IF observer[o].op = "clear"
                THEN [observer[o] EXCEPT !.step = "zero"] ELSE NoCall)
  /\ UNCHANGED <<ring, counters, producer, consumer, history>>

SnapshotWatermark(o) ==
  /\ observer[o].step = "watermark"
  /\ queue_high_watermark' = observer[o].depth
  /\ Observe(o, [observer[o] EXCEPT !.step = "tail_before", !.again = TRUE])
  /\ UNCHANGED <<ring, counters, producer, consumer, history>>

\* ensure_watermark_at_least(), an atomic maximum like update_watermark().
SnapshotRaise(o) ==
  /\ observer[o].step = "raise"
  /\ queue_high_watermark' =
       AtLeast(queue_high_watermark, observer[o].depth)
  /\ Observe(o, IF observer[o].op = "clear"
                THEN [observer[o] EXCEPT !.step = "zero"] ELSE NoCall)
  /\ UNCHANGED <<ring, counters, producer, consumer, history>>

ClearZero(o) ==
  /\ observer[o].step = "zero"
  /\ queue_high_watermark' = 0
  /\ Observe(o, NoCall)
  /\ UNCHANGED <<ring, counters, producer, consumer, history>>

-----------------------------------------------------------------------------
Push == \/ PushReceived \/ PushLoadTail \/ PushDrop \/ PushOverflow
        \/ PushWrite \/ PushPublish \/ PushWatermark \/ PushQueued
Pop == PopLoadHead \/ PopRead \/ PopAdvance \/ PopDelivered
Snapshot(o) == \/ SnapshotCall(o) \/ DepthTailBefore(o) \/ DepthHead(o)
               \/ DepthRetry(o) \/ DepthAccept(o) \/ SnapshotExchange(o)
               \/ SnapshotWatermark(o) \/ SnapshotRaise(o)
Clear(o) == ClearCall(o) \/ ClearEmpty(o) \/ ClearZero(o)

Next == \/ Push \/ RecordEvent
        \/ Pop
        \/ \E o \in Observers : Snapshot(o) \/ Clear(o)

Spec == Init /\ [][Next]_vars

-----------------------------------------------------------------------------
(***************************************************************************)
(* Properties.                                                             *)
(***************************************************************************)

\* The producer copies into a slot while the consumer copies out of one; they
\* are never the same slot, so no frame is torn and frames_ needs no lock.
NoSlotRace ==
  producer.step = "write" /\ consumer.step = "read" => Slot(head) # Slot(tail)

\* The indices never drift further apart than the storage, although push()
\* decides with a tail that pop() may already have moved, and although size_t
\* wraps.
DepthBounded == Depth <= Capacity

\* A depth that coherent_depth() accepted is the true depth of the instant at
\* which it loaded head, however the consumer moved around its three loads
\* (frame_ring.hpp:17-22).
DepthIsCoherent ==
  \A o \in Observers :
    observer[o].step \in {"exchange", "watermark", "raise"} =>
      \/ observer[o].depth = observer[o].depth_then
      \/ observer[o].again /\ observer[o].step # "raise"

\* A reset can overwrite a watermark that a push raised just before, and must
\* repair it: outside the window between publishing a frame and raising the
\* watermark, and outside the window between a reset's exchange and its
\* repair, the watermark is never below the live depth (can_bus.h:68-70).
WatermarkCoversDepth ==
  /\ producer.step # "watermark"
  /\ \A o \in Observers : ~observer[o].again
  => queue_high_watermark >= Depth

Total(c) == counters[c] + reported[c]

\* No event is lost or counted twice, whatever resets race the increments:
\* between two calls what the snapshots returned and what the counters still
\* hold together account for every frame ever offered, and the accepted
\* frames are delivered, discarded by clear() or still queued.
Accounting ==
  /\ producer.step = "idle" =>
       /\ Total("received") = offered
       /\ Total("received") = Total("queued") + Total("dropped")
       /\ Total("dropped") = Total("overflows")
  /\ producer.step = "idle" /\ consumer.step = "idle" =>
       Total("queued") = Total("delivered") + discarded + Depth

\* The frames between tail and head, oldest first.
Queued == [i \in 1 .. Depth |-> frames[Slot((tail + i - 1) % Modulus)]]

Abstract ==
  INSTANCE FrameQueue WITH
    arriving <- producer.step \in {"load", "write", "publish"},
    queue <- Queued,
    refused <- Total("dropped") + (IF producer.step = "drop" THEN 1 ELSE 0)

\* The ring is a bounded FIFO: every accepted frame comes out once, unharmed
\* and in order, and a frame is refused only if the ring was full at some
\* instant of its push().
ImplementsFrameQueue == Abstract!Spec

=============================================================================

--------------------------- MODULE FrameRingProofs ---------------------------
(***************************************************************************)
(* For every capacity, every width of size_t that is a multiple of it,     *)
(* every starting index, any number of frames and any set of observers:    *)
(* the ring is well typed, its indices stay within the capacity of each    *)
(* other, the two copies never meet in a slot, and no event is lost from   *)
(* the counters.                                                           *)
(***************************************************************************)
EXTENDS FrameRing, TLAPS

(***************************************************************************)
(* Arithmetic on indices.                                                  *)
(***************************************************************************)
LEMMA ConstantFacts ==
  /\ Capacity \in Nat /\ Capacity > 0
  /\ Modulus \in Nat /\ Modulus > Capacity
  /\ InitialIndex \in Index
BY CapacityAssumption, ModulusAssumption, InitialIndexAssumption DEF Index

\* The distance from a tail to a head is less than a turn, and 0 if they agree.
LEMMA DistanceFacts ==
  ASSUME NEW h \in Index, NEW t \in Index
  PROVE  /\ Distance(h, t) \in 0 .. Modulus - 1
         /\ Distance(h, t) = 0 <=> h = t
BY ConstantFacts DEF Index, Distance

\* Publishing a frame.
LEMMA IncHead ==
  ASSUME NEW h \in Index, NEW t \in Index, Distance(h, t) < Capacity
  PROVE  /\ Inc(h) \in Index
         /\ Distance(Inc(h), t) = Distance(h, t) + 1
BY ConstantFacts DEF Index, Distance, Inc

\* Consuming one.
LEMMA IncTail ==
  ASSUME NEW h \in Index, NEW t \in Index, h # t
  PROVE  /\ Inc(t) \in Index
         /\ Distance(h, Inc(t)) = Distance(h, t) - 1
BY ConstantFacts DEF Index, Distance, Inc

\* An index has a slot.
LEMMA SlotFacts ==
  ASSUME NEW i \in Index
  PROVE  /\ Slot(i) \in Slots
         /\ i \div Capacity \in Nat
         /\ i = Capacity * (i \div Capacity) + Slot(i)
BY ConstantFacts, SMT DEF Index, Slot, Slots

\* A non-zero multiple of a positive number is not smaller than it.
LEMMA NoSmallMultiple ==
  ASSUME NEW n \in Nat, n > 0, NEW k \in Int, NEW d \in Nat,
         n * k = d, d > 0, d < n
  PROVE  FALSE
<1>1. k >= 1 => n * k >= n
  OBVIOUS
<1>2. k <= 0 => n * k <= 0
  OBVIOUS
<1>3. k >= 1 \/ k <= 0
  OBVIOUS
<1> QED
  BY <1>1, <1>2, <1>3

\* Two indices less than the capacity apart use different slots, across the
\* wrap of size_t too, because the capacity divides the modulus.
LEMMA SlotsDiffer ==
  ASSUME NEW h \in Index, NEW t \in Index,
         Distance(h, t) > 0, Distance(h, t) < Capacity
  PROVE  Slot(h) # Slot(t)
<1> DEFINE p == h \div Capacity
           q == t \div Capacity
           m == Modulus \div Capacity
<1>1. /\ p \in Nat /\ h = Capacity * p + Slot(h)
      /\ q \in Nat /\ t = Capacity * q + Slot(t)
      /\ Slot(h) \in Nat /\ Slot(t) \in Nat
  BY SlotFacts, ConstantFacts DEF Slots
<1>2. m \in Nat /\ Modulus = Capacity * m
  BY ConstantFacts, ModulusAssumption, SMT
<1>3. Distance(h, t) \in Nat
  BY DistanceFacts, ConstantFacts
<1> HIDE DEF p, q, m
<1> SUFFICES ASSUME Slot(h) = Slot(t) PROVE FALSE
  OBVIOUS
<1>4. h - t = Capacity * (p - q)
  BY <1>1, ConstantFacts
<1>5. CASE h >= t
  <2>1. Capacity * (p - q) = Distance(h, t)
    BY <1>4, <1>5 DEF Distance
  <2> QED
    BY <2>1, <1>1, <1>3, ConstantFacts, NoSmallMultiple
<1>6. CASE ~(h >= t)
  <2>1. Capacity * (p - q + m) = Capacity * (p - q) + Capacity * m
    BY <1>1, <1>2, ConstantFacts
  <2>2. Capacity * (p - q + m) = Distance(h, t)
    BY <2>1, <1>2, <1>4, <1>6 DEF Distance
  <2> QED
    BY <2>2, <1>1, <1>2, <1>3, ConstantFacts, NoSmallMultiple
<1> QED
  BY <1>5, <1>6

\* The counters a clear exchanges, in their order.
LEMMA OrderFacts ==
  /\ Len(ExchangeOrder) = 6
  /\ \A n \in 1 .. 6 : ExchangeOrder[n] \in CounterNames
BY DEF ExchangeOrder, CounterNames

(***************************************************************************)
(* The inductive invariant.  The tail that push() loaded is old: it bounds *)
(* the depth from above until the frame is published.                      *)
(***************************************************************************)
RingInv ==
  /\ Depth <= Capacity
  /\ producer.step \in {"write", "publish"} =>
       /\ Distance(head, producer.tail) < Capacity
       /\ Depth <= Distance(head, producer.tail)
  /\ producer.step = "watermark" => Distance(head, producer.tail) <= Capacity
  /\ consumer.step \in {"read", "advance"} => tail # head

\* clear() excludes the producer and the consumer.
ClearInv ==
  /\ \A o \in Observers :
       observer[o].step = "empty" => observer[o].op = "clear"
  /\ Clearing => producer.step = "idle" /\ consumer.step = "idle"

\* The counters, with the steps in which an event has been counted in one of
\* them and not yet in the other.
CountInv ==
  /\ Total("received") = offered
  /\ Total("received") = Total("queued") + Total("dropped")
       + (IF producer.step \in {"idle", "overflow"} THEN 0 ELSE 1)
  /\ Total("dropped") = Total("overflows")
       + (IF producer.step = "overflow" THEN 1 ELSE 0)
  /\ Total("queued") + (IF producer.step \in {"watermark", "count"} THEN 1
                        ELSE 0)
     = Total("delivered") + (IF consumer.step = "count" THEN 1 ELSE 0)
         + discarded + Depth

IInv == TypeOK /\ RingInv /\ ClearInv /\ CountInv

-----------------------------------------------------------------------------
(***************************************************************************)
(* Lemmas about single steps.                                              *)
(***************************************************************************)
LEMMA ObserveType ==
  ASSUME TypeOK, NEW o \in Observers, NEW to \in Calls, Observe(o, to)
  PROVE  observer' \in [Observers -> Calls]
BY DEF TypeOK, Observe

\* The counters keep their types, and one alone counts.
LEMMA CountType ==
  ASSUME TypeOK, NEW c \in CounterNames, Count(c)
  PROVE  /\ counters' \in [CounterNames -> Nat]
         /\ counters'[c] = counters[c] + 1
         /\ \A n \in CounterNames \ {c} : counters'[n] = counters[n]
BY DEF TypeOK, Count

\* The depth never exceeds the capacity.
LEMMA DepthType ==
  ASSUME TypeOK, RingInv
  PROVE  Depth \in 0 .. Capacity
BY DistanceFacts, ConstantFacts DEF TypeOK, RingInv, Depth

\* An observer that makes no call has the type of one.
LEMMA NoCallType == NoCall \in Calls
BY ConstantFacts, OrderFacts DEF NoCall, Calls, ObserverSteps, Index

\* A call in progress may change its locals, never what it is.
LEMMA ObserveClear ==
  ASSUME TypeOK, ClearInv, NEW o \in Observers, NEW to \in Calls,
         Observe(o, to), to.step # "empty",
         to.op = "clear" => observer[o].op = "clear"
  PROVE  /\ Clearing' => Clearing
         /\ \A p \in Observers :
              observer'[p].step = "empty" => observer'[p].op = "clear"
BY DEF TypeOK, ClearInv, Observe, Clearing

\* The producer keeps the invariant: publishing adds one to a depth that the
\* old tail proves to be below the capacity.
LEMMA PushStep ==
  ASSUME IInv, Push
  PROVE  IInv'
<1> USE DEF IInv
<1>0. /\ TypeOK /\ RingInv /\ ClearInv /\ CountInv
      /\ head \in Index /\ tail \in Index /\ producer.tail \in Index
      /\ Depth \in Nat
  BY DepthType, ConstantFacts DEF TypeOK
<1>1. CASE PushReceived
  <2>1. TypeOK'
    BY <1>0, <1>1, BoundAssumption, CountType
    DEF PushReceived, ring, history, TypeOK, Frames, ProducerSteps,
        CounterNames
  <2>2. RingInv'
    BY <1>0, <1>1, ConstantFacts
    DEF PushReceived, ring, history, RingInv, Depth, TypeOK
  <2>3. ClearInv'
    BY <1>0, <1>1 DEF PushReceived, ring, history, ClearInv, Clearing
  <2>4. CountInv'
    BY <1>0, <1>1, CountType
    DEF PushReceived, ring, history, CountInv, Total, Depth,
        TypeOK, CounterNames
  <2> QED
    BY <2>1, <2>2, <2>3, <2>4
<1>2. CASE PushLoadTail
  <2>1. TypeOK'
    BY <1>0, <1>2, ConstantFacts
    DEF PushLoadTail, ring, history, TypeOK, Frames, ProducerSteps
  <2>2. RingInv'
    BY <1>0, <1>2, ConstantFacts
    DEF PushLoadTail, ring, history, RingInv, Depth, TypeOK
  <2>3. ClearInv'
    BY <1>0, <1>2 DEF PushLoadTail, ring, history, ClearInv, Clearing
  <2>4. CountInv'
    BY <1>0, <1>2
    DEF PushLoadTail, ring, history, CountInv, Total, Depth,
        TypeOK, CounterNames
  <2> QED
    BY <2>1, <2>2, <2>3, <2>4
<1>3. CASE PushDrop
  <2>1. TypeOK'
    BY <1>0, <1>3, ConstantFacts, CountType
    DEF PushDrop, ring, history, TypeOK, Frames, ProducerSteps,
        CounterNames
  <2>2. RingInv'
    BY <1>0, <1>3, ConstantFacts
    DEF PushDrop, ring, history, RingInv, Depth, TypeOK
  <2>3. ClearInv'
    BY <1>0, <1>3 DEF PushDrop, ring, history, ClearInv, Clearing
  <2>4. CountInv'
    BY <1>0, <1>3, CountType
    DEF PushDrop, ring, history, CountInv, Total, Depth,
        TypeOK, CounterNames
  <2> QED
    BY <2>1, <2>2, <2>3, <2>4
<1>4. CASE PushOverflow
  <2>1. TypeOK'
    BY <1>0, <1>4, ConstantFacts, CountType
    DEF PushOverflow, ring, history, TypeOK, Frames, ProducerSteps,
        CounterNames
  <2>2. RingInv'
    BY <1>0, <1>4, ConstantFacts
    DEF PushOverflow, ring, history, RingInv, Depth, TypeOK
  <2>3. ClearInv'
    BY <1>0, <1>4 DEF PushOverflow, ring, history, ClearInv, Clearing
  <2>4. CountInv'
    BY <1>0, <1>4, CountType
    DEF PushOverflow, ring, history, CountInv, Total, Depth,
        TypeOK, CounterNames
  <2> QED
    BY <2>1, <2>2, <2>3, <2>4
<1>5. CASE PushWrite
  <2>1. TypeOK'
    BY <1>0, <1>5, ConstantFacts
    DEF PushWrite, ring, history, TypeOK, Frames, ProducerSteps
  <2>2. RingInv'
    BY <1>0, <1>5, ConstantFacts
    DEF PushWrite, ring, history, RingInv, Depth, TypeOK
  <2>3. ClearInv'
    BY <1>0, <1>5 DEF PushWrite, ring, history, ClearInv, Clearing
  <2>4. CountInv'
    BY <1>0, <1>5
    DEF PushWrite, ring, history, CountInv, Total, Depth,
        TypeOK, CounterNames
  <2> QED
    BY <2>1, <2>2, <2>3, <2>4
<1>6. CASE PushPublish
  <2>0. /\ Inc(head) \in Index
        /\ Distance(Inc(head), tail) = Depth + 1
        /\ Distance(Inc(head), producer.tail)
             = Distance(head, producer.tail) + 1
        /\ Distance(head, producer.tail) \in Nat
        /\ Distance(head, producer.tail) < Capacity
        /\ Depth <= Distance(head, producer.tail)
    <3>1. /\ Distance(head, producer.tail) < Capacity
          /\ Depth <= Distance(head, producer.tail)
      BY <1>0, <1>6 DEF PushPublish, RingInv
    <3>2. Distance(head, producer.tail) \in Nat
      BY <1>0, DistanceFacts, ConstantFacts
    <3>3. Depth < Capacity
      BY <1>0, <3>1, <3>2, ConstantFacts
    <3> QED
      BY <1>0, <3>1, <3>2, <3>3, IncHead DEF Depth
  <2>1. TypeOK'
    BY <1>0, <1>6, <2>0
    DEF PushPublish, ring, history, TypeOK, ProducerSteps
  <2>2. RingInv'
    <3>1. /\ Depth' = Depth + 1
          /\ Distance(head', producer'.tail)
               = Distance(head, producer.tail) + 1
          /\ producer'.step = "watermark"
          /\ tail' = tail /\ head' \in Index
      BY <1>0, <1>6, <2>0 DEF PushPublish, TypeOK, Depth
    <3>2. tail' # head'
      BY <1>0, <2>0, <3>1, DistanceFacts DEF Depth
    <3> QED
      BY <1>0, <2>0, <3>1, <3>2, ConstantFacts DEF RingInv
  <2>3. ClearInv'
    BY <1>0, <1>6 DEF PushPublish, ring, history, ClearInv, Clearing
  <2>4. CountInv'
    <3>1. Depth' = Depth + 1 /\ producer'.step = "watermark"
      BY <1>0, <1>6, <2>0 DEF PushPublish, TypeOK, Depth
    <3> QED
      BY <1>0, <1>6, <3>1
      DEF PushPublish, ring, history, CountInv, Total, TypeOK, CounterNames
  <2> QED
    BY <2>1, <2>2, <2>3, <2>4
<1>7. CASE PushWatermark
  <2>1. TypeOK'
    <3>1. /\ Distance(head, producer.tail) \in 0 .. Capacity
      BY <1>0, <1>7, DistanceFacts, ConstantFacts DEF PushWatermark, RingInv
    <3>2. queue_high_watermark' \in 0 .. Capacity
      BY <1>0, <1>7, <3>1, ConstantFacts DEF PushWatermark, AtLeast, TypeOK
    <3> QED
      BY <1>0, <1>7, <3>2
      DEF PushWatermark, ring, history, TypeOK, ProducerSteps
  <2>2. RingInv'
    BY <1>0, <1>7 DEF PushWatermark, ring, history, RingInv, Depth, TypeOK
  <2>3. ClearInv'
    BY <1>0, <1>7 DEF PushWatermark, ring, history, ClearInv, Clearing
  <2>4. CountInv'
    BY <1>0, <1>7
    DEF PushWatermark, ring, history, CountInv, Total, Depth,
        TypeOK
  <2> QED
    BY <2>1, <2>2, <2>3, <2>4
<1>8. CASE PushQueued
  <2>1. TypeOK'
    BY <1>0, <1>8, ConstantFacts, CountType
    DEF PushQueued, ring, history, TypeOK, Frames, ProducerSteps,
        CounterNames
  <2>2. RingInv'
    BY <1>0, <1>8, ConstantFacts
    DEF PushQueued, ring, history, RingInv, Depth, TypeOK
  <2>3. ClearInv'
    BY <1>0, <1>8 DEF PushQueued, ring, history, ClearInv, Clearing
  <2>4. CountInv'
    <3>1. /\ Total("queued")' = Total("queued") + 1
          /\ \A n \in CounterNames \ {"queued"} : Total(n)' = Total(n)
          /\ Depth' = Depth
          /\ producer'.step = "idle"
          /\ \A n \in CounterNames : Total(n) \in Nat
      BY <1>0, <1>8, CountType
      DEF PushQueued, ring, history, Total, Depth, TypeOK, CounterNames
    <3> QED
      BY <1>0, <1>8, <3>1
      DEF PushQueued, ring, history, CountInv, TypeOK, CounterNames
  <2> QED
    BY <2>1, <2>2, <2>3, <2>4
<1> QED
  BY <1>1, <1>2, <1>3, <1>4, <1>5, <1>6, <1>7, <1>8 DEF Push

\* The driver-event counters are in none of the balances.
LEMMA RecordStep ==
  ASSUME IInv, RecordEvent
  PROVE  IInv'
<1> USE DEF IInv
<1>1. TypeOK'
  BY CountType DEF RecordEvent, ring, history, TypeOK, CounterNames
<1>2. RingInv'
  BY DEF RecordEvent, ring, history, RingInv, Depth
<1>3. ClearInv'
  BY DEF RecordEvent, ring, history, ClearInv, Clearing
<1>4. CountInv'
  <2>1. \A n \in CounterNames \ {"driver_events"} : Total(n)' = Total(n)
    BY CountType DEF RecordEvent, history, Total, CounterNames
  <2> QED
    BY <2>1
    DEF RecordEvent, ring, history, CountInv, Depth, CounterNames
<1> QED
  BY <1>1, <1>2, <1>3, <1>4

\* The consumer keeps the invariant: it advances only past a frame it saw.
LEMMA PopStep ==
  ASSUME IInv, Pop
  PROVE  IInv'
<1> USE DEF IInv
<1>0. /\ TypeOK /\ RingInv /\ ClearInv /\ CountInv
      /\ head \in Index /\ tail \in Index /\ producer.tail \in Index
      /\ Depth \in Nat
  BY DepthType, ConstantFacts DEF TypeOK
<1>1. CASE PopLoadHead
  <2>1. TypeOK'
    BY <1>0, <1>1 DEF PopLoadHead, ring, history, TypeOK, ConsumerSteps
  <2>2. RingInv'
    BY <1>0, <1>1 DEF PopLoadHead, ring, history, RingInv, Depth
  <2>3. ClearInv'
    BY <1>0, <1>1 DEF PopLoadHead, ring, history, ClearInv, Clearing
  <2>4. CountInv'
    BY <1>0, <1>1
    DEF PopLoadHead, ring, history, CountInv, Total, Depth, TypeOK
  <2> QED
    BY <2>1, <2>2, <2>3, <2>4
<1>2. CASE PopRead
  <2>1. TypeOK'
    BY <1>0, <1>2, SlotFacts
    DEF PopRead, ring, history, TypeOK, ConsumerSteps
  <2>2. RingInv'
    BY <1>0, <1>2 DEF PopRead, ring, history, RingInv, Depth
  <2>3. ClearInv'
    BY <1>0, <1>2 DEF PopRead, ring, history, ClearInv, Clearing
  <2>4. CountInv'
    BY <1>0, <1>2
    DEF PopRead, ring, history, CountInv, Total, Depth, TypeOK
  <2> QED
    BY <2>1, <2>2, <2>3, <2>4
<1>3. CASE PopAdvance
  <2>0. /\ Inc(tail) \in Index
        /\ Distance(head, Inc(tail)) = Depth - 1
        /\ Depth' = Depth - 1
        /\ consumer'.step = "count"
        /\ head' = head /\ producer' = producer
    BY <1>0, <1>3, IncTail DEF PopAdvance, RingInv, Depth, TypeOK
  <2>1. TypeOK'
    BY <1>0, <1>3, <2>0 DEF PopAdvance, TypeOK, ConsumerSteps
  <2>2. RingInv'
    <3>1. /\ producer.step \in {"write", "publish"} =>
               Distance(head, producer.tail) \in Nat
          /\ Depth - 1 <= Capacity
      BY <1>0, DistanceFacts, ConstantFacts DEF RingInv
    <3> QED
      BY <1>0, <2>0, <3>1, ConstantFacts DEF RingInv
  <2>3. ClearInv'
    BY <1>0, <1>3 DEF PopAdvance, ClearInv, Clearing
  <2>4. CountInv'
    <3>1. /\ \A n \in CounterNames : Total(n)' = Total(n)
          /\ \A n \in CounterNames : Total(n) \in Nat
          /\ offered' = offered /\ discarded' = discarded
      BY <1>0, <1>3 DEF PopAdvance, Total, TypeOK
    <3>2. consumer.step = "advance"
      BY <1>3 DEF PopAdvance
    <3> QED
      BY <1>0, <2>0, <3>1, <3>2 DEF CountInv, CounterNames, TypeOK
  <2> QED
    BY <2>1, <2>2, <2>3, <2>4
<1>4. CASE PopDelivered
  <2>1. TypeOK'
    BY <1>0, <1>4, CountType
    DEF PopDelivered, ring, history, TypeOK, ConsumerSteps, CounterNames
  <2>2. RingInv'
    BY <1>0, <1>4 DEF PopDelivered, ring, history, RingInv, Depth, TypeOK
  <2>3. ClearInv'
    BY <1>0, <1>4 DEF PopDelivered, ring, history, ClearInv, Clearing
  <2>4. CountInv'
    <3>1. /\ Total("delivered")' = Total("delivered") + 1
          /\ \A n \in CounterNames \ {"delivered"} : Total(n)' = Total(n)
          /\ Depth' = Depth
          /\ consumer'.step = "idle"
          /\ \A n \in CounterNames : Total(n) \in Nat
      BY <1>0, <1>4, CountType
      DEF PopDelivered, ring, history, Total, Depth, TypeOK, CounterNames
    <3>2. /\ consumer.step = "count"
          /\ UNCHANGED <<producer, offered, discarded>>
      BY <1>4 DEF PopDelivered, history
    <3> QED
      BY <1>0, <3>1, <3>2 DEF CountInv, TypeOK, CounterNames
  <2> QED
    BY <2>1, <2>2, <2>3, <2>4
<1> QED
  BY <1>1, <1>2, <1>3, <1>4 DEF Pop

\* A step of snapshot() or clear() that touches its own locals and the
\* watermark alone.
LEMMA CallStep ==
  ASSUME IInv, NEW o \in Observers, NEW to \in Calls,
         Observe(o, to), to.step # "empty",
         to.op = "clear" => observer[o].op = "clear",
         queue_high_watermark' \in 0 .. Capacity,
         UNCHANGED <<ring, counters, producer, consumer, history>>
  PROVE  IInv'
<1> USE DEF IInv
<1>1. TypeOK'
  BY ObserveType DEF ring, history, TypeOK
<1>2. RingInv'
  BY DEF ring, RingInv, Depth
<1>3. ClearInv'
  BY ObserveClear DEF ClearInv
<1>4. CountInv'
  BY DEF ring, history, CountInv, Total, Depth
<1> QED
  BY <1>1, <1>2, <1>3, <1>4

\* A step of snapshot() keeps the invariant.
LEMMA SnapshotStep ==
  ASSUME IInv, NEW o \in Observers, Snapshot(o)
  PROVE  IInv'
<1>0. /\ TypeOK /\ RingInv /\ ClearInv /\ CountInv
      /\ observer[o] \in Calls
      /\ Depth \in 0 .. Capacity
      /\ queue_high_watermark \in 0 .. Capacity
      /\ head \in Index /\ tail \in Index
  BY DepthType DEF IInv, TypeOK
<1>1. CASE SnapshotCall(o)
  <2>1. PICK op \in {"snapshot", "reset"} :
          Observe(o, [NoCall EXCEPT !.step = "tail_before", !.op = op])
    BY <1>1 DEF SnapshotCall
  <2>2. [NoCall EXCEPT !.step = "tail_before", !.op = op] \in Calls
    BY NoCallType DEF Calls, ObserverSteps
  <2> QED
    BY <1>0, <1>1, <2>1, <2>2, CallStep DEF SnapshotCall, NoCall
<1>2. CASE DepthTailBefore(o)
  <2>1. [observer[o] EXCEPT !.step = "head", !.tail = tail] \in Calls
    BY <1>0 DEF Calls, ObserverSteps
  <2> QED
    BY <1>0, <1>2, <2>1, CallStep DEF DepthTailBefore, Calls
<1>3. CASE DepthHead(o)
  <2>1. [observer[o] EXCEPT !.step = "tail_after", !.head = head,
                            !.depth_then = Depth] \in Calls
    BY <1>0 DEF Calls, ObserverSteps
  <2> QED
    BY <1>0, <1>3, <2>1, CallStep DEF DepthHead, Calls
<1>4. CASE DepthRetry(o)
  <2>1. [observer[o] EXCEPT !.step = "tail_before"] \in Calls
    BY <1>0 DEF Calls, ObserverSteps
  <2> QED
    BY <1>0, <1>4, <2>1, CallStep DEF DepthRetry, Calls
<1>5. CASE DepthAccept(o)
  <2> DEFINE accepted == [observer[o] EXCEPT
                            !.step = IF observer[o].again THEN "raise"
                                     ELSE "exchange",
                            !.depth = Distance(observer[o].head, tail)]
  <2>1. Distance(observer[o].head, tail) \in 0 .. Capacity
    <3>1. observer[o].head \in Index
      BY <1>0 DEF Calls
    <3> QED
      BY <1>0, <1>5, <3>1, DistanceFacts, ConstantFacts
      DEF DepthAccept, Coherent
  <2>2. accepted \in Calls
    BY <1>0, <2>1 DEF Calls, ObserverSteps
  <2>3. CASE observer[o].op = "snapshot"
    BY <1>0, <1>5, <2>3, NoCallType, CallStep DEF DepthAccept, NoCall
  <2>4. CASE observer[o].op # "snapshot"
    <3>1. Observe(o, accepted)
      BY <1>5, <2>4 DEF DepthAccept
    <3>2. accepted.op = observer[o].op /\ accepted.step # "empty"
      BY <1>0 DEF Calls
    <3> HIDE DEF accepted
    <3> QED
      BY <1>0, <1>5, <2>2, <3>1, <3>2, CallStep DEF DepthAccept
  <2> QED
    BY <2>3, <2>4
<1>6. CASE SnapshotWatermark(o)
  <2>1. [observer[o] EXCEPT !.step = "tail_before", !.again = TRUE] \in Calls
    BY <1>0 DEF Calls, ObserverSteps
  <2> QED
    BY <1>0, <1>6, <2>1, CallStep DEF SnapshotWatermark, Calls
<1>7. CASE SnapshotRaise(o)
  <2> DEFINE to == IF observer[o].op = "clear"
                   THEN [observer[o] EXCEPT !.step = "zero"] ELSE NoCall
  <2>1. to \in Calls
    BY <1>0, NoCallType DEF Calls, ObserverSteps
  <2>2. to.step # "empty" /\ (to.op = "clear" => observer[o].op = "clear")
    BY <1>0 DEF Calls, NoCall
  <2>3. queue_high_watermark' \in 0 .. Capacity
    BY <1>0, <1>7, ConstantFacts DEF SnapshotRaise, AtLeast, Calls
  <2>4. Observe(o, to)
    BY <1>7 DEF SnapshotRaise
  <2> HIDE DEF to
  <2> QED
    BY <1>0, <1>7, <2>1, <2>2, <2>3, <2>4, CallStep DEF SnapshotRaise
<1>8. CASE SnapshotExchange(o)
  <2> DEFINE c == ExchangeOrder[observer[o].next]
             last == observer[o].next = Len(ExchangeOrder)
             to == [observer[o] EXCEPT
                      !.step = IF last THEN "watermark" ELSE "exchange",
                      !.next = IF last THEN 1 ELSE @ + 1]
  <2>1. /\ reported' = [reported EXCEPT ![c] = @ + counters[c]]
        /\ counters' = [counters EXCEPT ![c] = 0]
        /\ Observe(o, to)
        /\ UNCHANGED <<ring, queue_high_watermark, producer, consumer,
                       offered, taken, discarded>>
    BY <1>8 DEF SnapshotExchange
  <2>2. c \in CounterNames
    BY <1>0, OrderFacts DEF Calls
  <2>3. to \in Calls
    <3>1. /\ observer[o].next \in 1 .. Len(ExchangeOrder)
          /\ Len(ExchangeOrder) = 6
      BY <1>0, OrderFacts DEF Calls
    <3>2. (IF last THEN 1 ELSE observer[o].next + 1)
            \in 1 .. Len(ExchangeOrder)
      BY <3>1
    <3>3. (IF last THEN "watermark" ELSE "exchange") \in ObserverSteps
      BY DEF ObserverSteps
    <3> HIDE DEF last
    <3> QED
      BY <1>0, <3>2, <3>3 DEF Calls
  <2>4. to.step # "empty" /\ to.op = observer[o].op
    BY <1>0 DEF Calls
  <2> HIDE DEF c, to
  <2>5. \A n \in CounterNames : Total(n)' = Total(n)
    BY <1>0, <2>1, <2>2 DEF Total, TypeOK
  <2>6. TypeOK'
    BY <1>0, <2>1, <2>2, <2>3, ObserveType DEF ring, TypeOK
  <2>7. RingInv'
    BY <1>0, <2>1 DEF ring, RingInv, Depth
  <2>8. ClearInv'
    BY <1>0, <2>1, <2>3, <2>4, ObserveClear DEF ClearInv
  <2>9. CountInv'
    BY <1>0, <2>1, <2>5 DEF ring, CountInv, Depth, CounterNames
  <2> QED
    BY <2>6, <2>7, <2>8, <2>9 DEF IInv
<1> QED
  BY <1>1, <1>2, <1>3, <1>4, <1>5, <1>6, <1>7, <1>8 DEF Snapshot

\* clear() empties the ring in one step, into its own history counter.
LEMMA ClearStep ==
  ASSUME IInv, NEW o \in Observers, Clear(o)
  PROVE  IInv'
<1>0. /\ TypeOK /\ RingInv /\ ClearInv /\ CountInv
      /\ observer[o] \in Calls
      /\ Depth \in 0 .. Capacity
      /\ head \in Index /\ tail \in Index
  BY DepthType DEF IInv, TypeOK
<1>1. CASE ClearCall(o)
  <2> DEFINE to == [NoCall EXCEPT !.step = "empty", !.op = "clear"]
  <2>1. to \in Calls
    BY NoCallType DEF Calls, ObserverSteps
  <2>2. to.op = "clear"
    BY DEF NoCall
  <2>3. Observe(o, to)
    BY <1>1 DEF ClearCall
  <2> HIDE DEF to
  <2>4. TypeOK'
    BY <1>0, <1>1, <2>1, <2>3, ObserveType
    DEF ClearCall, ring, history, TypeOK
  <2>5. RingInv'
    BY <1>0, <1>1 DEF ClearCall, ring, RingInv, Depth
  <2>6. ClearInv'
    <3>1. \A p \in Observers :
            observer'[p].step = "empty" => observer'[p].op = "clear"
      BY <1>0, <2>1, <2>2, <2>3 DEF Observe, ClearInv, TypeOK
    <3> QED
      BY <3>1, <1>1 DEF ClearCall, ClearInv
  <2>7. CountInv'
    BY <1>0, <1>1 DEF ClearCall, ring, history, CountInv, Total, Depth
  <2> QED
    BY <2>4, <2>5, <2>6, <2>7 DEF IInv
<1>2. CASE ClearEmpty(o)
  <2> DEFINE to == [observer[o] EXCEPT !.step = "tail_before"]
  <2>1. to \in Calls /\ to.step # "empty" /\ to.op = observer[o].op
    BY <1>0 DEF Calls, ObserverSteps
  <2>2. Observe(o, to)
    BY <1>2 DEF ClearEmpty
  <2> HIDE DEF to
  <2>3. producer.step = "idle" /\ consumer.step = "idle"
    BY <1>0, <1>2 DEF ClearEmpty, ClearInv, Clearing
  <2>4. /\ tail' = head /\ head' = head
        /\ discarded' = discarded + Depth
        /\ UNCHANGED <<frames, counters, queue_high_watermark, producer,
                       consumer, offered, taken, reported>>
    BY <1>2 DEF ClearEmpty
  <2>5. Depth' = 0
    BY <1>0, <2>4, DistanceFacts DEF Depth
  <2>6. TypeOK'
    BY <1>0, <2>1, <2>2, <2>4, ObserveType, ConstantFacts DEF TypeOK
  <2>7. RingInv'
    BY <2>3, <2>4, <2>5, ConstantFacts DEF RingInv
  <2>8. ClearInv'
    BY <1>0, <2>1, <2>2, <2>3, <2>4, ObserveClear DEF ClearInv
  <2>9. CountInv'
    <3>1. /\ \A n \in CounterNames : Total(n)' = Total(n)
          /\ \A n \in CounterNames : Total(n) \in Nat
      BY <1>0, <2>4 DEF Total, TypeOK
    <3> QED
      BY <1>0, <2>3, <2>4, <2>5, <3>1, ConstantFacts
      DEF CountInv, CounterNames, TypeOK
  <2> QED
    BY <2>6, <2>7, <2>8, <2>9 DEF IInv
<1>3. CASE ClearZero(o)
  <2>1. queue_high_watermark' \in 0 .. Capacity
    BY <1>3, ConstantFacts DEF ClearZero
  <2> QED
    BY <1>0, <1>3, <2>1, NoCallType, CallStep DEF ClearZero, NoCall
<1> QED
  BY <1>1, <1>2, <1>3 DEF Clear

-----------------------------------------------------------------------------
(***************************************************************************)
(* The theorems.                                                           *)
(***************************************************************************)
LEMMA InitInv == Init => IInv
<1> SUFFICES ASSUME Init PROVE IInv
  OBVIOUS
<1>1. InitialIndex \in Index /\ Distance(InitialIndex, InitialIndex) = 0
  BY ConstantFacts, DistanceFacts
<1>2. Depth = 0
  BY <1>1 DEF Init, Depth
<1>3. TypeOK
  BY <1>1, NoCallType, ConstantFacts, BoundAssumption
  DEF Init, TypeOK, Frames, ProducerSteps, ConsumerSteps
<1>4. RingInv
  BY <1>2, ConstantFacts DEF Init, RingInv
<1>5. ClearInv
  BY DEF Init, ClearInv, Clearing, NoCall
<1>6. CountInv
  BY <1>2 DEF Init, CountInv, Total, CounterNames
<1> QED
  BY <1>3, <1>4, <1>5, <1>6 DEF IInv

\* No step breaks the invariant.
LEMMA NextInv == IInv /\ [Next]_vars => IInv'
<1> SUFFICES ASSUME IInv, [Next]_vars PROVE IInv'
  OBVIOUS
<1>1. CASE UNCHANGED vars
  BY <1>1
  DEF vars, ring, history, IInv, TypeOK, RingInv, ClearInv, CountInv, Depth,
      Clearing, Total
<1>2. CASE Push
  BY <1>2, PushStep
<1>3. CASE RecordEvent
  BY <1>3, RecordStep
<1>4. CASE Pop
  BY <1>4, PopStep
<1>5. ASSUME NEW o \in Observers, Snapshot(o) \/ Clear(o) PROVE IInv'
  BY <1>5, SnapshotStep, ClearStep
<1> QED
  BY <1>1, <1>2, <1>3, <1>4, <1>5 DEF Next

\* The inductive invariant holds throughout.
THEOREM Invariance == Spec => []IInv
BY InitInv, NextInv, PTL DEF Spec

\* Every variable keeps its type; in particular the watermark, and every depth
\* that coherent_depth() returns, never exceeds the capacity.
THEOREM TypeCorrect == Spec => []TypeOK
<1>1. IInv => TypeOK
  BY DEF IInv
<1> QED
  BY <1>1, Invariance, PTL

\* The depth never exceeds the capacity, although push() decides with an old
\* tail and the indices wrap (frame_ring.hpp:49-51).
THEOREM DepthNeverExceedsCapacity == Spec => []DepthBounded
<1>1. IInv => DepthBounded
  BY DEF IInv, RingInv, DepthBounded
<1> QED
  BY <1>1, Invariance, PTL

\* The copy into a slot and the copy out of one never use the same slot
\* (frame_ring.hpp:57, 73): while push() writes, its old tail shows less than
\* a full ring, and while pop() reads, the ring is not empty.
THEOREM CopiesNeverMeet == Spec => []NoSlotRace
<1>1. ASSUME IInv, producer.step = "write", consumer.step = "read"
      PROVE  Slot(head) # Slot(tail)
  <2>1. head \in Index /\ tail \in Index /\ producer.tail \in Index
    BY <1>1 DEF IInv, TypeOK
  <2>2. Depth < Capacity /\ head # tail
    BY <1>1, <2>1, DepthType, DistanceFacts, ConstantFacts
    DEF IInv, RingInv
  <2>3. Distance(head, tail) > 0
    BY <2>1, <2>2, DistanceFacts, ConstantFacts
  <2> QED
    BY <2>1, <2>2, <2>3, SlotsDiffer DEF Depth
<1>2. IInv => NoSlotRace
  BY <1>1 DEF NoSlotRace
<1> QED
  BY <1>2, Invariance, PTL

\* Whatever resetting snapshots race the increments, no counted event is lost
\* or counted twice, and every accepted frame is delivered, discarded by
\* clear() or still queued (frame_ring.hpp:105-113).
THEOREM NothingIsLost == Spec => []Accounting
<1>1. ASSUME IInv
      PROVE  Accounting
  <2>1. \A n \in CounterNames : Total(n) \in Nat
    BY <1>1 DEF IInv, TypeOK, Total
  <2>2. Depth \in Nat /\ discarded \in Nat
    BY <1>1, DepthType, ConstantFacts DEF IInv, TypeOK
  <2> QED
    BY <1>1, <2>1, <2>2 DEF IInv, CountInv, Accounting, CounterNames
<1> QED
  BY <1>1, Invariance, PTL

=============================================================================

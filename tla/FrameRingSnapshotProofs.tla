----------------------- MODULE FrameRingSnapshotProofs -----------------------
(***************************************************************************)
(* What snapshot() tells, for every capacity, every width of size_t and    *)
(* any observers: the depth it accepts was true at one instant, and a      *)
(* reset leaves no watermark below the live depth.                         *)
(***************************************************************************)
EXTENDS FrameRingProofs

(***************************************************************************)
(* Tail only moves forward: how far it has come, and where it was after    *)
(* n moves.                                                                *)
(***************************************************************************)
Travelled == Total("delivered") + (IF consumer.step = "count" THEN 1 ELSE 0)
               + discarded
TailAfter(n) == (InitialIndex + n) % Modulus

TailInv == tail = TailAfter(Travelled)

\* The loads of an observer are those of one instant after the other.
Loads(call, travelled) ==
  /\ call.step = "head" =>
       \E n \in 0 .. travelled : call.tail = TailAfter(n)
  /\ call.step = "tail_after" =>
       \E n \in 0 .. travelled, m \in 0 .. travelled :
         /\ n <= m /\ call.tail = TailAfter(n)
         /\ call.depth_then = Distance(call.head, TailAfter(m))
  /\ call.step \in {"exchange", "watermark", "raise"} =>
       call.depth = call.depth_then
LoadInv == \A o \in Observers : Loads(observer[o], Travelled)

\* Which calls can be at which step.
HasDepth(call) == call.step \in {"exchange", "watermark", "raise"}
CallOk(call) ==
  /\ call.step = "idle" => ~call.again
  /\ call.step = "zero" => call.op = "clear"
  /\ call.again => call.op # "snapshot"
  /\ HasDepth(call) => call.op # "snapshot"
OpInv == \A o \in Observers : CallOk(observer[o])

\* clear() keeps the ring empty once it has emptied it.
HasEmptied(call) == call.op = "clear" /\ call.step # "empty"
EmptyInv == (\E o \in Observers : HasEmptied(observer[o])) => Depth = 0

\* The repair of a watermark has loaded a depth, and the one it has loaded
\* still covers a ring whose head is h and whose depth is d.
HasLoaded(call) == call.step \in {"tail_after", "raise"}
Covers(call, h, d) ==
  /\ call.again
  /\ \/ call.step = "tail_after" /\ call.head = h
     \/ call.step = "raise" /\ call.depth >= d

\* While no push() has yet to raise the watermark and no repair has yet to
\* look, the watermark covers the depth or a repair will see to it.
Raised == \/ queue_high_watermark >= Depth
          \/ \E o \in Observers : Covers(observer[o], head, Depth)
WatermarkInv ==
  /\ producer.step = "watermark" => Depth <= Distance(head, producer.tail)
  /\ \/ producer.step = "watermark"
     \/ \E o \in Observers : observer[o].again /\ ~HasLoaded(observer[o])
     \/ Raised

-----------------------------------------------------------------------------
(***************************************************************************)
(* Arithmetic on a size_t that wraps.                                      *)
(***************************************************************************)
\* A remainder is the only one of its kind.
LEMMA RemainderIs ==
  ASSUME NEW q \in Int, NEW r \in Index, NEW a \in Nat, a = Modulus * q + r
  PROVE  a % Modulus = r
<1> DEFINE p == a \div Modulus
<1> DEFINE s == a % Modulus
<1>1. /\ Modulus \in Nat \ {0} /\ p \in Int /\ s \in 0 .. Modulus - 1
      /\ a = Modulus * p + s /\ r \in 0 .. Modulus - 1
  BY ConstantFacts DEF Index
<1> HIDE DEF p, s
<1>2. /\ Modulus * (p - q) = r - s /\ Modulus * (q - p) = s - r
      /\ p - q \in Int /\ q - p \in Int
  BY <1>1
<1>3. ASSUME r - s > 0
      PROVE  FALSE
  <2> DEFINE d == r - s
  <2>1. d \in Nat /\ d > 0 /\ d < Modulus /\ Modulus * (p - q) = d
    BY <1>1, <1>2, <1>3
  <2> HIDE DEF d
  <2>2. Modulus \in Nat /\ Modulus > 0
    BY <1>1
  <2> QED
    BY <1>2, <2>1, <2>2, NoSmallMultiple
<1>4. ASSUME s - r > 0
      PROVE  FALSE
  <2> DEFINE d == s - r
  <2>1. d \in Nat /\ d > 0 /\ d < Modulus /\ Modulus * (q - p) = d
    BY <1>1, <1>2, <1>4
  <2> HIDE DEF d
  <2>2. Modulus \in Nat /\ Modulus > 0
    BY <1>1
  <2> QED
    BY <1>2, <2>1, <2>2, NoSmallMultiple
<1> QED
  BY <1>1, <1>3, <1>4 DEF s

\* Less than a turn further on, an index has wrapped once at most.
LEMMA FurtherOn ==
  ASSUME NEW n \in Nat, NEW d \in 0 .. Modulus - 1
  PROVE  TailAfter(n + d) = IF TailAfter(n) + d < Modulus
                            THEN TailAfter(n) + d
                            ELSE TailAfter(n) + d - Modulus
<1> DEFINE q == (InitialIndex + n) \div Modulus
<1> DEFINE t == TailAfter(n)
<1>1. /\ Modulus \in Nat \ {0} /\ InitialIndex \in Nat /\ q \in Int
      /\ t \in 0 .. Modulus - 1 /\ InitialIndex + n = Modulus * q + t
  BY ConstantFacts DEF Index, TailAfter
<1> HIDE DEF q, t
<1>2. InitialIndex + (n + d) \in Nat
  BY <1>1
<1>3. CASE t + d < Modulus
  <2>1. InitialIndex + (n + d) = Modulus * q + (t + d)
    BY <1>1
  <2>2. t + d \in Index
    BY <1>1, <1>3 DEF Index
  <2>3. TailAfter(n + d) = t + d
    BY <1>1, <1>2, <2>1, <2>2, RemainderIs DEF TailAfter
  <2> QED
    BY <1>3, <2>3 DEF t
<1>4. CASE ~(t + d < Modulus)
  <2>1. InitialIndex + (n + d) = Modulus * (q + 1) + (t + d - Modulus)
    <3>1. Modulus * (q + 1) = Modulus * q + Modulus
      BY <1>1
    <3> QED
      BY <1>1, <3>1
  <2>2. t + d - Modulus \in Index /\ q + 1 \in Int
    BY <1>1, <1>4 DEF Index
  <2>3. TailAfter(n + d) = t + d - Modulus
    BY <1>1, <1>2, <2>1, <2>2, RemainderIs DEF TailAfter
  <2> QED
    BY <1>4, <2>3 DEF t
<1> QED
  BY <1>3, <1>4

\* What that says of the moves of tail: one move, a move to head, and two
\* places less than a turn apart.
LEMMA TailAfterFacts ==
  ASSUME NEW n \in Nat
  PROVE  /\ TailAfter(n) \in Index
         /\ TailAfter(n + 1) = Inc(TailAfter(n))
         /\ \A h \in Index :
              TailAfter(n + Distance(h, TailAfter(n))) = h
         /\ \A d \in 0 .. Modulus - 1 :
              TailAfter(n + d) = TailAfter(n) => d = 0
<1>1. /\ Modulus \in Nat \ {0, 1} /\ InitialIndex \in Nat
      /\ TailAfter(n) \in Index
  BY ConstantFacts DEF Index, TailAfter
<1>2. TailAfter(n + 1) = Inc(TailAfter(n))
  <2>1. 1 \in 0 .. Modulus - 1
    BY <1>1
  <2>2. TailAfter(n + 1) = IF TailAfter(n) + 1 < Modulus
                           THEN TailAfter(n) + 1
                           ELSE TailAfter(n) + 1 - Modulus
    BY <2>1, FurtherOn
  <2> HIDE DEF TailAfter
  <2> QED
    BY <1>1, <2>2 DEF Inc, Index
<1>3. ASSUME NEW h \in Index
      PROVE  TailAfter(n + Distance(h, TailAfter(n))) = h
  <2> DEFINE d == Distance(h, TailAfter(n))
             t == TailAfter(n)
  <2>1. d \in 0 .. Modulus - 1 /\ t \in Index
    BY <1>1, DistanceFacts
  <2>2. d = IF h >= t THEN h - t ELSE (h - t) + Modulus
    BY DEF Distance
  <2> HIDE DEF d
  <2>3. TailAfter(n + d) = IF t + d < Modulus THEN t + d
                           ELSE t + d - Modulus
    BY <2>1, FurtherOn
  <2> HIDE DEF t
  <2>4. TailAfter(n + d) = h
    BY <1>1, <2>1, <2>2, <2>3 DEF Index
  <2> QED
    BY <2>4 DEF d
<1>4. ASSUME NEW d \in 0 .. Modulus - 1, TailAfter(n + d) = TailAfter(n)
      PROVE  d = 0
  <2> DEFINE t == TailAfter(n)
  <2>1. t = IF t + d < Modulus THEN t + d ELSE t + d - Modulus
    BY <1>4, FurtherOn
  <2>2. t \in Index
    BY <1>1
  <2> HIDE DEF t
  <2> QED
    BY <1>1, <2>1, <2>2 DEF Index
<1> QED
  BY <1>1, <1>2, <1>3, <1>4

-----------------------------------------------------------------------------
(***************************************************************************)
(* Where tail is.                                                          *)
(***************************************************************************)
\* Tail has not come further than the frames that were offered.
LEMMA TravelBound ==
  IInv => /\ Travelled \in Nat /\ Travelled <= MaxFrames
          /\ MaxFrames \in Nat /\ Depth \in Nat
<1> SUFFICES ASSUME IInv
             PROVE  /\ Travelled \in Nat /\ Travelled <= MaxFrames
                    /\ MaxFrames \in Nat /\ Depth \in Nat
  OBVIOUS
<1>1. /\ \A n \in CounterNames : Total(n) \in Nat
      /\ Depth \in Nat /\ discarded \in Nat /\ MaxFrames \in Nat
      /\ offered <= MaxFrames
  BY DepthType, ConstantFacts, BoundAssumption
     DEF IInv, TypeOK, Total, Frames
<1> QED
  BY <1>1 DEF IInv, CountInv, Travelled, CounterNames

\* A step moves tail by what it adds to how far tail has come.
LEMMA TailMoves ==
  ASSUME IInv, TailInv, [Next]_vars
  PROVE  TailInv' /\ Travelled' >= Travelled
<1>0. /\ TypeOK /\ \A n \in CounterNames : Total(n) \in Nat
      /\ Travelled \in Nat /\ Depth \in Nat /\ discarded \in Nat
  BY TravelBound DEF IInv, TypeOK, Total
<1> USE DEF ring, history
<1>1. CASE PopAdvance
  <2>1. Total("delivered")' = Total("delivered")
    BY <1>1 DEF PopAdvance, Total
  <2>2. Travelled' = Travelled + 1
    BY <1>0, <1>1, <2>1
       DEF PopAdvance, Travelled, TypeOK, CounterNames
  <2>3. tail' = Inc(tail)
    BY <1>1 DEF PopAdvance
  <2> QED
    BY <1>0, <2>2, <2>3, TailAfterFacts DEF TailInv
<1>2. ASSUME NEW o \in Observers, ClearEmpty(o)
      PROVE  TailInv' /\ Travelled' >= Travelled
  <2>1. /\ tail' = head /\ discarded' = discarded + Depth
        /\ UNCHANGED <<counters, reported, consumer>>
    BY <1>2 DEF ClearEmpty
  <2>2. Travelled' = Travelled + Depth
    BY <1>0, <2>1 DEF Travelled, Total, CounterNames
  <2>3. head \in Index
    BY <1>0 DEF TypeOK
  <2> QED
    BY <1>0, <2>1, <2>2, <2>3, TailAfterFacts DEF TailInv, Depth
<1>3. ASSUME tail' = tail, Travelled' = Travelled
      PROVE  TailInv' /\ Travelled' >= Travelled
  BY <1>0, <1>3 DEF TailInv, TailAfter
<1>4. CASE PopDelivered
  <2>1. Total("delivered")' = Total("delivered") + 1
    BY <1>0, <1>4, CountType DEF PopDelivered, Total, CounterNames, TypeOK
  <2>2. tail' = tail /\ Travelled' = Travelled
    BY <1>0, <1>4, <2>1 DEF PopDelivered, Travelled, TypeOK, CounterNames
  <2> QED
    BY <1>3, <2>2
<1>5. ASSUME NEW o \in Observers, SnapshotExchange(o)
      PROVE  TailInv' /\ Travelled' >= Travelled
  <2> DEFINE c == ExchangeOrder[observer[o].next]
  <2>1. /\ reported' = [reported EXCEPT ![c] = @ + counters[c]]
        /\ counters' = [counters EXCEPT ![c] = 0]
        /\ UNCHANGED <<tail, consumer, discarded>>
    BY <1>5 DEF SnapshotExchange
  <2> HIDE DEF c
  <2>2. Total("delivered")' = Total("delivered")
    BY <1>0, <2>1 DEF Total, TypeOK, CounterNames
  <2> QED
    BY <1>3, <2>1, <2>2 DEF Travelled
<1>6. CASE PopLoadHead \/ PopRead
  BY <1>0, <1>3, <1>6 DEF PopLoadHead, PopRead, Travelled, Total, TypeOK
<1>7. CASE Push \/ RecordEvent
  <2>1. UNCHANGED <<tail, consumer, discarded>>
    BY <1>7
       DEF Push, PushReceived, PushLoadTail, PushDrop, PushOverflow,
           PushWrite, PushPublish, PushWatermark, PushQueued, RecordEvent
  <2>2. Total("delivered")' = Total("delivered")
    BY <1>0, <1>7, CountType
       DEF Push, PushReceived, PushLoadTail, PushDrop, PushOverflow,
           PushWrite, PushPublish, PushWatermark, PushQueued, RecordEvent,
           Total, CounterNames
  <2> QED
    BY <1>3, <2>1, <2>2 DEF Travelled
<1>8. ASSUME NEW o \in Observers,
             \/ Snapshot(o) /\ ~SnapshotExchange(o)
             \/ ClearCall(o) \/ ClearZero(o)
      PROVE  TailInv' /\ Travelled' >= Travelled
  BY <1>3, <1>8
     DEF Snapshot, SnapshotCall, DepthTailBefore, DepthHead, DepthRetry,
         DepthAccept, SnapshotWatermark, SnapshotRaise, ClearCall, ClearZero,
         Travelled, Total
<1>9. CASE UNCHANGED vars
  BY <1>3, <1>9 DEF vars, Travelled, Total
<1> QED
  BY <1>1, <1>2, <1>4, <1>5, <1>6, <1>7, <1>8, <1>9 DEF Next, Pop, Clear

-----------------------------------------------------------------------------
(***************************************************************************)
(* The loads of coherent_depth().                                          *)
(***************************************************************************)
\* The call of one observer changes, no other does.
LEMMA ObserveIs ==
  ASSUME TypeOK, NEW o \in Observers, NEW to, Observe(o, to)
  PROVE  observer'[o] = to
         /\ \A p \in Observers : p # o => observer'[p] = observer[p]
BY DEF TypeOK, Observe

\* What was loaded stays loaded, however far tail comes.
LEMMA LoadsLast ==
  ASSUME NEW call, NEW n \in Nat, NEW m \in Nat, n <= m, Loads(call, n)
  PROVE  Loads(call, m)
<1>1. \A i \in 0 .. n : i \in 0 .. m
  OBVIOUS
<1> QED
  BY <1>1 DEF Loads

\* The step of an observer keeps the loads of all.
LEMMA LoadsKept ==
  ASSUME IInv, IInv', LoadInv, NEW o \in Observers, NEW to, Observe(o, to),
         Loads(to, Travelled'), Travelled' >= Travelled
  PROVE  LoadInv'
<1>1. Travelled \in Nat
  BY TravelBound
<1>2. Travelled' \in Nat
  <2>1. (IInv => /\ Travelled \in Nat /\ Travelled <= MaxFrames
                 /\ MaxFrames \in Nat /\ Depth \in Nat)'
    BY TravelBound, PTL
  <2> QED
    BY <2>1
<1>3. \A p \in Observers : Loads(observer[p], Travelled')
  BY <1>1, <1>2, LoadsLast DEF LoadInv
<1>4. \A p \in Observers : Loads(observer'[p], Travelled')
  BY <1>3, ObserveIs DEF IInv
<1> QED
  BY <1>4 DEF LoadInv, Loads, TailAfter, Distance

\* Any observer that accepts a depth accepts that of the instant at which it
\* loaded head, as long as tail does not come round a whole turn.
LEMMA LoadStep ==
  ASSUME MaxFrames < Modulus, IInv, IInv', TailInv, TailInv', LoadInv,
         Travelled' >= Travelled, [Next]_vars
  PROVE  LoadInv'
<1>0. /\ TypeOK /\ Travelled \in Nat /\ Travelled <= MaxFrames
      /\ MaxFrames \in Nat /\ Modulus \in Nat /\ tail = TailAfter(Travelled)
  BY TravelBound, ConstantFacts DEF IInv, TailInv
<1>1. Travelled' \in Nat
  <2>1. (IInv => /\ Travelled \in Nat /\ Travelled <= MaxFrames
                 /\ MaxFrames \in Nat /\ Depth \in Nat)'
    BY TravelBound, PTL
  <2> QED
    BY <2>1
<1>2. \A o \in Observers : Loads(observer[o], Travelled')
  BY <1>0, <1>1, LoadsLast DEF LoadInv
<1>3. CASE UNCHANGED observer
  BY <1>2, <1>3 DEF LoadInv, Loads, TailAfter, Distance
<1>4. ASSUME NEW o \in Observers, NEW to \in Calls, Observe(o, to),
             to.step \notin {"head", "tail_after", "exchange", "watermark",
                             "raise"}
      PROVE  LoadInv'
  BY <1>4, LoadsKept DEF Loads
<1>5. ASSUME NEW o \in Observers, Snapshot(o) \/ Clear(o)
      PROVE  LoadInv'
  <2>0. /\ observer[o] \in Calls /\ Loads(observer[o], Travelled')
        /\ Loads(observer[o], Travelled)
    BY <1>0, <1>2 DEF TypeOK, LoadInv
  <2>1. CASE DepthTailBefore(o)
    <3> DEFINE to == [observer[o] EXCEPT !.step = "head", !.tail = tail]
    <3>1. Observe(o, to) /\ Travelled' = Travelled
      BY <2>1 DEF DepthTailBefore, Travelled, Total, history
    <3>2. to.step = "head" /\ to.tail = TailAfter(Travelled)
      BY <1>0, <2>0 DEF Calls
    <3> HIDE DEF to
    <3>3. Loads(to, Travelled)
      BY <1>0, <3>2 DEF Loads
    <3> QED
      BY <3>1, <3>3, LoadsKept
  <2>2. CASE DepthHead(o)
    <3> DEFINE to == [observer[o] EXCEPT !.step = "tail_after",
                                         !.head = head,
                                         !.depth_then = Depth]
    <3>1. /\ Observe(o, to) /\ Travelled' = Travelled
          /\ observer[o].step = "head"
      BY <2>2 DEF DepthHead, Travelled, Total, history
    <3>2. /\ to.step = "tail_after" /\ to.tail = observer[o].tail
          /\ to.head = head /\ to.depth_then = Distance(head, tail)
      BY <2>0 DEF Calls, Depth
    <3> HIDE DEF to
    <3>3. PICK n \in 0 .. Travelled : observer[o].tail = TailAfter(n)
      BY <2>0, <3>1 DEF Loads
    <3>4. /\ n <= Travelled /\ to.tail = TailAfter(n)
          /\ Travelled \in 0 .. Travelled
          /\ to.depth_then = Distance(to.head, TailAfter(Travelled))
      BY <1>0, <3>2, <3>3
    <3>5. Loads(to, Travelled)
      BY <3>2, <3>4 DEF Loads
    <3> QED
      BY <3>1, <3>5, LoadsKept
  <2>3. CASE DepthAccept(o) /\ observer[o].op # "snapshot"
    <3> DEFINE to == [observer[o] EXCEPT
                        !.step = IF observer[o].again THEN "raise"
                                 ELSE "exchange",
                        !.depth = Distance(observer[o].head, tail)]
    <3>1. /\ Observe(o, to) /\ Travelled' = Travelled
          /\ observer[o].step = "tail_after" /\ tail = observer[o].tail
      BY <2>3 DEF DepthAccept, Coherent, Travelled, Total, history
    <3>2. /\ to.step \in {"raise", "exchange"}
          /\ to.depth = Distance(observer[o].head, tail)
          /\ to.depth_then = observer[o].depth_then
      BY <2>0 DEF Calls
    <3> HIDE DEF to
    <3>3. PICK n \in 0 .. Travelled, m \in 0 .. Travelled :
            /\ n <= m /\ observer[o].tail = TailAfter(n)
            /\ observer[o].depth_then
                 = Distance(observer[o].head, TailAfter(m))
      BY <2>0, <3>1 DEF Loads
    <3>4. n = Travelled
      <4> DEFINE d == Travelled - n
      <4>1. d \in 0 .. Modulus - 1 /\ n \in Nat /\ n + d = Travelled
        BY <1>0
      <4>2. TailAfter(n + d) = TailAfter(n)
        BY <1>0, <3>1, <3>3, <4>1
      <4> HIDE DEF d
      <4>3. d = 0
        BY <4>1, <4>2, TailAfterFacts
      <4> QED
        BY <4>1, <4>3
    <3>5. m = Travelled
      BY <1>0, <3>3, <3>4
    <3>6. to.depth = to.depth_then
      BY <1>0, <3>2, <3>3, <3>5
    <3>7. Loads(to, Travelled)
      BY <3>2, <3>6 DEF Loads
    <3> QED
      BY <3>1, <3>7, LoadsKept
  <2>4. CASE SnapshotExchange(o)
    <3> DEFINE last == observer[o].next = Len(ExchangeOrder)
               to == [observer[o] EXCEPT
                        !.step = IF last THEN "watermark" ELSE "exchange",
                        !.next = IF last THEN 1 ELSE @ + 1]
    <3>1. Observe(o, to) /\ observer[o].step = "exchange"
      BY <2>4 DEF SnapshotExchange
    <3>2. /\ to.step \in {"watermark", "exchange"}
          /\ to.depth = observer[o].depth
          /\ to.depth_then = observer[o].depth_then
      BY <2>0 DEF Calls
    <3> HIDE DEF to
    <3>3. Loads(to, Travelled')
      BY <2>0, <3>1, <3>2 DEF Loads
    <3> QED
      BY <3>1, <3>3, LoadsKept
  <2>5. CASE SnapshotCall(o)
    <3>1. PICK op \in {"snapshot", "reset"} :
            Observe(o, [NoCall EXCEPT !.step = "tail_before", !.op = op])
      BY <2>5 DEF SnapshotCall
    <3>2. [NoCall EXCEPT !.step = "tail_before", !.op = op] \in Calls
      BY NoCallType DEF Calls, ObserverSteps
    <3> QED
      BY <1>4, <3>1, <3>2 DEF NoCall
  <2>6. CASE DepthRetry(o) \/ ClearEmpty(o)
    <3> DEFINE to == [observer[o] EXCEPT !.step = "tail_before"]
    <3>1. Observe(o, to)
      BY <2>6 DEF DepthRetry, ClearEmpty
    <3>2. to \in Calls /\ to.step = "tail_before"
      BY <2>0 DEF Calls, ObserverSteps
    <3> HIDE DEF to
    <3> QED
      BY <1>4, <3>1, <3>2
  <2>7. CASE SnapshotWatermark(o)
    <3> DEFINE to == [observer[o] EXCEPT !.step = "tail_before",
                                         !.again = TRUE]
    <3>1. Observe(o, to)
      BY <2>7 DEF SnapshotWatermark
    <3>2. to \in Calls /\ to.step = "tail_before"
      BY <2>0 DEF Calls, ObserverSteps
    <3> HIDE DEF to
    <3> QED
      BY <1>4, <3>1, <3>2
  <2>8. CASE SnapshotRaise(o) /\ observer[o].op = "clear"
    <3> DEFINE to == [observer[o] EXCEPT !.step = "zero"]
    <3>1. Observe(o, to)
      BY <2>8 DEF SnapshotRaise
    <3>2. to \in Calls /\ to.step = "zero"
      BY <2>0 DEF Calls, ObserverSteps
    <3> HIDE DEF to
    <3> QED
      BY <1>4, <3>1, <3>2
  <2>9. CASE Observe(o, NoCall)
    BY <1>4, <2>9, NoCallType DEF NoCall
  <2>10. CASE ClearCall(o)
    <3> DEFINE to == [NoCall EXCEPT !.step = "empty", !.op = "clear"]
    <3>1. Observe(o, to)
      BY <2>10 DEF ClearCall
    <3>2. to \in Calls /\ to.step = "empty"
      BY NoCallType DEF NoCall, Calls, ObserverSteps
    <3> HIDE DEF to
    <3> QED
      BY <1>4, <3>1, <3>2
  <2> QED
    BY <1>5, <2>1, <2>2, <2>3, <2>4, <2>5, <2>6, <2>7, <2>8, <2>9, <2>10
       DEF Snapshot, Clear, DepthAccept, SnapshotRaise, ClearZero
<1>6. CASE Push \/ Pop \/ RecordEvent \/ UNCHANGED vars
  BY <1>3, <1>6
     DEF Push, PushReceived, PushLoadTail, PushDrop, PushOverflow, PushWrite,
         PushPublish, PushWatermark, PushQueued, Pop, PopLoadHead, PopRead,
         PopAdvance, PopDelivered, RecordEvent, vars
<1> QED
  BY <1>5, <1>6 DEF Next

\* At the start tail has not moved and no observer has loaded anything.
LEMMA LoadInit == Init => TailInv /\ LoadInv
<1> SUFFICES ASSUME Init
             PROVE  TailInv /\ LoadInv
  OBVIOUS
<1>1. Travelled = 0
  BY DEF Init, Travelled, Total, CounterNames
<1>2. TailAfter(0) = InitialIndex
  <2>1. InitialIndex \in Nat /\ InitialIndex < Modulus /\ Modulus \in Nat
    BY ConstantFacts DEF Index
  <2>2. InitialIndex = Modulus * 0 + InitialIndex /\ InitialIndex \in Index
    BY <2>1 DEF Index
  <2>3. InitialIndex % Modulus = InitialIndex
    BY <2>1, <2>2, RemainderIs
  <2> QED
    BY <2>1, <2>3 DEF TailAfter
<1>3. TailInv
  BY <1>1, <1>2 DEF Init, TailInv
<1>4. LoadInv
  BY DEF Init, LoadInv, Loads, NoCall
<1> QED
  BY <1>3, <1>4

\* Every depth that coherent_depth() accepts is the true depth of the instant
\* at which it loaded head, whatever the producer and the consumer did around
\* its three loads (frame_ring.hpp:17-22).  Equal loads of tail mean that tail
\* has not moved, unless it has come round a whole turn of size_t between
\* them: fewer frames than that are pushed.
THEOREM DepthWasTrue == MaxFrames < Modulus /\ Spec => []DepthIsCoherent
<1> DEFINE Coherence == MaxFrames < Modulus /\ TailInv /\ LoadInv
<1>1. MaxFrames < Modulus /\ Init => Coherence
  BY LoadInit
<1>2. IInv /\ IInv' /\ Coherence /\ [Next]_vars => Coherence'
  <2> SUFFICES ASSUME IInv, IInv', Coherence, [Next]_vars
               PROVE  Coherence'
    OBVIOUS
  <2>1. TailInv' /\ Travelled' >= Travelled
    BY TailMoves
  <2>2. LoadInv'
    BY <2>1, LoadStep
  <2> QED
    BY <2>1, <2>2
<1>3. Coherence => DepthIsCoherent
  BY DEF LoadInv, Loads, DepthIsCoherent
<1> HIDE DEF Coherence
<1> QED
  BY <1>1, <1>2, <1>3, Invariance, PTL DEF Spec

-----------------------------------------------------------------------------
(***************************************************************************)
(* The watermark and its repair.                                           *)
(***************************************************************************)
\* What the steps of an observer do to its call and to the ring.
LEMMA CallMoves ==
  ASSUME IInv, OpInv, NEW o \in Observers, Snapshot(o) \/ Clear(o)
  PROVE  \E to \in Calls :
           /\ Observe(o, to) /\ CallOk(to)
           /\ HasEmptied(to) => HasEmptied(observer[o]) \/ tail' = head
           /\ head' = head /\ producer' = producer
           /\ tail' = tail \/ ClearEmpty(o)
<1> DEFINE call == observer[o]
<1>0. TypeOK /\ call \in Calls /\ CallOk(call)
  BY DEF IInv, TypeOK, OpInv
<1>1. ASSUME NEW to \in Calls, Observe(o, to), CallOk(to),
             HasEmptied(to) => HasEmptied(call), UNCHANGED <<ring, producer>>
      PROVE  \E t \in Calls :
               /\ Observe(o, t) /\ CallOk(t)
               /\ HasEmptied(t) => HasEmptied(call) \/ tail' = head
               /\ head' = head /\ producer' = producer
               /\ tail' = tail \/ ClearEmpty(o)
  BY <1>1 DEF ring
<1>2. CASE SnapshotCall(o)
  <2>1. PICK op \in {"snapshot", "reset"} :
          Observe(o, [NoCall EXCEPT !.step = "tail_before", !.op = op])
    BY <1>2 DEF SnapshotCall
  <2> DEFINE to == [NoCall EXCEPT !.step = "tail_before", !.op = op]
  <2>2. /\ to \in Calls /\ CallOk(to) /\ ~HasEmptied(to)
        /\ UNCHANGED <<ring, producer>>
    BY <1>2, NoCallType
       DEF SnapshotCall, NoCall, Calls, ObserverSteps, CallOk, HasDepth,
           HasEmptied
  <2> QED
    BY <1>1, <2>1, <2>2
<1>3. CASE DepthTailBefore(o)
  <2> DEFINE to == [call EXCEPT !.step = "head", !.tail = tail]
  <2>1. /\ Observe(o, to) /\ call.step = "tail_before"
        /\ UNCHANGED <<ring, producer>>
    BY <1>3 DEF DepthTailBefore
  <2>2. to \in Calls
    BY <1>0 DEF Calls, ObserverSteps, TypeOK
  <2>3. /\ CallOk(to)
        /\ HasEmptied(to) => HasEmptied(call)
    BY <1>0, <2>1 DEF Calls, CallOk, HasDepth, HasEmptied
  <2> QED
    BY <1>1, <2>1, <2>2, <2>3
<1>4. CASE DepthHead(o)
  <2> DEFINE to == [call EXCEPT !.step = "tail_after", !.head = head,
                                !.depth_then = Depth]
  <2>1. /\ Observe(o, to) /\ call.step = "head"
        /\ UNCHANGED <<ring, producer>>
    BY <1>4 DEF DepthHead
  <2>2. to \in Calls
    BY <1>0, DepthType DEF Calls, ObserverSteps, TypeOK, IInv
  <2>3. /\ CallOk(to)
        /\ HasEmptied(to) => HasEmptied(call)
    BY <1>0, <2>1 DEF Calls, CallOk, HasDepth, HasEmptied
  <2> QED
    BY <1>1, <2>1, <2>2, <2>3
<1>5. CASE DepthRetry(o)
  <2> DEFINE to == [call EXCEPT !.step = "tail_before"]
  <2>1. /\ Observe(o, to) /\ call.step = "tail_after"
        /\ UNCHANGED <<ring, producer>>
    BY <1>5 DEF DepthRetry
  <2>2. to \in Calls
    BY <1>0 DEF Calls, ObserverSteps
  <2>3. /\ CallOk(to)
        /\ HasEmptied(to) => HasEmptied(call)
    BY <1>0, <2>1 DEF Calls, CallOk, HasDepth, HasEmptied
  <2> QED
    BY <1>1, <2>1, <2>2, <2>3
<1>6. ASSUME Observe(o, NoCall), UNCHANGED <<ring, producer>>
      PROVE  \E t \in Calls :
               /\ Observe(o, t) /\ CallOk(t)
               /\ HasEmptied(t) => HasEmptied(call) \/ tail' = head
               /\ head' = head /\ producer' = producer
               /\ tail' = tail \/ ClearEmpty(o)
  <2>1. NoCall \in Calls /\ CallOk(NoCall) /\ ~HasEmptied(NoCall)
    BY NoCallType DEF NoCall, CallOk, HasDepth, HasEmptied
  <2> QED
    BY <1>1, <1>6, <2>1
<1>7. CASE DepthAccept(o) /\ call.op # "snapshot"
  <2> DEFINE to == [call EXCEPT
                      !.step = IF call.again THEN "raise" ELSE "exchange",
                      !.depth = Distance(call.head, tail)]
  <2>1. /\ Observe(o, to) /\ call.step = "tail_after"
        /\ Distance(call.head, tail) <= Capacity
        /\ UNCHANGED <<ring, producer>>
    BY <1>7 DEF DepthAccept, Coherent
  <2>2. Distance(call.head, tail) \in 0 .. Capacity
    BY <1>0, <2>1, DistanceFacts, ConstantFacts DEF TypeOK, Calls
  <2>3. to \in Calls
    BY <1>0, <2>2 DEF Calls, ObserverSteps
  <2>4. /\ CallOk(to)
        /\ HasEmptied(to) => HasEmptied(call)
    BY <1>0, <1>7, <2>1 DEF Calls, CallOk, HasDepth, HasEmptied
  <2> QED
    BY <1>1, <2>1, <2>3, <2>4
<1>8. CASE SnapshotExchange(o)
  <2> DEFINE last == call.next = Len(ExchangeOrder)
             to == [call EXCEPT
                      !.step = IF last THEN "watermark" ELSE "exchange",
                      !.next = IF last THEN 1 ELSE @ + 1]
  <2>1. /\ Observe(o, to) /\ call.step = "exchange"
        /\ UNCHANGED <<ring, producer>>
    BY <1>8 DEF SnapshotExchange
  <2>2. to \in Calls
    <3> DEFINE next == IF last THEN 1 ELSE call.next + 1
               step == IF last THEN "watermark" ELSE "exchange"
    <3>1. next \in 1 .. Len(ExchangeOrder) /\ step \in ObserverSteps
      BY <1>0, OrderFacts DEF Calls, ObserverSteps
    <3>2. to = [call EXCEPT !.step = step, !.next = next]
      OBVIOUS
    <3> HIDE DEF next, step, to
    <3> QED
      BY <1>0, <3>1, <3>2 DEF Calls
  <2>3. /\ CallOk(to)
        /\ HasEmptied(to) => HasEmptied(call)
    BY <1>0, <2>1 DEF Calls, CallOk, HasDepth, HasEmptied
  <2> QED
    BY <1>1, <2>1, <2>2, <2>3
<1>9. CASE SnapshotWatermark(o)
  <2> DEFINE to == [call EXCEPT !.step = "tail_before", !.again = TRUE]
  <2>1. /\ Observe(o, to) /\ call.step = "watermark"
        /\ UNCHANGED <<ring, producer>>
    BY <1>9 DEF SnapshotWatermark
  <2>2. to \in Calls
    BY <1>0 DEF Calls, ObserverSteps
  <2>3. /\ CallOk(to)
        /\ HasEmptied(to) => HasEmptied(call)
    BY <1>0, <2>1 DEF Calls, CallOk, HasDepth, HasEmptied
  <2> QED
    BY <1>1, <2>1, <2>2, <2>3
<1>10. CASE SnapshotRaise(o) /\ call.op = "clear"
  <2> DEFINE to == [call EXCEPT !.step = "zero"]
  <2>1. /\ Observe(o, to) /\ call.step = "raise"
        /\ UNCHANGED <<ring, producer>>
    BY <1>10 DEF SnapshotRaise
  <2>2. to \in Calls
    BY <1>0 DEF Calls, ObserverSteps
  <2>3. /\ CallOk(to)
        /\ HasEmptied(to) => HasEmptied(call)
    BY <1>0, <1>10, <2>1 DEF Calls, CallOk, HasDepth, HasEmptied
  <2> QED
    BY <1>1, <2>1, <2>2, <2>3
<1>11. CASE ClearCall(o)
  <2> DEFINE to == [NoCall EXCEPT !.step = "empty", !.op = "clear"]
  <2>1. /\ Observe(o, to) /\ UNCHANGED <<ring, producer>>
    BY <1>11 DEF ClearCall
  <2>2. /\ to \in Calls /\ CallOk(to) /\ ~HasEmptied(to)
    BY NoCallType
       DEF NoCall, Calls, ObserverSteps, CallOk, HasDepth, HasEmptied
  <2> QED
    BY <1>1, <2>1, <2>2
<1>12. CASE ClearEmpty(o)
  <2> DEFINE to == [call EXCEPT !.step = "tail_before"]
  <2>1. /\ Observe(o, to) /\ call.step = "empty" /\ tail' = head
        /\ head' = head /\ producer' = producer
    BY <1>12 DEF ClearEmpty
  <2>2. to \in Calls
    BY <1>0 DEF Calls, ObserverSteps
  <2>3. CallOk(to)
    BY <1>0 DEF Calls, CallOk, HasDepth
  <2> HIDE DEF to
  <2> QED
    BY <1>12, <2>1, <2>2, <2>3
<1>13. CASE \/ DepthAccept(o) /\ call.op = "snapshot"
            \/ SnapshotRaise(o) /\ call.op # "clear"
            \/ ClearZero(o)
  BY <1>6, <1>13 DEF DepthAccept, SnapshotRaise, ClearZero
<1> QED
  BY <1>2, <1>3, <1>4, <1>5, <1>7, <1>8, <1>9, <1>10, <1>11, <1>12, <1>13
     DEF Snapshot, Clear

\* The steps of the producer and of the consumer leave the observers alone.
LEMMA OthersObserveNot ==
  Push \/ Pop \/ RecordEvent \/ UNCHANGED vars => UNCHANGED observer
BY DEF Push, PushReceived, PushLoadTail, PushDrop, PushOverflow, PushWrite,
       PushPublish, PushWatermark, PushQueued, Pop, PopLoadHead, PopRead,
       PopAdvance, PopDelivered, RecordEvent, vars

\* All that a call does it does in its own steps, in its own order.
LEMMA OpStep ==
  ASSUME IInv, OpInv, [Next]_vars
  PROVE  OpInv'
<1>1. CASE UNCHANGED observer
  BY <1>1 DEF OpInv, CallOk, HasDepth
<1>2. ASSUME NEW o \in Observers, Snapshot(o) \/ Clear(o)
      PROVE  OpInv'
  <2>1. PICK to \in Calls : Observe(o, to) /\ CallOk(to)
    BY <1>2, CallMoves
  <2>2. \A p \in Observers : CallOk(observer'[p])
    BY <2>1, ObserveIs DEF OpInv, IInv
  <2> QED
    BY <2>2 DEF OpInv, CallOk, HasDepth
<1> QED
  BY <1>1, <1>2, OthersObserveNot DEF Next

\* Only push() and pop() and clear() itself move the indices, and the former
\* two are excluded while clear() runs.
LEMMA EmptyStep ==
  ASSUME IInv, OpInv, EmptyInv, [Next]_vars
  PROVE  EmptyInv'
<1>0. /\ TypeOK /\ ClearInv /\ head \in Index
      /\ \A o \in Observers : HasEmptied(observer[o]) => Clearing
  BY DEF IInv, TypeOK, HasEmptied, Clearing
<1>1. CASE UNCHANGED <<observer, head, tail>>
  BY <1>1 DEF EmptyInv, HasEmptied, Depth
<1>2. CASE PushPublish \/ PopAdvance
  <2>1. UNCHANGED observer /\ ~Clearing
    BY <1>0, <1>2 DEF PushPublish, PopAdvance, ClearInv
  <2> QED
    BY <1>0, <2>1 DEF EmptyInv, HasEmptied
<1>3. ASSUME NEW o \in Observers, Snapshot(o) \/ Clear(o)
      PROVE  EmptyInv'
  <2>1. PICK to \in Calls :
          /\ Observe(o, to)
          /\ HasEmptied(to) => HasEmptied(observer[o]) \/ tail' = head
          /\ head' = head
          /\ tail' = tail \/ ClearEmpty(o)
    BY <1>3, CallMoves
  <2>2. CASE tail' = head
    <3>1. Depth' = 0
      BY <1>0, <2>1, <2>2, DistanceFacts DEF Depth
    <3> QED
      BY <3>1 DEF EmptyInv
  <2>3. CASE tail' = tail /\ tail' # head
    <3>1. \A p \in Observers :
            HasEmptied(observer'[p]) => HasEmptied(observer[p])
      BY <1>0, <2>1, <2>3, ObserveIs
    <3>2. Depth' = Depth
      BY <2>1, <2>3 DEF Depth
    <3> QED
      BY <3>1, <3>2 DEF EmptyInv, HasEmptied
  <2> QED
    BY <2>1, <2>2, <2>3 DEF ClearEmpty
<1>4. CASE \/ Push /\ ~PushPublish
           \/ Pop /\ ~PopAdvance
           \/ RecordEvent \/ UNCHANGED vars
  BY <1>1, <1>4
     DEF Push, PushReceived, PushLoadTail, PushDrop, PushOverflow, PushWrite,
         PushWatermark, PushQueued, Pop, PopLoadHead, PopRead, PopDelivered,
         RecordEvent, vars, ring
<1> QED
  BY <1>2, <1>3, <1>4 DEF Next

\* A step of an observer that moves no index keeps the watermark covered, if
\* its call has yet to look at the depth, or covers it, or never covered it
\* and does not lower the watermark.
LEMMA CoveredStill ==
  ASSUME IInv, WatermarkInv, queue_high_watermark' \in Nat,
         NEW o \in Observers, NEW to \in Calls, Observe(o, to),
         UNCHANGED <<head, tail, producer>>,
         \/ to.again /\ ~HasLoaded(to)
         \/ queue_high_watermark' >= Depth
         \/ Covers(to, head, Depth)
         \/ /\ queue_high_watermark' >= queue_high_watermark
            /\ observer[o].again => HasLoaded(observer[o])
            /\ ~Covers(observer[o], head, Depth)
  PROVE  WatermarkInv'
<1>0. /\ TypeOK /\ Depth \in Nat /\ queue_high_watermark \in Nat
  BY DepthType, ConstantFacts DEF IInv, TypeOK
<1>1. /\ observer'[o] = to
      /\ \A p \in Observers : p # o => observer'[p] = observer[p]
  BY <1>0, ObserveIs
<1>2. /\ Depth' = Depth
      /\ producer'.step = "watermark" =>
           Depth' <= Distance(head', producer'.tail)
  <2>1. Depth' = Depth
    BY DEF Depth
  <2>2. Distance(head', producer'.tail) = Distance(head, producer.tail)
    OBVIOUS
  <2> QED
    BY <2>1, <2>2 DEF WatermarkInv
<1>3. CASE to.again /\ ~HasLoaded(to)
  <2>1. observer'[o].again /\ ~HasLoaded(observer'[o])
    BY <1>1, <1>3
  <2> QED
    BY <1>2, <2>1 DEF WatermarkInv, HasLoaded
<1>4. ASSUME Raised'
      PROVE  WatermarkInv'
  BY <1>2, <1>4 DEF WatermarkInv
<1>5. CASE queue_high_watermark' >= Depth
  BY <1>2, <1>4, <1>5 DEF Raised
<1>6. ASSUME NEW p \in Observers, Covers(observer'[p], head, Depth)
      PROVE  WatermarkInv'
  <2>1. Covers(observer'[p], head', Depth')
    BY <1>2, <1>6
  <2> QED
    BY <1>4, <2>1 DEF Raised, Covers
<1>7. CASE Covers(to, head, Depth)
  BY <1>1, <1>6, <1>7
<1>8. CASE /\ queue_high_watermark' >= queue_high_watermark
           /\ observer[o].again => HasLoaded(observer[o])
           /\ ~Covers(observer[o], head, Depth)
  <2>1. CASE producer.step = "watermark"
    BY <1>2, <2>1 DEF WatermarkInv
  <2>2. ASSUME NEW p \in Observers,
               observer[p].again /\ ~HasLoaded(observer[p])
        PROVE  WatermarkInv'
    <3>1. observer'[p] = observer[p]
      BY <1>1, <1>8, <2>2
    <3>2. observer'[p].again /\ ~HasLoaded(observer'[p])
      BY <2>2, <3>1
    <3> QED
      BY <1>2, <3>2 DEF WatermarkInv, HasLoaded
  <2>3. CASE queue_high_watermark >= Depth
    <3>1. queue_high_watermark' >= Depth
      BY <1>0, <1>8, <2>3
    <3> QED
      BY <1>5, <3>1
  <2>4. ASSUME NEW p \in Observers, Covers(observer[p], head, Depth)
        PROVE  WatermarkInv'
    <3>1. observer'[p] = observer[p]
      BY <1>1, <1>8, <2>4
    <3> QED
      BY <1>6, <2>4, <3>1
  <2> QED
    BY <2>1, <2>2, <2>3, <2>4 DEF WatermarkInv, Raised
<1> QED
  BY <1>3, <1>5, <1>7, <1>8

\* The producer raises the watermark to a depth that its old tail shows to be
\* no less than the true one; the consumer only lowers the depth.
LEMMA WatermarkOfPush ==
  ASSUME IInv, IInv', WatermarkInv, Push \/ Pop \/ RecordEvent
  PROVE  WatermarkInv'
<1>0. /\ TypeOK /\ RingInv /\ Depth \in Nat
      /\ head \in Index /\ tail \in Index /\ producer.tail \in Index
      /\ queue_high_watermark \in Nat
  BY DepthType, ConstantFacts DEF IInv, TypeOK
<1>1. ASSUME UNCHANGED <<head, tail, observer, queue_high_watermark>>,
             producer' = producer
               \/ (/\ producer.step # "watermark"
                   /\ producer'.step # "watermark")
      PROVE  WatermarkInv'
  <2>1. /\ Depth' = Depth
        /\ Distance(head', producer.tail) = Distance(head, producer.tail)
    BY <1>1 DEF Depth
  <2>2. Raised => Raised'
    BY <1>1, <2>1 DEF Raised, Covers
  <2> QED
    BY <1>1, <2>1, <2>2 DEF WatermarkInv, HasLoaded
<1>2. CASE PushPublish
  <2>1. /\ Distance(head, producer.tail) < Capacity
        /\ Depth <= Distance(head, producer.tail)
        /\ Distance(head, producer.tail) \in Nat
    BY <1>0, <1>2, DistanceFacts, ConstantFacts DEF PushPublish, RingInv
  <2>2. Depth < Capacity
    BY <1>0, <2>1, ConstantFacts
  <2>3. /\ Distance(Inc(head), tail) = Depth + 1
        /\ Distance(Inc(head), producer.tail)
             = Distance(head, producer.tail) + 1
    BY <1>0, <2>1, <2>2, IncHead DEF Depth
  <2>4. /\ producer'.step = "watermark" /\ producer'.tail = producer.tail
        /\ head' = Inc(head) /\ tail' = tail
    BY <1>0, <1>2 DEF PushPublish, TypeOK
  <2>5. Depth' <= Distance(head', producer'.tail)
    BY <1>0, <2>1, <2>3, <2>4 DEF Depth
  <2> QED
    BY <2>4, <2>5 DEF WatermarkInv
<1>3. CASE PushWatermark
  <2>1. /\ Depth <= Distance(head, producer.tail)
        /\ Distance(head, producer.tail) \in Nat
    BY <1>0, <1>3, DistanceFacts, ConstantFacts
       DEF PushWatermark, WatermarkInv
  <2>2. /\ queue_high_watermark' >= Distance(head, producer.tail)
        /\ queue_high_watermark' \in Nat
    BY <1>0, <1>3, <2>1 DEF PushWatermark, AtLeast
  <2>3. /\ head' = head /\ tail' = tail /\ producer'.step = "count"
    BY <1>0, <1>3 DEF PushWatermark, ring, TypeOK
  <2>4. queue_high_watermark' >= Depth'
    BY <1>0, <2>1, <2>2, <2>3 DEF Depth
  <2> QED
    BY <2>3, <2>4 DEF WatermarkInv, Raised
<1>4. CASE PopAdvance
  <2>1. /\ head' = head /\ tail' = Inc(tail)
        /\ UNCHANGED <<queue_high_watermark, producer, observer>>
    BY <1>4 DEF PopAdvance
  <2>2. Depth' = Depth - 1
    BY <1>0, <1>4, <2>1, IncTail DEF PopAdvance, RingInv, Depth
  <2>3. producer'.step = "watermark" =>
          Depth' <= Distance(head', producer'.tail)
    <3>1. Distance(head, producer.tail) \in Nat
      BY <1>0, DistanceFacts, ConstantFacts
    <3>2. Distance(head', producer'.tail) = Distance(head, producer.tail)
      BY <2>1
    <3> QED
      BY <1>0, <2>1, <2>2, <3>1, <3>2 DEF WatermarkInv
  <2>4. \A o \in Observers :
          Covers(observer[o], head, Depth)
            => Covers(observer[o], head', Depth')
    BY <1>0, <2>1, <2>2 DEF Covers, TypeOK, Calls
  <2>5. Raised => Raised'
    <3>1. queue_high_watermark >= Depth => queue_high_watermark' >= Depth'
      BY <1>0, <2>1, <2>2
    <3>2. ASSUME NEW o \in Observers, Covers(observer[o], head, Depth)
          PROVE  Raised'
      BY <2>1, <2>4, <3>2 DEF Raised, Covers
    <3> QED
      BY <3>1, <3>2 DEF Raised
  <2> QED
    BY <2>1, <2>3, <2>5 DEF WatermarkInv, HasLoaded
<1>5. CASE \/ Push /\ ~PushPublish /\ ~PushWatermark
           \/ Pop /\ ~PopAdvance
           \/ RecordEvent
  <2>1. UNCHANGED <<head, tail, observer, queue_high_watermark>>
    BY <1>5
       DEF Push, PushReceived, PushLoadTail, PushDrop, PushOverflow,
           PushWrite, PushQueued, Pop, PopLoadHead, PopRead, PopDelivered,
           RecordEvent, ring
  <2>2. producer' = producer
          \/ (/\ producer.step # "watermark"
              /\ producer'.step # "watermark")
    BY <1>0, <1>5
       DEF Push, PushReceived, PushLoadTail, PushDrop, PushOverflow,
           PushWrite, PushQueued, Pop, PopLoadHead, PopRead, PopDelivered,
           RecordEvent, TypeOK
  <2> QED
    BY <1>1, <2>1, <2>2
<1> QED
  BY <1>2, <1>3, <1>4, <1>5 DEF Push, Pop

\* A reset that lowers the watermark looks at the depth again, and what it
\* then raises the watermark to is no less than the depth, or else a push has
\* moved head since and has raised the watermark itself.
LEMMA WatermarkOfCall ==
  ASSUME IInv, IInv', OpInv, EmptyInv, WatermarkInv,
         NEW o \in Observers, Snapshot(o) \/ Clear(o)
  PROVE  WatermarkInv'
<1> DEFINE call == observer[o]
           W == queue_high_watermark
<1>0. /\ TypeOK /\ ClearInv /\ call \in Calls /\ CallOk(call)
      /\ Depth \in Nat /\ W \in Nat /\ W' \in Nat
  BY DepthType, ConstantFacts DEF IInv, TypeOK, OpInv
<1>1. ASSUME NEW to \in Calls, Observe(o, to), W' \in Nat,
             UNCHANGED <<head, tail, producer>>,
             \/ to.again /\ ~HasLoaded(to)
             \/ W' >= Depth
             \/ Covers(to, head, Depth)
             \/ /\ W' >= W
                /\ call.again => HasLoaded(call)
                /\ ~Covers(call, head, Depth)
      PROVE  WatermarkInv'
  BY <1>1, CoveredStill
<1>2. PICK to \in Calls :
        /\ Observe(o, to) /\ head' = head /\ producer' = producer
        /\ tail' = tail \/ ClearEmpty(o)
  BY CallMoves
<1>3. observer'[o] = to
  BY <1>0, <1>2, ObserveIs
<1>4. CASE ClearEmpty(o)
  <2>1. /\ Depth' = 0 /\ W' = W
        /\ Distance(head, producer.tail) \in Nat
    BY <1>0, <1>4, DistanceFacts, ConstantFacts DEF ClearEmpty, Depth, TypeOK
  <2>2. Distance(head', producer'.tail) = Distance(head, producer.tail)
    BY <1>2
  <2> QED
    BY <1>0, <2>1, <2>2 DEF WatermarkInv, Raised
<1>5. ASSUME ~ClearEmpty(o),
             \/ to.again /\ ~HasLoaded(to)
             \/ W' >= Depth
             \/ Covers(to, head, Depth)
             \/ /\ W' >= W
                /\ call.again => HasLoaded(call)
                /\ ~Covers(call, head, Depth)
      PROVE  WatermarkInv'
  BY <1>0, <1>1, <1>2, <1>5
<1>6. ASSUME ~ClearEmpty(o), ~call.again, W' >= W
      PROVE  WatermarkInv'
  BY <1>5, <1>6 DEF Covers
<1>7. CASE \/ SnapshotCall(o) \/ ClearCall(o)
           \/ DepthAccept(o) /\ call.op = "snapshot"
  <2>1. ~call.again /\ W' >= W /\ ~ClearEmpty(o)
    BY <1>0, <1>7
       DEF SnapshotCall, ClearCall, DepthAccept, ClearEmpty, CallOk
  <2> QED
    BY <1>6, <2>1
<1>8. CASE \/ DepthTailBefore(o) \/ DepthRetry(o) \/ SnapshotExchange(o)
  <2>1. W' >= W /\ ~ClearEmpty(o)
    BY <1>0, <1>8
       DEF DepthTailBefore, DepthRetry, SnapshotExchange, ClearEmpty
  <2>2. to.again = call.again /\ ~HasLoaded(to)
    <3>1. CASE DepthTailBefore(o)
      <4>1. to = [call EXCEPT !.step = "head", !.tail = tail]
        BY <1>0, <1>3, <3>1 DEF DepthTailBefore, Observe, TypeOK
      <4> QED
        BY <1>0, <4>1 DEF Calls, HasLoaded
    <3>2. CASE DepthRetry(o)
      <4>1. to = [call EXCEPT !.step = "tail_before"]
        BY <1>0, <1>3, <3>2 DEF DepthRetry, Observe, TypeOK
      <4> QED
        BY <1>0, <4>1 DEF Calls, HasLoaded
    <3>3. CASE SnapshotExchange(o)
      <4> DEFINE last == call.next = Len(ExchangeOrder)
                 step == IF last THEN "watermark" ELSE "exchange"
                 next == IF last THEN 1 ELSE call.next + 1
      <4>1. to = [call EXCEPT !.step = step, !.next = next]
        BY <1>0, <1>3, <3>3 DEF SnapshotExchange, Observe, TypeOK
      <4>2. step \in {"watermark", "exchange"}
        OBVIOUS
      <4> HIDE DEF step, next
      <4> QED
        BY <1>0, <4>1, <4>2 DEF Calls, HasLoaded
    <3> QED
      BY <1>8, <3>1, <3>2, <3>3
  <2> QED
    BY <1>5, <1>6, <2>1, <2>2
<1>9. CASE DepthHead(o)
  <2>1. W' >= W /\ ~ClearEmpty(o)
    BY <1>0, <1>9 DEF DepthHead, ClearEmpty
  <2>2. /\ to.again = call.again
        /\ to.step = "tail_after" /\ to.head = head
    BY <1>0, <1>3, <1>9 DEF DepthHead, Observe, TypeOK, Calls
  <2> QED
    BY <1>5, <1>6, <2>1, <2>2 DEF Covers
<1>10. CASE DepthAccept(o) /\ call.op # "snapshot"
  <2>1. /\ W' = W /\ ~ClearEmpty(o) /\ call.step = "tail_after"
        /\ to.again = call.again
        /\ to.depth = Distance(call.head, tail)
        /\ call.again => to.step = "raise"
    BY <1>0, <1>3, <1>10 DEF DepthAccept, ClearEmpty, Observe, TypeOK, Calls
  <2>2. CASE call.again /\ call.head = head
    BY <1>0, <1>5, <2>1, <2>2 DEF Covers, Depth
  <2>3. CASE call.again /\ call.head # head
    BY <1>0, <1>5, <2>1, <2>3 DEF Covers, HasLoaded
  <2> QED
    BY <1>0, <1>6, <2>1, <2>2, <2>3
<1>11. CASE SnapshotWatermark(o)
  <2>1. ~ClearEmpty(o) /\ to.again /\ to.step = "tail_before"
    BY <1>0, <1>3, <1>11
       DEF SnapshotWatermark, ClearEmpty, Observe, TypeOK, Calls
  <2> QED
    BY <1>5, <2>1 DEF HasLoaded
<1>12. CASE SnapshotRaise(o)
  <2>1. /\ W' >= W /\ W' >= call.depth /\ call.step = "raise"
        /\ ~ClearEmpty(o) /\ call.depth \in Nat
    BY <1>0, <1>12, ConstantFacts
       DEF SnapshotRaise, ClearEmpty, AtLeast, Calls
  <2>2. CASE call.depth >= Depth
    BY <1>0, <1>5, <2>1, <2>2
  <2>3. CASE ~(call.depth >= Depth)
    BY <1>5, <2>1, <2>3 DEF Covers, HasLoaded
  <2> QED
    BY <2>2, <2>3
<1>13. CASE ClearZero(o)
  <2>1. /\ call.step = "zero" /\ W' = 0 /\ ~ClearEmpty(o)
    BY <1>13 DEF ClearZero, ClearEmpty
  <2>2. Depth = 0
    BY <1>0, <2>1 DEF CallOk, EmptyInv, HasEmptied
  <2> QED
    BY <1>5, <2>1, <2>2
<1> QED
  BY <1>4, <1>7, <1>8, <1>9, <1>10, <1>11, <1>12, <1>13
     DEF Snapshot, Clear

\* Outside the window between publishing a frame and raising the watermark,
\* and outside the window between a reset's exchange and its repair, the
\* watermark is never below the live depth, however many resets race the
\* pushes (can_bus.h:68-70).
THEOREM WatermarkCovers == Spec => []WatermarkCoversDepth
<1> DEFINE WInv == OpInv /\ EmptyInv /\ WatermarkInv
<1>1. Init => WInv
  <2> SUFFICES ASSUME Init
               PROVE  WInv
    OBVIOUS
  <2>1. OpInv
    BY DEF Init, OpInv, CallOk, HasDepth, NoCall
  <2>2. EmptyInv
    BY DEF Init, EmptyInv, HasEmptied, NoCall
  <2>3. Depth = 0
    BY ConstantFacts, DistanceFacts DEF Init, Depth
  <2>4. WatermarkInv
    BY <2>3 DEF Init, WatermarkInv, Raised
  <2> QED
    BY <2>1, <2>2, <2>4
<1>2. IInv /\ IInv' /\ WInv /\ [Next]_vars => WInv'
  <2> SUFFICES ASSUME IInv, IInv', WInv, [Next]_vars
               PROVE  WInv'
    OBVIOUS
  <2>1. OpInv' /\ EmptyInv'
    BY OpStep, EmptyStep
  <2>2. ASSUME UNCHANGED vars
        PROVE  WatermarkInv'
    BY <2>2
       DEF vars, ring, WatermarkInv, Raised, Covers, HasLoaded, Depth
  <2>3. ASSUME Push \/ Pop \/ RecordEvent
        PROVE  WatermarkInv'
    BY <2>3, WatermarkOfPush
  <2>4. ASSUME NEW o \in Observers, Snapshot(o) \/ Clear(o)
        PROVE  WatermarkInv'
    BY <2>4, WatermarkOfCall
  <2> QED
    BY <2>1, <2>2, <2>3, <2>4 DEF Next
<1>3. IInv /\ WInv => WatermarkCoversDepth
  <2> SUFFICES ASSUME IInv, WInv, producer.step # "watermark",
                      \A o \in Observers : ~observer[o].again
               PROVE  queue_high_watermark >= Depth
    BY DEF WatermarkCoversDepth
  <2> QED
    BY DEF WatermarkInv, Raised, Covers
<1> HIDE DEF WInv
<1> QED
  BY <1>1, <1>2, <1>3, Invariance, PTL DEF Spec
=============================================================================

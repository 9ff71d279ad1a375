------------------------- MODULE FrameRingRefinement -------------------------
(***************************************************************************)
(* The ring implements FrameQueue: its initial state is an empty queue and *)
(* every atomic access is an operation of the queue or changes nothing of  *)
(* it.  For every capacity, every width of size_t, any number of frames    *)
(* and any observers.                                                      *)
(***************************************************************************)
EXTENDS FrameRingProofs, SequenceTheorems

\* The index of the i-th queued frame, and what the mapping calls its own.
IndexOf(t, i) == (t + i - 1) % Modulus
Arriving == producer.step \in {"load", "write", "publish"}
Refused == Total("dropped") + (IF producer.step = "drop" THEN 1 ELSE 0)

\* A frame written and not yet published is in the slot of head, and a frame
\* read and not yet given up is still in the slot of tail.
FrameInv ==
  /\ producer.step = "publish" => frames[Slot(head)] = offered
  /\ consumer.step = "advance" => consumer.frame = frames[Slot(tail)]

-----------------------------------------------------------------------------
(***************************************************************************)
(* Indices and the queue they stand for.                                   *)
(***************************************************************************)
\* Counting on from a tail wraps once at most.
LEMMA IndexWraps ==
  ASSUME NEW t \in Index, NEW i \in 1 .. Modulus
  PROVE  IndexOf(t, i) = IF t + i - 1 < Modulus THEN t + i - 1
                         ELSE t + i - 1 - Modulus
<1>1. /\ Modulus \in Nat \ {0} /\ t \in 0 .. Modulus - 1
      /\ t + i - 1 \in 0 .. 2 * Modulus - 1
  BY ConstantFacts DEF Index
<1>2. CASE t + i - 1 < Modulus
  BY <1>1, <1>2 DEF IndexOf
<1>3. CASE t + i - 1 >= Modulus
  <2> DEFINE r == t + i - 1 - Modulus
  <2>1. r \in 0 .. Modulus - 1 /\ t + i - 1 = r + Modulus
    BY <1>1, <1>3
  <2>2. (r + Modulus) % Modulus = r
    BY <1>1, <2>1
  <2> QED
    BY <1>1, <1>3, <2>1, <2>2 DEF IndexOf
<1> QED
  BY <1>1, <1>2, <1>3

\* The queued frames lie between tail and head.
LEMMA IndexFacts ==
  ASSUME NEW h \in Index, NEW t \in Index
  PROVE  /\ \A i \in 1 .. Modulus : IndexOf(t, i) \in Index
         /\ IndexOf(t, 1) = t
         /\ IndexOf(t, Distance(h, t) + 1) = h
         /\ \A i \in 1 .. Distance(h, t) :
              Distance(h, IndexOf(t, i)) = Distance(h, t) - i + 1
         /\ \A i \in 1 .. Modulus - 1 :
              IndexOf(Inc(t), i) = IndexOf(t, i + 1)
<1>1. /\ Modulus \in Nat \ {0} /\ Inc(t) \in Index
      /\ Distance(h, t) \in 0 .. Modulus - 1
  <2>1. Distance(h, t) \in 0 .. Modulus - 1
    BY DistanceFacts
  <2>2. Modulus \in Nat \ {0} /\ Inc(t) \in Index
    BY ConstantFacts DEF Index, Inc
  <2> QED
    BY <2>1, <2>2
<1>2. ASSUME NEW i \in 1 .. Modulus
      PROVE  IndexOf(t, i) = IF t + i - 1 < Modulus THEN t + i - 1
                             ELSE t + i - 1 - Modulus
  BY IndexWraps
<1>3. \A i \in 1 .. Modulus : IndexOf(t, i) \in Index
  BY <1>1, <1>2 DEF Index
<1>4. IndexOf(t, 1) = t
  BY <1>1, <1>2 DEF Index
<1>5. IndexOf(t, Distance(h, t) + 1) = h
  BY <1>1, <1>2 DEF Index, Distance
<1>6. ASSUME NEW i \in 1 .. Distance(h, t)
      PROVE  Distance(h, IndexOf(t, i)) = Distance(h, t) - i + 1
  BY <1>1, <1>2 DEF Index, Distance
<1>7. ASSUME NEW i \in 1 .. Modulus - 1
      PROVE  IndexOf(Inc(t), i) = IndexOf(t, i + 1)
  BY <1>1, <1>2, IndexWraps DEF Index, Inc
<1> QED
  BY <1>3, <1>4, <1>5, <1>6, <1>7

\* A function on 1 .. n is a sequence of length n.
LEMMA SequenceOfLength ==
  ASSUME NEW S, NEW n \in Nat, NEW q \in [1 .. n -> S]
  PROVE  q \in Seq(S) /\ Len(q) = n
<1>1. q \in Seq(S)
  BY SeqDef
<1>2. 1 .. Len(q) = 1 .. n /\ Len(q) \in Nat
  BY <1>1, LenProperties
<1> QED
  BY <1>1, <1>2

\* The queue that the ring stands for holds as many frames as the ring.
LEMMA QueuedFacts ==
  IInv => /\ Queued \in Seq(Frames) /\ Len(Queued) = Depth
          /\ \A i \in 1 .. Depth :
               Queued[i] = frames[Slot(IndexOf(tail, i))]
<1> SUFFICES ASSUME IInv
             PROVE  /\ Queued \in Seq(Frames) /\ Len(Queued) = Depth
                    /\ \A i \in 1 .. Depth :
                         Queued[i] = frames[Slot(IndexOf(tail, i))]
  OBVIOUS
<1>1. /\ Depth \in Nat /\ Depth < Modulus
      /\ head \in Index /\ tail \in Index
      /\ frames \in [Slots -> Frames]
  BY DepthType, ConstantFacts DEF IInv, TypeOK
<1>2. \A i \in 1 .. Depth : frames[Slot(IndexOf(tail, i))] \in Frames
  BY <1>1, IndexFacts, SlotFacts, ConstantFacts
<1>3. Queued \in [1 .. Depth -> Frames]
  BY <1>2 DEF Queued, IndexOf
<1>4. \A i \in 1 .. Depth : Queued[i] = frames[Slot(IndexOf(tail, i))]
  BY DEF Queued, IndexOf
<1> QED
  BY <1>1, <1>3, <1>4, SequenceOfLength

\* While push() writes, no queued frame is in the slot it writes to.
LEMMA WrittenIsFree ==
  ASSUME IInv, producer.step = "write"
  PROVE  \A i \in 1 .. Depth : Slot(IndexOf(tail, i)) # Slot(head)
<1>1. /\ head \in Index /\ tail \in Index /\ producer.tail \in Index
      /\ Depth \in Nat
  BY DepthType, ConstantFacts DEF IInv, TypeOK
<1>2. Depth < Capacity /\ Capacity < Modulus
  BY <1>1, DistanceFacts, ConstantFacts DEF IInv, RingInv
<1>3. ASSUME NEW i \in 1 .. Depth
      PROVE  Slot(IndexOf(tail, i)) # Slot(head)
  <2>1. IndexOf(tail, i) \in Index
    BY <1>1, <1>2, IndexFacts, ConstantFacts
  <2>2. Distance(head, IndexOf(tail, i)) = Depth - i + 1
    BY <1>1, IndexFacts DEF Depth
  <2>3. /\ Distance(head, IndexOf(tail, i)) > 0
        /\ Distance(head, IndexOf(tail, i)) < Capacity
    BY <1>1, <1>2, <2>2, ConstantFacts
  <2> QED
    BY <1>1, <2>1, <2>3, SlotsDiffer
<1> QED
  BY <1>3

-----------------------------------------------------------------------------
(***************************************************************************)
(* The copies in progress.                                                 *)
(***************************************************************************)
\* The slot of a frame that is copied is left alone until the copy is used.
LEMMA FramesKept == IInv /\ FrameInv /\ [Next]_vars => FrameInv'
<1> SUFFICES ASSUME IInv, FrameInv, [Next]_vars
             PROVE  FrameInv'
  OBVIOUS
<1> USE DEF ring, history
<1>0. TypeOK /\ head \in Index /\ tail \in Index
  BY DEF IInv, TypeOK
<1>1. CASE PushWrite
  <2>1. /\ frames' = [frames EXCEPT ![Slot(head)] = offered]
        /\ Slot(head) \in Slots /\ frames \in [Slots -> Frames]
        /\ UNCHANGED <<head, tail, consumer, offered>>
        /\ producer.step = "write"
    BY <1>0, <1>1, SlotFacts DEF PushWrite, TypeOK
  <2>2. ASSUME consumer.step = "advance"
        PROVE  Slot(tail) # Slot(head)
    <3>1. Depth \in Nat /\ Depth > 0
      BY <1>0, <2>2, DepthType, DistanceFacts, ConstantFacts
         DEF IInv, RingInv, Depth
    <3>2. IndexOf(tail, 1) = tail
      BY <1>0, IndexFacts
    <3> QED
      BY <2>1, <3>1, <3>2, WrittenIsFree
  <2>3. Slot(tail) \in Slots
    BY <1>0, SlotFacts
  <2> QED
    BY <2>1, <2>2, <2>3 DEF FrameInv
<1>2. CASE PopRead
  BY <1>0, <1>2 DEF PopRead, FrameInv, TypeOK
<1>3. CASE PopAdvance
  BY <1>0, <1>3 DEF PopAdvance, FrameInv, TypeOK
<1>4. CASE PopLoadHead \/ PopDelivered
  BY <1>0, <1>4 DEF PopLoadHead, PopDelivered, FrameInv, TypeOK
<1>5. CASE /\ Push /\ ~PushWrite
  BY <1>0, <1>5
     DEF Push, PushReceived, PushLoadTail, PushDrop, PushOverflow,
         PushPublish, PushWatermark, PushQueued, FrameInv, TypeOK
<1>6. CASE RecordEvent
  BY <1>6 DEF RecordEvent, FrameInv
<1>7. ASSUME NEW o \in Observers, Snapshot(o)
      PROVE  FrameInv'
  BY <1>7
     DEF Snapshot, SnapshotCall, DepthTailBefore, DepthHead, DepthRetry,
         DepthAccept, SnapshotExchange, SnapshotWatermark, SnapshotRaise,
         FrameInv
<1>8. ASSUME NEW o \in Observers, Clear(o)
      PROVE  FrameInv'
  <2>1. CASE ClearEmpty(o)
    <3>1. producer.step = "idle" /\ consumer.step = "idle"
      BY <2>1 DEF IInv, ClearInv, Clearing, ClearEmpty
    <3> QED
      BY <2>1, <3>1 DEF ClearEmpty, FrameInv
  <2>2. CASE ClearCall(o) \/ ClearZero(o)
    BY <2>2 DEF ClearCall, ClearZero, FrameInv
  <2> QED
    BY <1>8, <2>1, <2>2 DEF Clear
<1>9. CASE UNCHANGED vars
  BY <1>9 DEF vars, FrameInv
<1> QED
  BY <1>1, <1>2, <1>3, <1>4, <1>5, <1>6, <1>7, <1>8, <1>9 DEF Next, Pop

-----------------------------------------------------------------------------
(***************************************************************************)
(* The operations of the queue.                                            *)
(***************************************************************************)
\* A push() begins: a frame is offered.
LEMMA Offers == IInv /\ PushReceived => Abstract!Offer
<1> SUFFICES ASSUME IInv, PushReceived
             PROVE  Abstract!Offer
  OBVIOUS
<1>1. /\ ~Arriving /\ Arriving' /\ offered' = offered + 1
      /\ UNCHANGED <<head, tail, frames, taken>>
  BY DEF PushReceived, Arriving, ring, IInv, TypeOK
<1>2. Queued' = Queued
  BY <1>1 DEF Queued, Depth
<1>3. Refused' = Refused
  BY CountType
     DEF PushReceived, Refused, Total, history, CounterNames, IInv, TypeOK
<1> QED
  BY <1>1, <1>2, <1>3 DEF Abstract!Offer, Arriving, Refused

\* A push() finds the ring full: the frame is refused.
LEMMA Refuses ==
  ASSUME IInv, PushLoadTail, producer'.step = "drop"
  PROVE  Abstract!Refuse
<1>1. /\ Arriving /\ ~Arriving'
      /\ UNCHANGED <<head, tail, frames, counters, offered, taken, reported>>
      /\ Depth >= Capacity
  BY DEF PushLoadTail, Arriving, ring, history, Depth
<1>2. Queued' = Queued
  BY <1>1 DEF Queued, Depth
<1>3. Len(Queued) = Capacity
  BY <1>1, QueuedFacts, DepthType, ConstantFacts DEF IInv
<1>4. Refused' = Refused + 1
  BY <1>1
     DEF PushLoadTail, Refused, Total, CounterNames, IInv, TypeOK
<1> QED
  BY <1>1, <1>2, <1>3, <1>4 DEF Abstract!Refuse, Arriving, Refused

\* A push() publishes: the frame joins the end of a queue that had room.
LEMMA Accepts == IInv /\ FrameInv /\ IInv' /\ PushPublish => Abstract!Accept
<1> SUFFICES ASSUME IInv, FrameInv, IInv', PushPublish
             PROVE  Abstract!Accept
  OBVIOUS
<1>1. /\ Arriving /\ ~Arriving' /\ head' = Inc(head)
      /\ UNCHANGED <<tail, frames, offered, taken, counters, reported>>
      /\ producer.step = "publish" /\ producer'.step = "watermark"
  BY DEF PushPublish, Arriving, history, IInv, TypeOK
<1>2. /\ head \in Index /\ tail \in Index /\ producer.tail \in Index
      /\ offered \in Frames /\ Depth \in Nat /\ Capacity \in Nat
  BY DepthType, ConstantFacts DEF IInv, TypeOK
<1>3. Depth < Capacity
  BY <1>1, <1>2, DistanceFacts, ConstantFacts DEF IInv, RingInv
<1>4. Depth' = Depth + 1
  BY <1>1, <1>2, <1>3, IncHead DEF Depth
<1>5. /\ Queued \in Seq(Frames) /\ Len(Queued) = Depth
      /\ \A i \in 1 .. Depth : Queued[i] = frames[Slot(IndexOf(tail, i))]
  BY QueuedFacts
<1>6. /\ Queued' \in Seq(Frames) /\ Len(Queued') = Depth'
      /\ \A i \in 1 .. Depth' :
           Queued'[i] = frames'[Slot(IndexOf(tail', i))]
  <2>1. (IInv => /\ Queued \in Seq(Frames) /\ Len(Queued) = Depth
                 /\ \A i \in 1 .. Depth :
                      Queued[i] = frames[Slot(IndexOf(tail, i))])'
    BY QueuedFacts, PTL
  <2> QED
    BY <2>1 DEF IndexOf, Slot, Frames
<1>7. IndexOf(tail, Depth + 1) = head
  BY <1>2, IndexFacts DEF Depth
<1>8. frames[Slot(head)] = offered
  BY <1>1 DEF FrameInv
<1>9. Queued' = Append(Queued, offered)
  <2>1. /\ Append(Queued, offered) \in Seq(Frames)
        /\ Len(Append(Queued, offered)) = Depth + 1
        /\ \A i \in 1 .. Depth : Append(Queued, offered)[i] = Queued[i]
        /\ Append(Queued, offered)[Depth + 1] = offered
    BY <1>2, <1>5, AppendProperties
  <2>2. \A i \in 1 .. Depth + 1 : Queued'[i] = Append(Queued, offered)[i]
    BY <1>1, <1>2, <1>4, <1>5, <1>6, <1>7, <1>8, <2>1
  <2> QED
    BY <1>4, <1>6, <2>1, <2>2, SeqEqual
<1>10. Refused' = Refused
  BY <1>1 DEF Refused, Total
<1> QED
  BY <1>1, <1>3, <1>5, <1>9, <1>10 DEF Abstract!Accept, Arriving, Refused

\* A pop() gives its slot up: it has taken the oldest frame.
LEMMA Takes == IInv /\ FrameInv /\ IInv' /\ PopAdvance => Abstract!Take
<1> SUFFICES ASSUME IInv, FrameInv, IInv', PopAdvance
             PROVE  Abstract!Take
  OBVIOUS
<1>1. /\ Arriving' = Arriving /\ tail' = Inc(tail)
      /\ UNCHANGED <<head, frames, offered, counters, reported, producer>>
      /\ consumer.step = "advance" /\ taken' = consumer.frame
  BY DEF PopAdvance, Arriving
<1>2. /\ head \in Index /\ tail \in Index /\ head # tail
      /\ Depth \in Nat /\ Depth <= Capacity /\ Capacity < Modulus
      /\ Modulus \in Nat /\ Capacity \in Nat
  BY <1>1, DepthType, ConstantFacts DEF IInv, TypeOK, RingInv
<1>3. Depth > 0 /\ Depth' = Depth - 1
  BY <1>1, <1>2, IncTail, DistanceFacts DEF Depth
<1>4. /\ Queued \in Seq(Frames) /\ Len(Queued) = Depth
      /\ \A i \in 1 .. Depth : Queued[i] = frames[Slot(IndexOf(tail, i))]
  BY QueuedFacts
<1>5. /\ Queued' \in Seq(Frames) /\ Len(Queued') = Depth'
      /\ \A i \in 1 .. Depth' :
           Queued'[i] = frames'[Slot(IndexOf(tail', i))]
  <2>1. (IInv => /\ Queued \in Seq(Frames) /\ Len(Queued) = Depth
                 /\ \A i \in 1 .. Depth :
                      Queued[i] = frames[Slot(IndexOf(tail, i))])'
    BY QueuedFacts, PTL
  <2> QED
    BY <2>1 DEF IndexOf, Slot, Frames
<1>6. Queued # <<>>
  BY <1>2, <1>3, <1>4, EmptySeq
<1>7. taken' = Head(Queued)
  <2>1. Head(Queued) = Queued[1]
    BY <1>4, <1>6
  <2>2. Queued[1] = frames[Slot(tail)]
    BY <1>2, <1>3, <1>4, IndexFacts
  <2> QED
    BY <1>1, <2>1, <2>2 DEF FrameInv
<1>8. Queued' = Tail(Queued)
  <2>1. /\ Tail(Queued) \in Seq(Frames) /\ Len(Tail(Queued)) = Depth - 1
        /\ \A i \in 1 .. Depth - 1 : Tail(Queued)[i] = Queued[i + 1]
    BY <1>4, <1>6, HeadTailProperties
  <2>2. \A i \in 1 .. Depth - 1 : IndexOf(Inc(tail), i) = IndexOf(tail, i + 1)
    BY <1>2, IndexFacts
  <2>3. \A i \in 1 .. Depth - 1 : Queued'[i] = Tail(Queued)[i]
    BY <1>1, <1>2, <1>3, <1>4, <1>5, <2>1, <2>2
  <2> QED
    BY <1>3, <1>5, <2>1, <2>3, SeqEqual
<1>9. Refused' = Refused
  BY <1>1 DEF Refused, Total
<1> QED
  BY <1>1, <1>6, <1>7, <1>8, <1>9 DEF Abstract!Take, Arriving, Refused

\* A clear() empties the ring: the queue is thrown away.
LEMMA Discards ==
  ASSUME IInv, NEW o \in Observers, ClearEmpty(o)
  PROVE  Abstract!Discard
<1>1. producer.step = "idle"
  BY DEF IInv, ClearInv, Clearing, ClearEmpty
<1>2. /\ tail' = head /\ head' = head
      /\ UNCHANGED <<counters, producer, offered, taken, reported>>
  BY DEF ClearEmpty
<1>3. Depth' = 0
  BY <1>2, DistanceFacts DEF Depth, IInv, TypeOK
<1>4. Queued' = <<>>
  BY <1>3 DEF Queued
<1>5. Refused' = Refused
  BY <1>2 DEF Refused, Total
<1> QED
  BY <1>1, <1>2, <1>4, <1>5 DEF Abstract!Discard, Refused

\* A step that changes neither the ring nor what arrived changes nothing.
LEMMA Stutters ==
  ASSUME UNCHANGED <<head, tail, Queued, offered, taken>>,
         Arriving' = Arriving, Refused' = Refused
  PROVE  UNCHANGED Abstract!vars
BY DEF Abstract!vars, Arriving, Refused

\* The other steps of push() move frames and counters only.
LEMMA PushStutters ==
  ASSUME IInv,
         \/ PushLoadTail /\ producer'.step # "drop"
         \/ PushDrop \/ PushOverflow \/ PushWrite \/ PushWatermark
         \/ PushQueued \/ RecordEvent
  PROVE  UNCHANGED Abstract!vars
<1> USE DEF ring, history
<1>0. TypeOK /\ "dropped" \in CounterNames
  BY DEF IInv, CounterNames
<1>1. CASE PushWrite
  <2>1. /\ UNCHANGED <<head, tail, offered, taken>>
        /\ Arriving' = Arriving
        /\ frames' = [frames EXCEPT ![Slot(head)] = offered]
        /\ producer.step = "write"
    BY <1>0, <1>1 DEF PushWrite, TypeOK, Arriving
  <2>2. Refused' = Refused
    BY <1>0, <1>1 DEF PushWrite, Refused, Total, TypeOK
  <2>3. \A i \in 1 .. Depth : Slot(IndexOf(tail, i)) # Slot(head)
    BY <2>1, WrittenIsFree
  <2>4. \A i \in 1 .. Depth : Slot(IndexOf(tail, i)) \in Slots
    BY <1>0, DepthType, IndexFacts, SlotFacts, ConstantFacts DEF IInv, TypeOK
  <2>5. \A i \in 1 .. Depth :
          frames'[Slot(IndexOf(tail, i))] = frames[Slot(IndexOf(tail, i))]
    BY <1>0, <2>1, <2>3, <2>4 DEF TypeOK
  <2>6. Queued' = Queued
    BY <2>1, <2>5 DEF Queued, Depth, IndexOf
  <2> QED
    BY <2>1, <2>2, <2>6, Stutters
<1>2. CASE PushDrop
  <2>1. /\ UNCHANGED <<head, tail, frames, offered, taken>>
        /\ Arriving' = Arriving
    BY <1>0, <1>2 DEF PushDrop, TypeOK, Arriving
  <2>2. Total("dropped")' = Total("dropped") + 1 /\ Total("dropped") \in Nat
    BY <1>0, <1>2, CountType DEF PushDrop, Total, TypeOK
  <2>3. Refused' = Refused
    BY <1>0, <1>2, <2>2 DEF PushDrop, Refused, TypeOK
  <2> QED
    BY <2>1, <2>3, Stutters DEF Queued, Depth
<1>3. CASE \/ PushLoadTail /\ producer'.step # "drop"
           \/ PushOverflow \/ PushWatermark \/ PushQueued \/ RecordEvent
  <2>1. /\ UNCHANGED <<head, tail, frames, offered, taken>>
        /\ Arriving' = Arriving
        /\ producer.step # "drop" /\ producer'.step # "drop"
    BY <1>0, <1>3
       DEF PushLoadTail, PushOverflow, PushWatermark, PushQueued,
           RecordEvent, TypeOK, Arriving
  <2>2. Total("dropped")' = Total("dropped")
    BY <1>0, <1>3, CountType
       DEF PushLoadTail, PushOverflow, PushWatermark, PushQueued,
           RecordEvent, Total, CounterNames
  <2> QED
    BY <2>1, <2>2, Stutters DEF Queued, Depth, Refused
<1> QED
  BY <1>1, <1>2, <1>3

\* So do those of pop(), and those of snapshot() and clear() move counters.
LEMMA OthersStutter ==
  ASSUME IInv,
         \/ PopLoadHead \/ PopRead \/ PopDelivered
         \/ \E o \in Observers : Snapshot(o) \/ ClearCall(o) \/ ClearZero(o)
         \/ UNCHANGED vars
  PROVE  UNCHANGED Abstract!vars
<1> USE DEF ring, history
<1>0. TypeOK /\ "dropped" \in CounterNames
  BY DEF IInv, CounterNames
<1>1. UNCHANGED <<head, tail, frames, offered, taken, producer>>
  BY DEF PopLoadHead, PopRead, PopDelivered, Snapshot, SnapshotCall,
         DepthTailBefore, DepthHead, DepthRetry, DepthAccept,
         SnapshotExchange, SnapshotWatermark, SnapshotRaise, ClearCall,
         ClearZero, vars
<1>2. Total("dropped")' = Total("dropped")
  <2>1. ASSUME NEW o \in Observers, SnapshotExchange(o)
        PROVE  Total("dropped")' = Total("dropped")
    <3> DEFINE c == ExchangeOrder[observer[o].next]
    <3>1. /\ reported' = [reported EXCEPT ![c] = @ + counters[c]]
          /\ counters' = [counters EXCEPT ![c] = 0]
      BY <2>1 DEF SnapshotExchange
    <3> HIDE DEF c
    <3> QED
      BY <1>0, <3>1 DEF Total, TypeOK
  <2>2. PopDelivered => Total("dropped")' = Total("dropped")
    BY <1>0, CountType DEF PopDelivered, Total, CounterNames
  <2>3. CASE UNCHANGED <<counters, reported>>
    BY <2>3 DEF Total
  <2> QED
    BY <2>1, <2>2, <2>3
       DEF PopLoadHead, PopRead, Snapshot, SnapshotCall, DepthTailBefore,
           DepthHead, DepthRetry, DepthAccept, SnapshotWatermark,
           SnapshotRaise, ClearCall, ClearZero, vars
<1> QED
  BY <1>1, <1>2, Stutters DEF Queued, Depth, Arriving, Refused

-----------------------------------------------------------------------------
\* The ring begins as an empty queue.
LEMMA InitRefines == Init => Abstract!Init
<1> SUFFICES ASSUME Init
             PROVE  Abstract!Init
  OBVIOUS
<1>1. Depth = 0
  BY ConstantFacts, DistanceFacts DEF Init, Depth
<1>2. Queued = <<>>
  BY <1>1 DEF Queued
<1>3. Refused = 0
  BY DEF Init, Refused, Total, CounterNames
<1> QED
  BY <1>2, <1>3 DEF Init, Abstract!Init, Refused

\* Every atomic access is an operation of the queue or a stutter.
LEMMA StepRefines ==
  IInv /\ FrameInv /\ IInv' /\ [Next]_vars => [Abstract!Next]_Abstract!vars
<1> SUFFICES ASSUME IInv, FrameInv, IInv', [Next]_vars
             PROVE  Abstract!Next \/ UNCHANGED Abstract!vars
  OBVIOUS
<1>1. CASE Push \/ RecordEvent
  BY <1>1, Offers, Refuses, Accepts, PushStutters DEF Push, Abstract!Next
<1>2. CASE Pop
  BY <1>2, Takes, OthersStutter DEF Pop, Abstract!Next
<1>3. ASSUME NEW o \in Observers, Snapshot(o) \/ Clear(o)
      PROVE  Abstract!Next \/ UNCHANGED Abstract!vars
  BY <1>3, Discards, OthersStutter DEF Clear, Abstract!Next
<1>4. CASE UNCHANGED vars
  BY <1>4, OthersStutter
<1> QED
  BY <1>1, <1>2, <1>3, <1>4 DEF Next

\* The ring is a bounded FIFO: what push() accepts comes out of pop() once,
\* unharmed and in order, and a frame is refused only by a full ring.
THEOREM RingIsAQueue == Spec => ImplementsFrameQueue
<1>1. Init => FrameInv
  BY DEF Init, FrameInv
<1>2. Spec => []FrameInv
  BY <1>1, FramesKept, Invariance, PTL DEF Spec
<1> QED
  BY <1>2, InitRefines, StepRefines, Invariance, PTL
     DEF Spec, ImplementsFrameQueue, Abstract!Spec
=============================================================================

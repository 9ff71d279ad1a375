----------------------------- MODULE FrameQueue -----------------------------
(***************************************************************************)
(* What the acquisition boundary of can_bus promises, with no index, slot  *)
(* or counter in sight: frames are numbered in the order the driver hands  *)
(* them over, a bounded queue keeps the accepted ones in that order, the   *)
(* newest frame is refused exactly when the queue is full at some instant  *)
(* of the push, and the consumer takes the oldest frame.  A new start      *)
(* throws the queued frames away.                                          *)
(***************************************************************************)
EXTENDS Naturals, Sequences

CONSTANT Capacity

VARIABLES
  offered,   \* number of frames handed over so far; frame n is the n-th one
  arriving,  \* TRUE while frame number offered is neither accepted nor refused
  queue,     \* numbers of the accepted frames not yet taken, oldest first
  refused,   \* number of frames refused because the queue was full
  taken      \* number of the frame taken last, 0 before the first one

vars == <<offered, arriving, queue, refused, taken>>

Init == /\ offered = 0
        /\ arriving = FALSE
        /\ queue = <<>>
        /\ refused = 0
        /\ taken = 0

Offer == /\ ~arriving
         /\ offered' = offered + 1
         /\ arriving' = TRUE
         /\ UNCHANGED <<queue, refused, taken>>

Accept == /\ arriving
          /\ Len(queue) < Capacity
          /\ queue' = Append(queue, offered)
          /\ arriving' = FALSE
          /\ UNCHANGED <<offered, refused, taken>>

Refuse == /\ arriving
          /\ Len(queue) = Capacity
          /\ refused' = refused + 1
          /\ arriving' = FALSE
          /\ UNCHANGED <<offered, queue, taken>>

Take == /\ queue # <<>>
        /\ taken' = Head(queue)
        /\ queue' = Tail(queue)
        /\ UNCHANGED <<offered, arriving, refused>>

Discard == /\ ~arriving
           /\ queue' = <<>>
           /\ UNCHANGED <<offered, arriving, refused, taken>>

Next == Offer \/ Accept \/ Refuse \/ Take \/ Discard

Spec == Init /\ [][Next]_vars
=============================================================================

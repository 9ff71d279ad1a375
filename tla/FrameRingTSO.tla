---------------------------- MODULE FrameRingTSO ----------------------------
(***************************************************************************)
(* FrameRing with one of the reorderings the code's memory orders allow.   *)
(* push() stores head with release order and then loads the watermark with *)
(* relaxed order (frame_ring.hpp:61,151): the load may be performed while  *)
(* the store still sits in the producer's store buffer.  When the loaded   *)
(* watermark is high enough no compare-exchange follows that would drain   *)
(* the buffer; the fetch_add of frames_queued_ does, at the latest.  This  *)
(* is what an x86 host build does; weaker machines allow more.             *)
(***************************************************************************)
EXTENDS FrameRing

PublishLate ==
  /\ producer.step = "publish"
  /\ queue_high_watermark >= Distance(Inc(head), producer.tail)
  /\ producer' = [producer EXCEPT !.step = "late"]
  /\ UNCHANGED <<ring, counters, queue_high_watermark, consumer, observer,
                 history>>

DrainHead ==
  /\ producer.step = "late"
  /\ head' = Inc(head)
  /\ producer' = [producer EXCEPT !.step = "count"]
  /\ UNCHANGED <<tail, frames, counters, queue_high_watermark, consumer,
                 observer, history>>

TSONext == Next \/ PublishLate \/ DrainHead

TSOSpec == Init /\ [][TSONext]_vars

\* "Reconcile with a fresh depth after the reset so the next interval's
\* watermark cannot be below the live queue depth" (frame_ring.hpp:116-118):
\* with no push and no reset in progress the watermark covers the depth.
WatermarkCoversDepthAtRest ==
  producer.step = "idle" /\ (\A o \in Observers : observer[o].step = "idle")
    => queue_high_watermark >= Depth
=============================================================================

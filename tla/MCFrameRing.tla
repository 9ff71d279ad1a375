---------------------------- MODULE MCFrameRing ----------------------------
(***************************************************************************)
(* A ring of two slots whose size_t wraps at 8 and starts at 6, so that    *)
(* the second frame wraps the indices.                                     *)
(***************************************************************************)
EXTENDS FrameRing
=============================================================================

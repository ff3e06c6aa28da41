---------------------------- MODULE MCRingBuffer ----------------------------
(* Instance of RingBuffer for TLC. *)
EXTENDS RingBuffer, TLC
=============================================================================

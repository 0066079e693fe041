-------------------------- MODULE MCSpscRingBuffer --------------------------
(* Model values for SpscRingBuffer. *)
EXTENDS SpscRingBuffer
=============================================================================

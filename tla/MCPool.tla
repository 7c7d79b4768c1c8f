------------------------------- MODULE MCPool -------------------------------
(* One byte to fill packets with: a packet's bytes tell their own position.  *)
EXTENDS MemoryPool
=============================================================================

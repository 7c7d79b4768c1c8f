------------------------------- MODULE MCLink -------------------------------
(* Peers are interchangeable. *)
EXTENDS LinkDelivery, TLC

Anyone == Permutations(Peers)
=============================================================================

----------------------------- MODULE PacketPool -----------------------------
(***************************************************************************)
(* What the users of the packet pool rely on, in UIPClient.cpp and         *)
(* UIPEthernet.cpp: a handle stands for a run of bytes that stay as they   *)
(* were written until it is resized or freed, and a packet is only refused *)
(* when there is no room for it, however the room is scattered.            *)
(***************************************************************************)
EXTENDS Naturals, Sequences, FiniteSets

CONSTANTS
    Handles,    \* entries of the table, 1..MEMPOOL_NUM_MEMBLOCKS
    Size,       \* bytes of the pool, MEMPOOL_SIZE
    Bytes       \* what a packet is filled with

VARIABLES
    packets,    \* the bytes of each handle
    answer      \* the last call of allocBlock(): what was asked, what returned

poolVars == <<packets, answer>>

NOBLOCK == 0

\* The bytes that are taken, each by its packet and its place in it.
Taken == UNION {{h} \X DOMAIN packets[h] : h \in Handles}

Unused == {h \in Handles : packets[h] = <<>>}
HasRoom(n) == Unused # {} /\ Cardinality(Taken) + n <= Size

Filled(n, byte) == [j \in 1..n |-> <<byte, j>>]

PoolInit ==
    /\ packets = [h \in Handles |-> <<>>]
    /\ answer = [size |-> 0, handle |-> NOBLOCK]

\* allocBlock() and the copy that fills the block.
Take(n, byte) ==
    /\ n > 0
    /\ HasRoom(n)
    /\ \E h \in Unused :
           /\ answer' = [size |-> n, handle |-> h]
           /\ packets' = [packets EXCEPT ![h] = Filled(n, byte)]

Refuse(n) ==
    /\ n = 0 \/ ~HasRoom(n)
    /\ answer' = [size |-> n, handle |-> NOBLOCK]
    /\ UNCHANGED packets

Give(h) ==
    /\ packets' = [packets EXCEPT ![h] = <<>>]
    /\ UNCHANGED answer

\* What is left of a packet that was read, or sent, in part.
Cut(h, first, last) ==
    /\ 1 <= first /\ first <= last /\ last <= Len(packets[h])
    /\ packets' = [packets EXCEPT ![h] = SubSeq(@, first, last)]
    /\ UNCHANGED answer

PoolNext ==
    \/ \E n \in 0..Size : Refuse(n) \/ \E byte \in Bytes : Take(n, byte)
    \/ \E h \in Handles : Give(h) \/ \E i, j \in 1..Size : Cut(h, i, j)

PoolSpec == PoolInit /\ [][PoolNext]_poolVars
=============================================================================

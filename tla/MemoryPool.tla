----------------------------- MODULE MemoryPool -----------------------------
(***************************************************************************)
(* utility/mempool.cpp of UIPEthernet: the network chip's memory as a      *)
(* linked list of blocks in the order of their addresses.  A block goes    *)
(* into the smallest gap it fits; when it fits none, all blocks are moved  *)
(* to the front, and it goes behind the last.                              *)
(***************************************************************************)
EXTENDS Integers, Sequences

CONSTANTS
    MEMPOOL_NUM_MEMBLOCKS,  \* entries of the table
    MEMPOOL_SIZE,           \* bytes
    Bytes                   \* what a packet is filled with

ASSUME MemoryAssumption ==
    MEMPOOL_NUM_MEMBLOCKS \in Nat \ {0} /\ MEMPOOL_SIZE \in Nat \ {0}

VARIABLES
    blocks,     \* MemoryPool::blocks
    memory,     \* the bytes of the pool
    answer      \* the last call of allocBlock(): what was asked, what returned

memVars == <<blocks, memory, answer>>

POOLSTART == 0
NOBLOCK == 0
Blocks == 1..MEMPOOL_NUM_MEMBLOCKS
Addresses == 1..MEMPOOL_SIZE        \* from MEMPOOL_STARTADDRESS on
Empty == <<"none", 0>>

MemInit ==
    /\ blocks = [h \in Blocks \cup {POOLSTART} |->
                    [begin |-> IF h = POOLSTART THEN 1 ELSE 0,
                     size |-> 0, nextblock |-> NOBLOCK]]
    /\ memory = [a \in Addresses |-> Empty]
    /\ answer = [size |-> 0, handle |-> NOBLOCK]

\* The handles in the order of the list, from b[h] on.  A list is never
\* longer than the table.
Chain(b) ==
    LET from[n \in 0..MEMPOOL_NUM_MEMBLOCKS] ==
            [h \in DOMAIN b |->
                IF n = 0 \/ b[h].nextblock = NOBLOCK THEN <<h>>
                ELSE <<h>> \o from[n - 1][b[h].nextblock]]
    IN  from[MEMPOOL_NUM_MEMBLOCKS][POOLSTART]

EndOf(b, h) == b[h].begin + b[h].size
GapAfter(b, h) ==
    LET next == b[h].nextblock
    IN  (IF next = NOBLOCK THEN 1 + MEMPOOL_SIZE ELSE b[next].begin) - EndOf(b, h)

\* The first of the blocks with the smallest sufficient gap behind them.
Fits(b, n) == {j \in DOMAIN Chain(b) : GapAfter(b, Chain(b)[j]) >= n}
Best(b, n) ==
    LET c == Chain(b)
        better(j, k) == \/ GapAfter(b, c[j]) < GapAfter(b, c[k])
                        \/ GapAfter(b, c[j]) = GapAfter(b, c[k]) /\ j <= k
    IN  c[CHOOSE j \in Fits(b, n) : \A k \in Fits(b, n) : better(j, k)]

\* enc28J60_mempool_block_move_callback()
Moved(m, dest, src, n) ==
    [a \in Addresses |-> IF a \in dest..(dest + n - 1) THEN m[src + a - dest]
                         ELSE m[a]]

\* Seeded fault: the last block of the list is not moved.
CollectedButLast(b, m) ==
    LET c == Chain(b)
        upto[j \in DOMAIN c] ==
            IF j = 1 THEN [b |-> b, m |-> m]
            ELSE LET p    == upto[j - 1]
                     dest == EndOf(p.b, c[j - 1])
                 IN  IF j = Len(c) THEN p
                     ELSE [b |-> [p.b EXCEPT ![c[j]].begin = dest],
                           m |-> Moved(p.m, dest, b[c[j]].begin, b[c[j]].size)]
    IN  upto[Len(c)]

\* collect: every block is moved down to the end of the one before it.
Collected(b, m) ==
    LET c == Chain(b)
        upto[j \in DOMAIN c] ==
            IF j = 1 THEN [b |-> b, m |-> m]
            ELSE LET p    == upto[j - 1]
                     dest == EndOf(p.b, c[j - 1])
                 IN  [b |-> [p.b EXCEPT ![c[j]].begin = dest],
                      m |-> Moved(p.m, dest, b[c[j]].begin, b[c[j]].size)]
    IN  upto[Len(c)]

\* found: the first entry without a size.
Entries(b) == {h \in Blocks : b[h].size = 0}
Entry(b) == CHOOSE h \in Entries(b) : \A k \in Entries(b) : h <= k

\* What the caller writes into its new block.
Fill(m, at, n, byte) ==
    [a \in Addresses |-> IF a \in at..(at + n - 1) THEN <<byte, a - at + 1>> ELSE m[a]]

AllocBlock(n, byte) ==
    LET collect == Fits(blocks, n) = {}
        p  == IF collect THEN Collected(blocks, memory)
              ELSE [b |-> blocks, m |-> memory]
        after == IF collect THEN Chain(p.b)[Len(Chain(p.b))] ELSE Best(p.b, n)
        at == EndOf(p.b, after)
        new == Entry(p.b)
    IN  IF n > 0 /\ GapAfter(p.b, after) >= n /\ Entries(p.b) # {}
        THEN /\ answer' = [size |-> n, handle |-> new]
             /\ blocks' = [p.b EXCEPT ![after].nextblock = new,
                              ![new] = [begin |-> at, size |-> n,
                                        nextblock |-> p.b[after].nextblock]]
             /\ memory' = Fill(p.m, at, n, byte)
        ELSE /\ answer' = [size |-> n, handle |-> NOBLOCK]
             /\ blocks' = IF n = 0 THEN blocks ELSE p.b
             /\ memory' = IF n = 0 THEN memory ELSE p.m

\* Seeded fault: the size is left.
FreeBlockKeepsSize(h) ==
    /\ \E b \in DOMAIN blocks : h # NOBLOCK /\ blocks[b].nextblock = h
    /\ LET b == CHOOSE x \in DOMAIN blocks : blocks[x].nextblock = h
       IN  blocks' = [blocks EXCEPT ![b].nextblock = blocks[h].nextblock,
                                    ![h].nextblock = NOBLOCK]
    /\ UNCHANGED <<memory, answer>>

\* A handle that is not in the list is left alone.
FreeBlock(h) ==
    /\ IF h # NOBLOCK /\ h \in {Chain(blocks)[j] : j \in DOMAIN Chain(blocks)}
       THEN LET b == CHOOSE x \in DOMAIN blocks : blocks[x].nextblock = h
            IN  blocks' = [blocks EXCEPT ![b].nextblock = blocks[h].nextblock,
                               ![h].size = 0, ![h].nextblock = NOBLOCK]
       ELSE UNCHANGED blocks
    /\ UNCHANGED <<memory, answer>>

\* A block that was read in part, by its two callers never to its end ...
ResizeBlock(h, position) ==
    /\ 0 < position /\ position < blocks[h].size
    /\ blocks' = [blocks EXCEPT ![h].begin = @ + position, ![h].size = @ - position]
    /\ UNCHANGED <<memory, answer>>

\* ... or that is sent before it is full.
ResizeBlockTo(h, size) ==
    /\ 0 < size /\ size <= blocks[h].size
    /\ blocks' = [blocks EXCEPT ![h].size = size]
    /\ UNCHANGED <<memory, answer>>

MemNext ==
    \/ \E n \in 0..MEMPOOL_SIZE, byte \in Bytes : AllocBlock(n, byte)
    \/ \E h \in Blocks \cup {NOBLOCK} : FreeBlock(h)
    \/ \E h \in Blocks, n \in 1..MEMPOOL_SIZE : ResizeBlock(h, n) \/ ResizeBlockTo(h, n)

MemSpec == MemInit /\ [][MemNext]_memVars

-----------------------------------------------------------------------------
\* c is the list of b: from POOLSTART along nextblock, over the entries with
\* a size and no others, each behind all before it and inside the pool.
IsList(b, c) ==
    /\ c \in Seq(DOMAIN b) /\ c # <<>> /\ c[1] = POOLSTART
    /\ \A j \in DOMAIN c : b[c[j]].nextblock = IF j = Len(c) THEN NOBLOCK ELSE c[j + 1]
    /\ {c[j] : j \in 2..Len(c)} = {h \in Blocks : b[h].size > 0}
    /\ \A i, j \in DOMAIN c : i < j => EndOf(b, c[i]) <= b[c[j]].begin
    /\ \A j \in DOMAIN c : EndOf(b, c[j]) <= 1 + MEMPOOL_SIZE

\* An entry of the table that is not in the list leads nowhere.
IsTable(b) ==
    /\ b \in [Blocks \cup {POOLSTART} ->
                 [begin : Nat, size : Nat, nextblock : Blocks \cup {NOBLOCK}]]
    /\ b[POOLSTART].begin = 1 /\ b[POOLSTART].size = 0
    /\ \A h \in Blocks : b[h].size = 0 => b[h].nextblock = NOBLOCK

\* The inductive invariant: the table is one list, whatever was allocated,
\* cut and freed, and in whatever order.
MemInv ==
    /\ IsTable(blocks)
    /\ IsList(blocks, Chain(blocks))
    /\ DOMAIN memory = Addresses
    /\ answer \in [size : 0..MEMPOOL_SIZE, handle : Blocks \cup {NOBLOCK}]

\* The pool does what its users rely on: packets keep their bytes through
\* every move, and none is refused while there is room for it.
Packet(h) == [j \in 1..blocks[h].size |-> memory[blocks[h].begin + j - 1]]
Pool == INSTANCE PacketPool WITH
    Handles <- Blocks, Size <- MEMPOOL_SIZE,
    packets <- [h \in Blocks |-> Packet(h)]
ImplementsPool == Pool!PoolSpec
=============================================================================

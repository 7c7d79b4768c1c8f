CONSTANTS
    Peers = {a}
    Nobody = nobody
    UIP_CONNS = 1
    UIP_SOCKET_NUMPACKETS = 2
    PoolBlocks = 3
    MaxSegments = 1
    AnswerBlocks = 1
SPECIFICATION FairSpec
PROPERTY
    AbortedIsGone

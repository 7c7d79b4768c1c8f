CONSTANTS
    Peers = {a, b}
    Nobody = nobody
    UIP_CONNS = 1
    UIP_SOCKET_NUMPACKETS = 2
    PoolBlocks = 5
    MaxSegments = 2
    AnswerBlocks = 3
SPECIFICATION FairSpec
PROPERTIES
    
    StoppedIsClosed

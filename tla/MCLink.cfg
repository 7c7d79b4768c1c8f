CONSTANTS
    Peers = {a, b}
    Nobody = nobody
    UIP_CONNS = 2
    UIP_SOCKET_NUMPACKETS = 2
    PoolBlocks = 4
    MaxSegments = 2
    AnswerBlocks = 1
SYMMETRY Anyone
SPECIFICATION Spec
INVARIANTS
    LinkInv
    DeliveryInv
    TypeOK
    OwnedData
    HeldOnce
    NoLeak
    NothingLost
    RequestWhole
    AnswersAsker
    WindowHolds

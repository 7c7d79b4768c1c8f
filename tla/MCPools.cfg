CONSTANTS
    Actuators = {"d1", "d2"}
    OtherWords = {"d9", "ten"}
    MaxElements = 4
    NumValues = 2
    MaxDevices = 2
    MaxRequestSize = 220
    MaxServed = 3
    Requests <- PoolRequests
SPECIFICATION Spec
INVARIANTS
    Inv
    ArrayOutlivesPool
    WildOnlyWhenSpent
PROPERTIES
    UnarmedNeedsGetData

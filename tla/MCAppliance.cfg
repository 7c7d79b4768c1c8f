CONSTANTS
    Actuators = {"d1", "d2"}
    OtherWords = {"d9", "ten"}
    MaxElements = 20
    NumValues = 6
    MaxDevices = 10
    MaxRequestSize = 220
    MaxServed = 1
    Requests <- AllRequests
SPECIFICATION Spec
INVARIANTS
    TypeOK
    CountersAgree
    ExecutedDevicesSent
    NoArgsIsGetData
PROPERTIES
    PinsNeedExecuteFlag
    ExecutesOnce
    FlowNeverRefuses

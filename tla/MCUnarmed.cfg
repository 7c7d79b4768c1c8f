CONSTANTS
    Actuators = {"d1", "d2"}
    OtherWords = {"d9", "ten"}
    MaxElements = 20
    NumValues = 6
    MaxDevices = 10
    MaxRequestSize = 220
    MaxServed = 3
    Requests <- PulseAndGet
SPECIFICATION Spec
PROPERTY PinsNeedExecuteFlag

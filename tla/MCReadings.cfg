CONSTANTS
    Sensors = {1, 2, 3, 4}
    Lengths <- Widths
SPECIFICATION DataSpec
INVARIANTS
    SensorInv
    SectionRight

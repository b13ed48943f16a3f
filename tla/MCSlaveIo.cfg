SPECIFICATION Spec
CONSTANTS
    MaxTyped = 3
    MaxOut = 3
    MaxLines = 4
INVARIANTS TypeOK
PROPERTIES IsSlaveWait StopIsNoticed LineArrives HungStaysHung

\* The firmware moves both sources between the levels.
SPECIFICATION Spec
CONSTANTS
    Irq <- MCIrq
    Async <- MCAsync
    IpValues <- TwoLevels
    MaxNest = 3
INVARIANTS TypeOK PendingSound PendingComplete HighInnermost
PROPERTIES AcceptJustified

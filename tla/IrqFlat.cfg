\* Every source on the low level, the UART's asserted by the listener too.
SPECIFICATION FairSpec
CONSTANTS
    Irq <- MCIrq
    Async <- MCAsync
    IpValues <- OneLevel
    MaxNest = 2
INVARIANTS NoNesting
PROPERTIES ServiceSpec ClaimServed

\* The meaning core.c gives irqlevel, under both levels.
SPECIFICATION FairSpec
CONSTANTS
    Irq <- MCIrq
    Async <- MCNoAsync
    IpValues <- TwoLevels
    MaxNest = 3
INVARIANT IrqlevelIsBitmask

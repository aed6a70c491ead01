\* Any sequence of instructions that touch the UART; every one of them ends.
SPECIFICATION FairSpec
CONSTANTS
    MaxRx = 1
    MaxReset = 1
INVARIANTS LockDiscipline JunkOnlyAfterReset StaleOnlyAfterArrival FirstWriteForgiven
PROPERTIES TiOnlyByCpu RiLossWindow NoOverrun ServedIsHeard InstructionEnds

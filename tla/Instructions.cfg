\* Every small listing built; two bytes of every number on the emulator's own.
SPECIFICATION InstructionsSpec
CONSTANTS
    Opcode <- Opcodes
    Limbs <- SomeLimbs
    Factors <- SomeFactors
    Listings <- SmallListings
    Emulator <- Listed
    Flags <- StartFlags
    MaxWeight = 65536
INVARIANTS TableRight LongExact

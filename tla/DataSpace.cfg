\* Every program of a few instructions after a prologue.
SPECIFICATION MCSpec
CONSTANTS
    Program <- SomeInsns
    Device <- SomeDevice
    Answer <- Answers
    MaxInsns = 3
INVARIANT TypeOK
PROPERTIES SpacesApart StackLifo PointerCounts

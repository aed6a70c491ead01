\* What INC and DEC @Ri and a store to R0-R7 do on an 8052.
SPECIFICATION MCSpec
CONSTANTS
    Program <- SomeInsns
    Device <- SomeDevice
    Answer <- Answers
    MaxInsns = 3
PROPERTY ActsAs8052

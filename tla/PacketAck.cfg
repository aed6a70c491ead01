\* What the packet loop writes to acknowledge a packet.
SPECIFICATION Spec
CONSTANTS
    Code <- Program
    Cell <- Cells
    Packet <- Bytes68
    Message <- GotPacket
    MessageAt <- At
    FirstReg <- Reg1
    FirstPhy <- Phy1
    Memory <- Pattern
    TextAt <- TextsAt
    Text <- Texts
    PartSize <- TwoBytes
    FirstFill <- NearEnd
    FirstWord <- LastWords
    SramBytes <- SramHere
    Jobs <- OneLoop
INVARIANT AckIsOne

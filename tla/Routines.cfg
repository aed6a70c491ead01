\* Every routine with every job.
SPECIFICATION Spec
CONSTANTS
    Code <- Program
    Cell <- Cells
    Packet <- Bytes68
    Message <- GotPacket
    MessageAt <- At
    FirstReg <- Reg1
    FirstPhy <- Phy1
    Memory <- Pattern
    TextAt <- TextsAt
    Text <- Texts
    PartSize <- TwoBytes
    FirstFill <- NearEnd
    FirstWord <- LastWords
    SramBytes <- SramHere
    Jobs <- AllJobs
INVARIANTS FollowsPlan ReachesRegister PrintsDump Transcript AckAfterUse PrintsMachine
PROPERTIES AppliesList Completes

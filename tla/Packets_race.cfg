SPECIFICATION Spec
CONSTANTS
    Ids = {1, 2}
    Seeds = {"s", "t"}
    Servers = {"a", "b"}
    UserLength = 3
    BcastRj = TRUE
    FrameBufSize = 400
    Block = 8
    LengthAt = 6
    WideAt = 4
    Word = 2
    Table <- GbkTable
    Ifname = "en0"
    Data <- AllData
INVARIANTS PacketAsAsked

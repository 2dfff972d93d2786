\* Every assumption on the environment holds.
CONSTANTS
    PACKAGE_SIZE = 2
    BRAM_SIZE = 4
    ULONG_MOD = 64
    Configs <- EverySetting
    Commands = {"START", "STOP", "OTHER"}
    MaxRecords = 2
    MaxCommands = 3
    Window = 1
    Assumed <- Assumptions
SPECIFICATION FairSpec
INVARIANTS TypeOK OrderlyInv Intact RecordComplete FileDescribesRecord NoFileFault
PROPERTIES RecordDelivered StreamSpec

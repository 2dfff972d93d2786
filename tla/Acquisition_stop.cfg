\* STOP may come in the middle of a record, and leaves no data interrupt behind.
CONSTANTS
    PACKAGE_SIZE = 2
    BRAM_SIZE = 4
    ULONG_MOD = 64
    Configs <- SomeOfEach
    Commands = {"START", "STOP"}
    MaxRecords = 4
    MaxCommands = 8
    Window = 1
    Assumed <- StopInRecord
SPECIFICATION FairSpec
INVARIANT StopRemovesFile
PROPERTY EveryCommandAnswered

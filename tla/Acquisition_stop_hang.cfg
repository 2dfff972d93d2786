\* STOP races the trigger of a record.
CONSTANTS
    PACKAGE_SIZE = 2
    BRAM_SIZE = 4
    ULONG_MOD = 64
    Configs <- PcRecords
    Commands = {"START", "STOP"}
    MaxRecords = 1
    MaxCommands = 3
    Window = 1
    Assumed <- StopOnTrigger
SPECIFICATION FairSpec
PROPERTY EveryCommandAnswered
CHECK_DEADLOCK FALSE

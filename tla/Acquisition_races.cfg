\* Nothing is assumed: every race of the two threads and the PL.
CONSTANTS
    PACKAGE_SIZE = 2
    BRAM_SIZE = 4
    ULONG_MOD = 64
    Configs <- SdRecords
    Commands = {"START", "STOP"}
    MaxRecords = 2
    MaxCommands = 2
    Window = 1
    Assumed <- Nothing
SPECIFICATION Spec
INVARIANT NoFileLeak
CHECK_DEADLOCK FALSE

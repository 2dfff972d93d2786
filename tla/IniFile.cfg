CONSTANTS
    Section <- Sect
    Keys <- KeySeq
    DataDirectory <- Dir
    Names <- AllNames
    Values = {1, 2}
    Files <- AllFiles
    NewFiles <- Uploads
    MAX_LINES = 5
    MaxChanges = 1
SPECIFICATION Spec
INVARIANTS ReadsFile WriteKeepsOthers
CHECK_DEADLOCK FALSE

CONSTANTS
    Files = {f1, f2}
    Sharing = FALSE
    SIZE = 3
    ULONG = 4
    Values = {0, 1}
    Zero = 0
    Offsets <- Seeks
    MaxPos = 5
    Maps = {m1, m2}
    NULL = NULL
SPECIFICATION Spec
INVARIANTS TypeOK MappedWhileOpen

CONSTANTS
    Inis <- SampleInis
    Seconds = {0, 59, 86399}
    ULONG = 65536
    fd = fd
    map = map
    NULL = NULL
SPECIFICATION Spec
INVARIANTS TypeOK ConfiguredWhenArmed
PROPERTIES ArmsConfigured FieldIsolation

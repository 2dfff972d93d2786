CONSTANTS
    Clients = {c1, c2}
    Buffers = {b1, b2, b3}
    Modes = {"r", "w"}
    Events = {"lock", "release", "wait", "nomem", "fault"}
    Free = Free
    NULL = NULL
SPECIFICATION Spec
SYMMETRY Interchangeable
INVARIANTS OneWriter OneTransfer

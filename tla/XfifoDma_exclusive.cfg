CONSTANTS
    Clients = {c1, c2}
    Buffers = {b1, b2}
    Modes = {"w"}
    Events = {"lock", "nomem"}
    Free = Free
    NULL = NULL
SPECIFICATION FairSpec
INVARIANTS TypeOK BufferSafe NoBufferLeak ReadsOwnData AdmitsWhenClosed
PROPERTY CallReturns
